SPECIFICATION Spec
CONSTANTS
  e1 = e1
  e2 = e2
  e3 = e3
  g1 = g1
  NoGroup = NoGroup
  Events = {e1, e2}
  Kind <- Signals
  Timers = {e2}
  NotifyTpl <- LowHigh
  EventGroup <- Ungrouped
  Created = {e1, e2}
  Boots <- CloseBoots
  Notifies <- CloseLow
  MaxTime = 2
  MaxNesting = 2
INVARIANTS
  NotifiesOpenEvents
CHECK_DEADLOCK FALSE
