SPECIFICATION Spec
CONSTANTS
  e1 = e1
  e2 = e2
  e3 = e3
  g1 = g1
  NoGroup = NoGroup
  Events = {e1, e2}
  Kind <- Signals
  Timers = {e1, e2}
  NotifyTpl <- LowHigh
  EventGroup <- Ungrouped
  Created = {e1, e2}
  Boots <- TimerBoots
  Notifies <- SetAgain
  MaxTime = 2
  MaxNesting = 2
INVARIANTS
  TplInRange
CHECK_DEADLOCK FALSE
