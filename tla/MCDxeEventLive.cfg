SPECIFICATION FairSpec
CONSTANTS
  e1 = e1
  e2 = e2
  e3 = e3
  g1 = g1
  NoGroup = NoGroup
  Events = {e1, e2, e3}
  Kind <- WaitKinds
  Timers = {e1, e3}
  NotifyTpl <- GroupTpls
  EventGroup <- Ungrouped
  Created = {e1, e2, e3}
  Boots <- WaitBoots
  Notifies <- WaitNotifies
  MaxTime = 2
  MaxNesting = 1
PROPERTIES
  PendingDispatched
  TimersFire
  WaitReturns
CHECK_DEADLOCK FALSE
