SPECIFICATION Spec
CONSTANTS
  e1 = e1
  e2 = e2
  e3 = e3
  g1 = g1
  NoGroup = NoGroup
  Events = {e1, e2, e3}
  Kind <- Signals
  Timers = {e1, e3}
  NotifyTpl <- GroupTpls
  EventGroup <- Grouped
  Created = {e1, e3}
  Boots <- ServiceBoots
  Notifies <- ServiceNotifies
  MaxTime = 2
  MaxNesting = 2
INVARIANTS
  TypeOK
  LinkedOnce
  PriorityNesting
  TimerLockFree
  QueuedIsPending
  SignalledIsQueued
  ClosedUnlinked
CHECK_DEADLOCK FALSE
