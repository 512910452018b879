----------------------------- MODULE MCDxeEvent -----------------------------
(* Instances of the DXE core's events for TLC. *)
EXTENDS DxeEvent

CONSTANTS e1, e2, e3, g1

Signals == [e \in Events |-> "signal"]
LowHigh == [e \in Events |-> IF e = e1 THEN 8 ELSE 16]
Ungrouped == [e \in Events |-> NoGroup]

\* Timers e1 and e2, set, set again and cancelled, also from a notification
\* function, and code that raises its TPL.
TimerBoots ==
  {SetTimerCall(e1, "relative", 0), SetTimerCall(e1, "relative", 1),
   SetTimerCall(e2, "periodic", 1), SetTimerCall(e2, "cancel", 0),
   Act("RaiseTpl", CheckTimerEvent, 0, "", 8), Service("SignalEvent", e2)}
SetAgain ==
  [e \in Events |-> IF e = e2 THEN {Service("SignalEvent", e1), SetTimerCall(e1, "relative", 1)}
                              ELSE {SetTimerCall(e1, "relative", 0)}]

\* Two events of a group and one on its own; one is created late, and closed.
Grouped == [e \in Events |-> IF e = e3 THEN NoGroup ELSE g1]
GroupTpls == [e \in Events |-> IF e = e3 THEN 16 ELSE 8]
\* All of it: timers of two TPLs, set, set again and cancelled, also from a
\* notification function; a group one of whose events is created late and
\* closed; code that raises its TPL.
ServiceBoots ==
  {SetTimerCall(e1, "relative", 0), SetTimerCall(e1, "relative", 1),
   SetTimerCall(e3, "periodic", 1), SetTimerCall(e3, "cancel", 0),
   Act("RaiseTpl", CheckTimerEvent, 0, "", 8),
   Service("SignalEvent", e1), Service("SignalEvent", e3),
   Service("CreateEvent", e2), Service("CloseEvent", e2), Service("CloseEvent", e3)}
ServiceNotifies ==
  [e \in Events |->
     IF e = e3 THEN {Service("SignalEvent", e2), SetTimerCall(e1, "relative", 1)}
     ELSE IF e = e2 THEN {Service("CloseEvent", e2)} ELSE {SetTimerCall(e1, "relative", 0)}]

\* The boot flow waits for a timer event and for one that is polled.
WaitKinds ==
  [e \in Events |-> IF e = e1 THEN "plain" ELSE IF e = e2 THEN "wait" ELSE "signal"]
WaitBoots ==
  {Act("CheckEvent", e1, 0, "wait", 0), Act("CheckEvent", e2, 0, "wait", 0),
   Service("CheckEvent", e1), SetTimerCall(e1, "relative", 1), SetTimerCall(e3, "relative", 1)}
WaitNotifies ==
  [e \in Events |-> IF e = e2 THEN {Service("SignalEvent", e2)} ELSE {}]

\* A notification function that closes an event of a lower TPL.
CloseLow == [e \in Events |-> IF e = e2 THEN {Service("CloseEvent", e1)} ELSE {}]
CloseBoots == {Service("SignalEvent", e1), SetTimerCall(e2, "relative", 1)}
=============================================================================
