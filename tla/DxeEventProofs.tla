--------------------------- MODULE DxeEventProofs ---------------------------
(***************************************************************************)
(* Theorems about the events of the DXE core. All but the first rest on    *)
(* EventInv: the activations nest (DxeEventNesting), each list has an      *)
(* event once, what an activation found out about a list or an event       *)
(* before it was interrupted is still true when it goes on, and            *)
(* mEfiTimerLock is held by an activation. SignalInv and CloseInv add to   *)
(* it what the theorems about signals and about closed events need.        *)
(***************************************************************************)
EXTENDS DxeEventNesting

\* The queues are one list per level, and each level that has a notification
\* queued has its bit in gEventPending.
QueueFunction == DOMAIN queue = Levels /\ queue = [p \in Levels |-> queue[p]]
QueueInv == QueueFunction /\ QueuedIsPending

\* RemoveEntryList does nothing to an empty queue.
LEMMA RemoveFirstEmpty ==
  ASSUME NEW e
  PROVE  RemoveFirst(<<>>, e) = <<>>
<1>1. ~ \E i \in 1 .. Len(<<>>) : <<>>[i] = e
  OBVIOUS
<1> QED
  BY <1>1 DEF RemoveFirst

\* CoreNotifyEvent sets the bit of the level to whose queue it adds.
LEMMA NotifyPending ==
  ASSUME QueueInv, NEW e, CoreNotifyEvent(e)
  PROVE  QueueInv'
<1> DEFINE q == Append(RemoveFirst(queue[Tpl[e]], e), e)
<1>1. queue' = [queue EXCEPT ![Tpl[e]] = q] /\ pending' = pending \cup {Tpl[e]}
  BY DEF CoreNotifyEvent
<1> HIDE DEF q
<1>2. QueueFunction'
  BY <1>1 DEF QueueInv, QueueFunction
<1>3. ASSUME NEW p \in Levels, queue'[p] # <<>> PROVE p \in pending'
  BY <1>1, <1>3 DEF QueueInv, QueueFunction, QueuedIsPending
<1> QED
  BY <1>2, <1>3 DEF QueueInv, QueuedIsPending

\* A step that leaves the queues and gEventPending alone.
LEMMA QueuesUnchanged ==
  ASSUME QueueInv, UNCHANGED <<queue, pending>>
  PROVE  QueueInv'
BY DEF QueueInv, QueueFunction, QueuedIsPending

\* CoreDispatchEventNotifies takes a notification off its queue, and clears
\* the bit only under the lock under which it found the queue empty.
LEMMA DispatchPending ==
  ASSUME QueueInv, DispatchTake \/ DispatchDone
  PROVE  QueueInv'
<1>1. CASE DispatchTake
  <2> DEFINE q == Tail(queue[Running.tpl])
  <2>1. queue' = [queue EXCEPT ![Running.tpl] = q] /\ UNCHANGED pending
    BY <1>1 DEF DispatchTake
  <2>2. queue[Running.tpl] # <<>>
    BY <1>1 DEF DispatchTake
  <2> HIDE DEF q
  <2>3. QueueFunction'
    BY <2>1 DEF QueueInv, QueueFunction
  <2>4. ASSUME NEW p \in Levels, queue'[p] # <<>> PROVE p \in pending'
    BY <2>1, <2>2, <2>4 DEF QueueInv, QueueFunction, QueuedIsPending
  <2> QED
    BY <2>3, <2>4 DEF QueueInv, QueuedIsPending
<1>2. CASE DispatchDone
  BY <1>2 DEF DispatchDone, QueueInv, QueueFunction, QueuedIsPending
<1> QED
  BY <1>1, <1>2

\* CoreCloseEvent only unlinks.
LEMMA ClosePending ==
  ASSUME QueueInv, CloseEventUnlink
  PROVE  QueueInv'
<1>1. queue' = [p \in Levels |-> RemoveFirst(queue[p], Running.ev)] /\ UNCHANGED pending
  BY DEF CloseEventUnlink
<1>2. QueueFunction'
  BY <1>1 DEF QueueFunction
<1>3. ASSUME NEW p \in Levels, queue'[p] # <<>> PROVE p \in pending'
  BY <1>1, <1>3, RemoveFirstEmpty DEF QueueInv, QueuedIsPending
<1> QED
  BY <1>2, <1>3 DEF QueueInv, QueuedIsPending

\* The services that may queue a notification.
LEMMA SignalPending ==
  ASSUME QueueInv, SignalEvent \/ SignalListNext \/ CheckEvent \/ CoreTimerTick
  PROVE  QueueInv'
<1>1. CASE SignalEvent
  BY <1>1, NotifyPending, QueuesUnchanged DEF SignalEvent, queues
<1>2. CASE SignalListNext
  BY <1>2, NotifyPending, QueuesUnchanged DEF SignalListNext
<1>3. CASE CheckEvent
  BY <1>3, NotifyPending, QueuesUnchanged DEF CheckEvent
<1>4. CASE CoreTimerTick
  BY <1>4, NotifyPending, QueuesUnchanged DEF CoreTimerTick
<1> QED
  BY <1>1, <1>2, <1>3, <1>4

\* Whatever interrupts, notification functions and drivers do and however
\* they nest, no queued notification is without its bit in gEventPending, the
\* only thing CoreRestoreTpl and CoreWaitForEvent look at.
THEOREM NothingOverlooked == Spec => []QueuedIsPending
<1>1. Init => QueueInv
  BY DEF Init, QueueInv, QueueFunction, QueuedIsPending
<1>2. QueueInv /\ [Next]_vars => QueueInv'
  <2> SUFFICES ASSUME QueueInv, [Next]_vars PROVE QueueInv'
    OBVIOUS
  <2>1. CASE DispatchTake \/ DispatchDone
    BY <2>1, DispatchPending
  <2>2. CASE CloseEventUnlink
    BY <2>2, ClosePending
  <2>3. CASE SignalEvent \/ SignalListNext \/ CheckEvent \/ CoreTimerTick
    BY <2>3, SignalPending
  <2>4. CASE \/ RestoreTplTest \/ RestoreTplRead \/ RestoreTplDispatch \/ RestoreTplSet
             \/ DispatchNotify \/ CreateEvent
             \/ SignalListLock \/ SignalListUnlock \/ SignalEventEnd
             \/ CheckEventTake \/ WaitForEvent
    BY <2>4, QueuesUnchanged DEF queues, RestoreTplTest, RestoreTplRead, RestoreTplDispatch,
       RestoreTplSet, DispatchNotify, CreateEvent, SignalListLock, SignalListUnlock,
       SignalEventEnd, CheckEventTake, WaitForEvent
  <2>5. CASE \/ SetTimer \/ SetTimerRemove \/ SetTimerTime \/ SetTimerInsert
             \/ SetTimerRelease \/ CheckTimers \/ CheckTimersTime \/ CheckTimersScan
             \/ CheckTimersAgain \/ CheckTimersInsert \/ CheckTimersRelease
    BY <2>5, QueuesUnchanged DEF queues, SetTimer, SetTimerRemove, SetTimerTime,
       SetTimerInsert, SetTimerRelease, CheckTimers, CheckTimersTime, CheckTimersScan,
       CheckTimersAgain, CheckTimersInsert, CheckTimersRelease
  <2>6. CASE \/ CloseEvent \/ CloseEventFree \/ RaiseTpl \/ RestoreTpl \/ NotifyReturns
             \/ Iret \/ CodeCalls
    BY <2>6, QueuesUnchanged DEF queues, CloseEvent, CloseEventFree, RaiseTpl, RestoreTpl,
       NotifyReturns, Iret, CodeCalls
  <2>7. CASE UNCHANGED vars
    BY <2>7, QueuesUnchanged DEF vars, queues
  <2> QED
    BY <2>1, <2>2, <2>3, <2>4, <2>5, <2>6, <2>7 DEF Next, CoreStep
<1>3. QueueInv => QueuedIsPending
  BY DEF QueueInv
<1> QED
  BY <1>1, <1>2, <1>3, PTL DEF Spec

----------------------------------------------------------------------------
(* The queues: every entry once, in the queue of its level.                *)

QueueTypes == QueuesOK /\ pending \subseteq Levels

\* CoreNotifyEvent moves or adds an event to the queue of its level.
LEMMA NotifyQueues ==
  ASSUME QueueTypes, NEW e \in AllEvents, Type[e] # "plain", CoreNotifyEvent(e)
  PROVE  /\ QueueTypes'
         /\ \A p \in Levels : ToSet(queue'[p]) = ToSet(queue[p]) \cup (IF p = Tpl[e] THEN {e} ELSE {})
<1> DEFINE l == Tpl[e]
           r == RemoveFirst(queue[l], e)
           q == Append(r, e)
<1>1. l \in Levels
  BY TplsOfEvents
<1>2. queue[l] \in Seq(AllEvents) /\ IsInjective(queue[l])
  BY <1>1 DEF QueueTypes, QueuesOK
<1>3. queue' = [queue EXCEPT ![l] = q] /\ pending' = pending \cup {l}
  BY DEF CoreNotifyEvent
<1>4. r \in Seq(AllEvents) /\ IsInjective(r) /\ ToSet(r) = ToSet(queue[l]) \ {e}
  <2> HIDE DEF l
  <2> QED
    BY <1>2, RemovedOnce
<1> HIDE DEF r
<1>5. q \in Seq(AllEvents) /\ IsInjective(q) /\ ToSet(q) = ToSet(r) \cup {e}
  BY <1>4, AppendedOnce
<1> HIDE DEF q
<1>6. ToSet(q) = ToSet(queue[l]) \cup {e}
  BY <1>4, <1>5
<1>7. queue' \in [Levels -> Seq(AllEvents)] /\ queue'[l] = q
      /\ \A p \in Levels \ {l} : queue'[p] = queue[p]
  BY <1>1, <1>3, <1>5 DEF QueueTypes, QueuesOK
<1>8. ASSUME NEW p \in Levels
      PROVE  IsInjective(queue'[p]) /\ \A f \in ToSet(queue'[p]) : Tpl[f] = p
  <2>1. CASE p = l
    <3>1. \A f \in ToSet(queue[l]) : Tpl[f] = l
      BY <1>1 DEF QueueTypes, QueuesOK
    <3> QED
      BY <2>1, <3>1, <1>5, <1>6, <1>7
  <2>2. CASE p # l
    BY <2>2, <1>7 DEF QueueTypes, QueuesOK
  <2> QED
    BY <2>1, <2>2
<1>9. pending' \subseteq Levels
  BY <1>1, <1>3 DEF QueueTypes
<1>10. QueueTypes'
  BY <1>7, <1>8, <1>9 DEF QueueTypes, QueuesOK
<1>11. \A p \in Levels : ToSet(queue'[p]) = ToSet(queue[p]) \cup (IF p = l THEN {e} ELSE {})
  BY <1>6, <1>7
<1> QED
  BY <1>10, <1>11

LEMMA SameQueues ==
  ASSUME QueueTypes, UNCHANGED <<queue, pending>>
  PROVE  QueueTypes'
BY DEF QueueTypes, QueuesOK

\* CoreDispatchEventNotifies takes the first entry off its queue.
LEMMA TakeQueues ==
  ASSUME QueueTypes, NEW l \in Levels, queue[l] # <<>>,
         queue' = [queue EXCEPT ![l] = Tail(@)], pending' = pending
  PROVE  /\ QueueTypes'
         /\ \A p \in Levels :
              ToSet(queue'[p]) = ToSet(queue[p]) \ (IF p = l THEN {Head(queue[l])} ELSE {})
<1> DEFINE q == Tail(queue[l])
<1>1. queue[l] \in Seq(AllEvents) /\ IsInjective(queue[l])
  BY DEF QueueTypes, QueuesOK
<1>2. q \in Seq(AllEvents) /\ IsInjective(q) /\ ToSet(q) = ToSet(queue[l]) \ {Head(queue[l])}
  BY <1>1, TailOnce
<1>3. queue' = [queue EXCEPT ![l] = q]
  OBVIOUS
<1> HIDE DEF q
<1>4. queue' \in [Levels -> Seq(AllEvents)] /\ queue'[l] = q
      /\ \A p \in Levels \ {l} : queue'[p] = queue[p]
  BY <1>2, <1>3 DEF QueueTypes, QueuesOK
<1>5. ASSUME NEW p \in Levels
      PROVE  IsInjective(queue'[p]) /\ \A f \in ToSet(queue'[p]) : Tpl[f] = p
  <2>1. CASE p = l
    <3>1. \A f \in ToSet(queue[l]) : Tpl[f] = l
      BY DEF QueueTypes, QueuesOK
    <3> QED
      BY <2>1, <3>1, <1>2, <1>4
  <2>2. CASE p # l
    BY <2>2, <1>4 DEF QueueTypes, QueuesOK
  <2> QED
    BY <2>1, <2>2
<1>6. QueueTypes'
  BY <1>4, <1>5 DEF QueueTypes, QueuesOK
<1>7. \A p \in Levels :
        ToSet(queue'[p]) = ToSet(queue[p]) \ (IF p = l THEN {Head(queue[l])} ELSE {})
  BY <1>2, <1>4
<1> QED
  BY <1>6, <1>7

\* CoreCloseEvent takes an event off all queues.
LEMMA UnlinkQueues ==
  ASSUME QueueTypes, NEW e, queue' = [p \in Levels |-> RemoveFirst(queue[p], e)],
         pending' = pending
  PROVE  QueueTypes' /\ \A p \in Levels : ToSet(queue'[p]) = ToSet(queue[p]) \ {e}
<1>1. ASSUME NEW p \in Levels
      PROVE  /\ queue'[p] \in Seq(AllEvents) /\ IsInjective(queue'[p])
             /\ ToSet(queue'[p]) = ToSet(queue[p]) \ {e}
  <2>1. queue[p] \in Seq(AllEvents) /\ IsInjective(queue[p])
    BY DEF QueueTypes, QueuesOK
  <2>2. queue'[p] = RemoveFirst(queue[p], e)
    OBVIOUS
  <2> QED
    BY <2>1, <2>2, RemovedOnce
<1>2. queue' \in [Levels -> Seq(AllEvents)]
  BY <1>1
<1>3. \A p \in Levels : \A f \in ToSet(queue'[p]) : Tpl[f] = p
  BY <1>1 DEF QueueTypes, QueuesOK
<1> QED
  BY <1>1, <1>2, <1>3 DEF QueueTypes, QueuesOK

----------------------------------------------------------------------------
(* The inductive invariant.                                                *)

\* gEventSignalQueue has the open events of EVT_NOTIFY_SIGNAL.
ListTypes ==
  /\ life \in [AllEvents -> {"new", "open", "closed"}]
  /\ signalQueue \in Seq(AllEvents) /\ IsInjective(signalQueue)
  /\ \A e \in ToSet(signalQueue) : Type[e] = "signal" /\ life[e] = "open"
  /\ timerList \in Seq(Timers) /\ IsInjective(timerList)

\* What an activation relies on, when it goes on, of the lists and of events:
\* a timer it is about to insert is not linked, an event it creates is new,
\* and an event that CoreCloseEvent has unlinked stays so.
Relies(a) ==
  /\ a.pc \in Arming => a.ev \notin ToSet(timerList)
  /\ a.pc = "CreateEvent" => life[a.ev] = "new"
  /\ a.pc \in Closing => life[a.ev] # "new"
  /\ a.pc = "CloseEvent.free" => a.ev \notin ToSet(signalQueue)
AllRely == \A a \in ToSet(stack) : Relies(a)

DataTypes ==
  /\ ints \in BOOLEAN /\ timerLock \in BOOLEAN
  /\ signalled \subseteq AllEvents
  /\ trigger \in [Timers -> Nat] /\ period \in [Timers -> Nat] /\ time \in Nat

\* mEfiTimerLock is held by an activation, and the list of events is walked
\* with interrupts disabled.
Control ==
  /\ timerLock => \E a \in ToSet(stack) : a.pc \in Holding
  /\ At("SignalList.next") => ~ints

EventInv == StackOK /\ QueueTypes /\ ListTypes /\ AllRely /\ DataTypes /\ Control

\* The steps that queue a notification queue one that has a queue.
LEMMA QueuesStep ==
  ASSUME EventInv, Next
  PROVE  QueueTypes'
<1>1. QueueTypes /\ ListTypes /\ Fits(Running, tpl) /\ Running \in Activation
  BY RunningFits DEF EventInv
<1>2. Running.ev \in AllEvents /\ Running.x \in Nat
  BY <1>1 DEF Activation
<1>3. CASE DispatchTake
  <2>1. Running.tpl \in Levels
    <3>1. Running.pc = "Dispatch" /\ tpl <= TPL_HIGH_LEVEL
      BY <1>3 DEF DispatchTake, At, RaiseTplLegal
    <3> QED
      BY <3>1, <1>1, TplsOfEvents DEF Fits, AtLevel, Dispatching
  <2>2. /\ queue[Running.tpl] # <<>> /\ queue' = [queue EXCEPT ![Running.tpl] = Tail(@)]
        /\ pending' = pending
    BY <1>3 DEF DispatchTake
  <2> QED
    BY <2>1, <2>2, <1>1, TakeQueues
<1>4. CASE DispatchDone
  BY <1>4, <1>1 DEF DispatchDone, QueueTypes, QueuesOK
<1>5. CASE CloseEventUnlink
  <2>1. queue' = [p \in Levels |-> RemoveFirst(queue[p], Running.ev)] /\ pending' = pending
    BY <1>5 DEF CloseEventUnlink
  <2> QED
    BY <2>1, <1>1, UnlinkQueues
<1>6. CASE SignalEvent
  <2>1. UNCHANGED <<queue, pending>> \/ (Type[Running.ev] = "signal" /\ CoreNotifyEvent(Running.ev))
    BY <1>6 DEF SignalEvent, queues
  <2>2. "signal" # "plain"
    OBVIOUS
  <2> QED
    BY <2>1, <2>2, <1>1, <1>2, NotifyQueues, SameQueues
<1>7. CASE SignalListNext
  <2> DEFINE e == signalQueue[Running.x]
  <2>1. UNCHANGED <<queue, pending>> \/ CoreNotifyEvent(e)
    BY <1>7 DEF SignalListNext
  <2>2. Running.x \in 1 .. Len(signalQueue)
    <3>1. Running.pc = "SignalList.next" /\ Running.x <= Len(signalQueue)
      BY <1>7 DEF SignalListNext, At
    <3>2. Running.x >= 1
      BY <3>1, <1>1 DEF Fits, AboutEvent
    <3> QED
      BY <3>1, <3>2, <1>1, <1>2 DEF ListTypes
  <2>3. e \in AllEvents /\ e \in ToSet(signalQueue)
    BY <2>2, <1>1 DEF ListTypes, ToSet
  <2>4. Type[e] # "plain"
    BY <2>3, <1>1 DEF ListTypes
  <2> HIDE DEF e
  <2> QED
    BY <2>1, <2>3, <2>4, <1>1, NotifyQueues, SameQueues
<1>8. CASE CheckEvent
  <2>1. UNCHANGED <<queue, pending>> \/ (Type[Running.ev] = "wait" /\ CoreNotifyEvent(Running.ev))
    BY <1>8 DEF CheckEvent
  <2>2. "wait" # "plain"
    OBVIOUS
  <2> QED
    BY <2>1, <2>2, <1>1, <1>2, NotifyQueues, SameQueues
<1>9. CASE CoreTimerTick
  <2>1. UNCHANGED <<queue, pending>> \/ CoreNotifyEvent(CheckTimerEvent)
    BY <1>9 DEF CoreTimerTick
  <2>2. CheckTimerEvent \in AllEvents /\ Type[CheckTimerEvent] # "plain"
    BY TplsOfEvents
  <2> QED
    BY <2>1, <2>2, <1>1, NotifyQueues, SameQueues
<1>10. CASE \/ RestoreTplTest \/ RestoreTplRead \/ RestoreTplDispatch \/ RestoreTplSet
            \/ DispatchNotify \/ CreateEvent
            \/ SignalListLock \/ SignalListUnlock \/ SignalEventEnd
            \/ CheckEventTake \/ WaitForEvent
  <2>1. UNCHANGED <<queue, pending>>
    BY <1>10 DEF queues, RestoreTplTest, RestoreTplRead, RestoreTplDispatch,
       RestoreTplSet, DispatchNotify, CreateEvent, SignalListLock, SignalListUnlock,
       SignalEventEnd, CheckEventTake, WaitForEvent
  <2> QED
    BY <2>1, <1>1, SameQueues
<1>11. CASE \/ SetTimer \/ SetTimerRemove \/ SetTimerTime \/ SetTimerInsert
            \/ SetTimerRelease \/ CheckTimers \/ CheckTimersTime \/ CheckTimersScan
            \/ CheckTimersAgain \/ CheckTimersInsert \/ CheckTimersRelease
  <2>1. UNCHANGED <<queue, pending>>
    BY <1>11 DEF queues, SetTimer, SetTimerRemove, SetTimerTime,
       SetTimerInsert, SetTimerRelease, CheckTimers, CheckTimersTime, CheckTimersScan,
       CheckTimersAgain, CheckTimersInsert, CheckTimersRelease
  <2> QED
    BY <2>1, <1>1, SameQueues
<1>12. CASE \/ CloseEvent \/ CloseEventFree \/ RaiseTpl \/ RestoreTpl \/ NotifyReturns
            \/ Iret \/ CodeCalls
  <2>1. UNCHANGED <<queue, pending>>
    BY <1>12 DEF queues, CloseEvent, CloseEventFree, RaiseTpl, RestoreTpl,
       NotifyReturns, Iret, CodeCalls
  <2> QED
    BY <2>1, <1>1, SameQueues
<1> QED
  BY <1>3, <1>4, <1>5, <1>6, <1>7, <1>8, <1>9, <1>10, <1>11, <1>12 DEF Next, CoreStep

\* Every step keeps the activations nested.
LEMMA StackStep ==
  ASSUME EventInv, Next
  PROVE  StackOK'
<1>1. /\ StackOK /\ QueuesOK /\ pending \subseteq Levels /\ timerList \in Seq(Timers)
      /\ time \in Nat /\ (At("SignalList.next") => ~ints)
  BY DEF EventInv, QueueTypes, ListTypes, DataTypes, Control
<1>2. CASE RestoreTplTest \/ RestoreTplRead \/ RestoreTplSet
  BY <1>1, <1>2, RestoreTplStack
<1>3. CASE RestoreTplDispatch
  BY <1>1, <1>3, RestoreTplDispatchStack
<1>4. CASE DispatchTake \/ DispatchDone \/ DispatchNotify
  BY <1>1, <1>4, DispatchStack
<1>5. CASE CreateEvent
  BY <1>1, <1>5, CreateEventStack
<1>6. CASE \/ SignalEvent \/ SignalListLock \/ SignalListNext \/ SignalListUnlock
           \/ SignalEventEnd
  BY <1>1, <1>6, SignalStack
<1>7. CASE CheckEvent \/ CheckEventTake \/ WaitForEvent
  BY <1>1, <1>7, CheckEventStack
<1>8. CASE SetTimer \/ SetTimerRemove \/ SetTimerTime \/ SetTimerInsert \/ SetTimerRelease
  BY <1>1, <1>8, SetTimerStack
<1>9. CASE \/ CheckTimers \/ CheckTimersTime \/ CheckTimersScan \/ CheckTimersAgain
           \/ CheckTimersInsert \/ CheckTimersRelease
  BY <1>1, <1>9, CheckTimersStack
<1>10. CASE \/ CloseEvent \/ CloseEventUnlink \/ CloseEventFree \/ NotifyReturns
            \/ RaiseTpl \/ RestoreTpl \/ Iret
  BY <1>1, <1>10, CloseEventStack
<1>11. CASE CodeCalls
  BY <1>1, <1>11, CodeCallsStack
<1>12. CASE CoreTimerTick
  BY <1>1, <1>12, TimerTickStack
<1> QED
  BY <1>2, <1>3, <1>4, <1>5, <1>6, <1>7, <1>8, <1>9, <1>10, <1>11, <1>12 DEF Next, CoreStep

----------------------------------------------------------------------------
(* The activations of a stack, as a set.                                   *)

LEMMA RangeOnTop ==
  ASSUME NEW S, NEW s \in Seq(S), NEW a
  PROVE  ToSet(<<a>> \o s) = {a} \cup ToSet(s)
<1> DEFINE T == S \cup {a}
           t == <<a>> \o s
<1>1. s \in Seq(T) /\ a \in T
  OBVIOUS
<1> HIDE DEF T
<1>2. /\ t \in Seq(T) /\ Len(t) = Len(s) + 1 /\ t[1] = a /\ Len(s) \in Nat
      /\ \A i \in 2 .. Len(s) + 1 : t[i] = s[i - 1]
  BY <1>1, OnTop
<1>3. DOMAIN s = 1 .. Len(s) /\ DOMAIN t = 1 .. Len(s) + 1
  BY <1>1, <1>2
<1> HIDE DEF t
<1>4. ASSUME NEW x \in ToSet(t) PROVE x \in {a} \cup ToSet(s)
  <2>1. PICK i \in 1 .. Len(s) + 1 : x = t[i]
    BY <1>3, <1>4 DEF ToSet
  <2>2. CASE i = 1
    BY <2>1, <2>2, <1>2
  <2>3. CASE i # 1
    <3>1. i \in 2 .. Len(s) + 1 /\ i - 1 \in 1 .. Len(s)
      BY <2>3, <1>2
    <3> QED
      BY <3>1, <2>1, <1>2, <1>3 DEF ToSet
  <2> QED
    BY <2>2, <2>3
<1>5. a \in ToSet(t)
  <2>1. 1 \in DOMAIN t
    BY <1>2, <1>3
  <2> QED
    BY <2>1, <1>2 DEF ToSet
<1>6. ASSUME NEW x \in ToSet(s) PROVE x \in ToSet(t)
  <2>1. PICK i \in 1 .. Len(s) : x = s[i]
    BY <1>3, <1>6 DEF ToSet
  <2>2. i + 1 \in 2 .. Len(s) + 1 /\ i + 1 \in 1 .. Len(s) + 1 /\ (i + 1) - 1 = i
    BY <1>2
  <2>3. t[i + 1] = s[i]
    BY <2>2, <1>2
  <2> QED
    BY <2>1, <2>2, <2>3, <1>3 DEF ToSet
<1>7. ToSet(t) = {a} \cup ToSet(s)
  BY <1>4, <1>5, <1>6
<1> QED
  BY <1>7 DEF t

\* The running activation, and those that go on after it.
LEMMA Frames ==
  ASSUME StackOK
  PROVE  /\ ToSet(stack) = {Running} \cup ToSet(Callers)
         /\ \A a : ToSet(<<a>> \o Callers) = {a} \cup ToSet(Callers)
         /\ \A a, b : ToSet(<<b, a>> \o Callers) = {a, b} \cup ToSet(Callers)
         /\ \A a, b, c : ToSet(<<c, b, a>> \o Callers) = {a, b, c} \cup ToSet(Callers)
<1>1. Callers \in Seq(Activation) /\ stack \in Seq(Activation) /\ stack # <<>>
  BY RunningFits
<1>2. stack = <<Running>> \o Callers
  BY <1>1 DEF Running, Callers
<1>3. \A a : ToSet(<<a>> \o Callers) = {a} \cup ToSet(Callers)
  BY <1>1, RangeOnTop
<1>4. ASSUME NEW a, NEW b PROVE ToSet(<<b, a>> \o Callers) = {a, b} \cup ToSet(Callers)
  <2> DEFINE T == Activation \cup {a, b}
  <2>1. Callers \in Seq(T) /\ a \in T /\ b \in T
    BY <1>1
  <2> HIDE DEF T
  <2>2. <<b, a>> \o Callers = <<b>> \o (<<a>> \o Callers) /\ <<a>> \o Callers \in Seq(T)
    BY <2>1, TwoOnTop, OnTop
  <2>3. ToSet(<<b>> \o (<<a>> \o Callers)) = {b} \cup ToSet(<<a>> \o Callers)
    BY <2>2, RangeOnTop
  <2> QED
    BY <2>2, <2>3, <1>3
<1>5. ASSUME NEW a, NEW b, NEW c PROVE ToSet(<<c, b, a>> \o Callers) = {a, b, c} \cup ToSet(Callers)
  <2> DEFINE T == Activation \cup {a, b, c}
             u == <<a>> \o Callers
             t == <<b>> \o u
  <2>1. Callers \in Seq(T) /\ a \in T /\ b \in T /\ c \in T
    BY <1>1
  <2> HIDE DEF T
  <2>2. <<c, b, a>> \o Callers = <<c>> \o t
    BY <2>1, ThreeOnTop
  <2>3. u \in Seq(T) /\ ToSet(u) = {a} \cup ToSet(Callers)
    BY <2>1, <1>3, OnTop
  <2> HIDE DEF u
  <2>4. t \in Seq(T) /\ ToSet(t) = {b} \cup ToSet(u)
    BY <2>1, <2>3, RangeOnTop, OnTop
  <2> HIDE DEF t
  <2>5. ToSet(<<c>> \o t) = {c} \cup ToSet(t)
    BY <2>4, RangeOnTop
  <2> QED
    BY <2>2, <2>3, <2>4, <2>5
<1> QED
  BY <1>2, <1>3, <1>4, <1>5

\* What the running activation, which is not one of the core's helpers, is
\* above: nothing that holds mEfiTimerLock.
LEMMA NoHolderBelow ==
  ASSUME StackOK, Running.pc \notin Helping, Running.pc = "Dispatch" => Running.tpl # MinusOne
  PROVE  \A b \in ToSet(Callers) : b.pc \notin Holding
<1>1. PICK lv \in Seq(Nat) : Nested(stack, lv) /\ lv[1] = tpl
  BY DEF StackOK
<1>2. /\ Callers \in Seq(Activation) /\ Len(stack) \in Nat \ {0} /\ Len(Callers) = Len(stack) - 1
      /\ \A i \in 1 .. Len(stack) - 1 : Callers[i] = stack[i + 1]
  BY RunningFits
<1>3. ASSUME NEW b \in ToSet(Callers) PROVE b.pc \notin Holding
  <2>1. PICK i \in 1 .. Len(stack) - 1 : b = stack[i + 1]
    <3>1. DOMAIN Callers = 1 .. Len(stack) - 1
      BY <1>2
    <3>2. PICK i \in 1 .. Len(stack) - 1 : b = Callers[i]
      BY <3>1, <1>3 DEF ToSet
    <3> QED
      BY <3>2, <1>2
  <2>2. 1 \in 1 .. Len(stack) /\ i + 1 \in 1 .. Len(stack) /\ 1 < i + 1
    BY <1>2
  <2>3. Above(stack[1], lv[1], stack[i + 1], lv[i + 1])
    BY <2>2, <1>1 DEF Nested
  <2> QED
    BY <2>1, <2>3 DEF Above, Running
<1> QED
  BY <1>3

\* No two activations create the same event.
LEMMA OneCreator ==
  ASSUME StackOK, Running.pc = "CreateEvent"
  PROVE  \A b \in ToSet(Callers) : b.pc = "CreateEvent" => b.ev # Running.ev
<1>1. PICK lv \in Seq(Nat) : Nested(stack, lv) /\ lv[1] = tpl
  BY DEF StackOK
<1>2. /\ Callers \in Seq(Activation) /\ Len(stack) \in Nat \ {0} /\ Len(Callers) = Len(stack) - 1
      /\ \A i \in 1 .. Len(stack) - 1 : Callers[i] = stack[i + 1]
  BY RunningFits
<1>3. ASSUME NEW b \in ToSet(Callers), b.pc = "CreateEvent" PROVE b.ev # Running.ev
  <2>1. PICK i \in 1 .. Len(stack) - 1 : b = stack[i + 1]
    <3>1. DOMAIN Callers = 1 .. Len(stack) - 1
      BY <1>2
    <3>2. PICK i \in 1 .. Len(stack) - 1 : b = Callers[i]
      BY <3>1, <1>3 DEF ToSet
    <3> QED
      BY <3>2, <1>2
  <2>2. 1 \in 1 .. Len(stack) /\ i + 1 \in 1 .. Len(stack) /\ 1 < i + 1
    BY <1>2
  <2>3. Above(stack[1], lv[1], stack[i + 1], lv[i + 1])
    BY <2>2, <1>1 DEF Nested
  <2> QED
    BY <2>1, <2>3, <1>3 DEF Above, Running
<1> QED
  BY <1>3

----------------------------------------------------------------------------
(* Steps that leave the lists, the events and mEfiTimerLock alone.         *)

\* The running activation goes on as a.
GoesOn(a) ==
  /\ Relies(a)
  /\ Running.pc \in Holding => a.pc \in Holding
  /\ a.pc = "SignalList.next" => ~ints'

\* What relies on nothing.
Special == Arming \cup Closing \cup {"CreateEvent", "SignalList.next", "Asleep"}
LEMMA RelyOnNothing ==
  ASSUME NEW a, a.pc \notin Special
  PROVE  /\ Relies(a) /\ Resumes(a)
         /\ Running.pc \notin Holding \/ a.pc \in Holding => GoesOn(a)
<1>1. /\ a.pc \notin Arming /\ a.pc \notin Closing /\ a.pc # "CreateEvent" /\ a.pc # "SignalList.next"
      /\ a.pc # "Asleep"
  BY DEF Special
<1>2. a.pc # "CloseEvent.free"
  BY <1>1 DEF Closing
<1>3. Relies(a)
  BY <1>1, <1>2 DEF Relies
<1> QED
  BY <1>1, <1>3 DEF GoesOn, Resumes

\* Nothing below the running activation walks the list of events.
LEMMA UnderResumes ==
  ASSUME StackOK, Running.pc # "Boot"
  PROVE  Callers # <<>> /\ Resumes(Callers[1])
<1>1. PICK lv \in Seq(Nat) : Nested(stack, lv) /\ lv[1] = tpl
  BY DEF StackOK
<1>2. stack # <<>> /\ stack \in Seq(Activation) /\ stack[Len(stack)].pc = "Boot"
  BY RunningFits DEF StackOK
<1>3. Callers # <<>>
  BY <1>2, BottomUnderTop DEF Running, Callers
<1>4. /\ Callers \in Seq(Activation) /\ Len(stack) \in Nat \ {0} /\ Len(Callers) = Len(stack) - 1
      /\ \A i \in 1 .. Len(stack) - 1 : Callers[i] = stack[i + 1]
  BY RunningFits
<1>5. Len(Callers) # 0
  BY <1>3, <1>4
<1>6. 1 \in 1 .. Len(stack) - 1 /\ 1 \in 1 .. Len(stack) /\ 1 + 1 \in 1 .. Len(stack) /\ 1 < 1 + 1
  BY <1>4, <1>5
<1>7. Resumes(stack[1 + 1])
  BY <1>6, <1>1 DEF Nested
<1> QED
  BY <1>3, <1>4, <1>6, <1>7

\* The running activation returns, goes on, calls or is interrupted.
Moves ==
  \/ stack' = Callers /\ Running.pc \notin Holding \cup {"Boot"}
  \/ \E a : stack' = <<a>> \o Callers /\ GoesOn(a)
  \/ \E f, a : /\ stack' = <<f, a>> \o Callers /\ f.pc \notin Special
               /\ Relies(a) /\ (Running.pc \in Holding => a.pc \in Holding)
  \/ \E f, a : /\ stack' = <<f, a>> \o Callers /\ Resumes(f) /\ Relies(f)
               /\ Relies(a) /\ (Running.pc \in Holding => a.pc \in Holding)

LEMMA Quiet ==
  ASSUME EventInv, UNCHANGED <<timerList, life, signalQueue, timerLock>>, Moves
  PROVE  ListTypes' /\ AllRely' /\ Control'
<1>1. StackOK /\ ListTypes /\ AllRely /\ Control
  BY DEF EventInv
<1>2. /\ ToSet(stack) = {Running} \cup ToSet(Callers)
      /\ \A a : ToSet(<<a>> \o Callers) = {a} \cup ToSet(Callers)
      /\ \A a, b : ToSet(<<b, a>> \o Callers) = {a, b} \cup ToSet(Callers)
  BY <1>1, Frames
<1>3. Callers \in Seq(Activation)
  BY <1>1, RunningFits
<1>4. ListTypes'
  BY <1>1 DEF ListTypes
<1>5. \A a \in ToSet(Callers) : Relies(a)
  BY <1>1, <1>2 DEF AllRely
<1>6. timerLock => Running.pc \in Holding \/ \E a \in ToSet(Callers) : a.pc \in Holding
  BY <1>1, <1>2 DEF Control
<1>7. CASE stack' = Callers /\ Running.pc \notin Holding \cup {"Boot"}
  <2>1. AllRely'
    BY <1>5, <1>7 DEF AllRely, Relies
  <2>2. timerLock' => \E a \in ToSet(stack') : a.pc \in Holding
    BY <1>6, <1>7
  <2>3. Resumes(stack'[1])
    BY <1>1, <1>7, UnderResumes
  <2> QED
    BY <1>4, <2>1, <2>2, <2>3 DEF Control, At, Running, Resumes
<1>8. CASE \E a : stack' = <<a>> \o Callers /\ GoesOn(a)
  <2>1. PICK a : stack' = <<a>> \o Callers /\ GoesOn(a)
    BY <1>8
  <2>2. ToSet(stack') = {a} \cup ToSet(Callers)
    BY <1>2, <2>1
  <2>3. AllRely'
    BY <1>5, <2>1, <2>2 DEF AllRely, Relies, GoesOn
  <2>4. timerLock' => \E b \in ToSet(stack') : b.pc \in Holding
    BY <1>6, <2>1, <2>2 DEF GoesOn
  <2>5. stack'[1] = a
    BY <1>3, <2>1
  <2> QED
    BY <1>4, <2>1, <2>3, <2>4, <2>5 DEF Control, At, Running, GoesOn
<1>9. CASE \E f, a : /\ stack' = <<f, a>> \o Callers /\ Resumes(f) /\ Relies(f)
                     /\ Relies(a) /\ (Running.pc \in Holding => a.pc \in Holding)
  <2>1. PICK f, a : /\ stack' = <<f, a>> \o Callers /\ Resumes(f) /\ Relies(f)
                    /\ Relies(a) /\ (Running.pc \in Holding => a.pc \in Holding)
    BY <1>9
  <2>2. ToSet(stack') = {a, f} \cup ToSet(Callers)
    BY <1>2, <2>1
  <2>3. AllRely'
    BY <1>5, <2>1, <2>2 DEF AllRely, Relies
  <2>4. timerLock' => \E b \in ToSet(stack') : b.pc \in Holding
    BY <1>6, <2>1, <2>2
  <2>5. stack'[1] = f
    BY <1>3, <2>1
  <2> QED
    BY <1>4, <2>1, <2>3, <2>4, <2>5 DEF Control, At, Running, Resumes
<1> QED
  BY <1>7, <1>8, <1>9, RelyOnNothing DEF Moves

\* Where the activation goes on after a lock of TPL_HIGH_LEVEL is released.
LEMMA LockedMoves ==
  /\ \A a : LockedThen(a) /\ Relies(a) /\ (Running.pc \in Holding => a.pc \in Holding) => Moves
  /\ LockedReturn /\ Running.pc \notin Holding => Moves
<1>1. \A l : RestoreTplTo(l).pc = "RestoreTpl"
  BY DEF RestoreTplTo, Act
<1>2. \A l : RestoreTplTo(l).pc \notin Special
  BY <1>1 DEF Special, Arming, Closing
<1>3. ASSUME NEW a, LockedThen(a), Relies(a), Running.pc \in Holding => a.pc \in Holding PROVE Moves
  <2>1. stack' = <<RestoreTplTo(tpl), a>> \o Callers
    BY <1>3 DEF LockedThen
  <2> QED
    BY <2>1, <1>2, <1>3 DEF Moves
<1>4. ASSUME LockedReturn, Running.pc \notin Holding PROVE Moves
  <2>1. stack' = <<RestoreTplTo(tpl)>> \o Callers
    BY <1>4 DEF LockedReturn
  <2>2. GoesOn(RestoreTplTo(tpl))
    BY <1>2, <1>4, RelyOnNothing
  <2> QED
    BY <2>1, <2>2 DEF Moves
<1> QED
  BY <1>3, <1>4

\* A step of the running activation to another place.
LEMMA PlainMoves ==
  ASSUME NEW a, a.pc \notin Special, Running.pc \notin Holding \/ a.pc \in Holding
  PROVE  /\ stack' = <<a>> \o Callers => Moves
         /\ LockedThen(a) => Moves
         /\ \A f : stack' = <<f, a>> \o Callers /\ f.pc \notin Special => Moves
<1>1. GoesOn(a) /\ Relies(a)
  BY RelyOnNothing
<1>2. stack' = <<a>> \o Callers => Moves
  BY <1>1 DEF Moves
<1>3. LockedThen(a) => Moves
  BY <1>1, LockedMoves DEF GoesOn
<1>4. ASSUME NEW f, stack' = <<f, a>> \o Callers, f.pc \notin Special PROVE Moves
  BY <1>1, <1>4 DEF Moves, GoesOn
<1> QED
  BY <1>2, <1>3, <1>4

Still == UNCHANGED <<timerList, life, signalQueue, timerLock>>

LEMMA RestoreTplMoves ==
  ASSUME EventInv, RestoreTplTest \/ RestoreTplRead \/ RestoreTplDispatch \/ RestoreTplSet
  PROVE  Still /\ Moves
<1>1. Running \in Activation
  BY RunningFits DEF EventInv
<1>2. Still
  BY DEF Still, RestoreTplTest, RestoreTplRead, RestoreTplDispatch, RestoreTplSet, queues, clocks
<1>3. Running.pc \in Restoring
  BY DEF RestoreTplTest, RestoreTplRead, RestoreTplDispatch, RestoreTplSet, At, Restoring
<1>4. Running.pc \notin Holding /\ Running.pc # "Boot"
  BY <1>3 DEF Restoring, Holding, Setting, Checking
<1>5. \A pc \in Restoring \cup {"Dispatch"} : pc \notin Special
  BY DEF Restoring, Special, Arming, Closing
<1>6. CASE RestoreTplTest \/ RestoreTplRead
  <2>1. PICK pc \in Restoring, x \in Nat \cup {Running.x, HighBitSet64(pending)} :
          stack' = <<[Running EXCEPT !.pc = pc, !.x = x]>> \o Callers
    <3>1. CASE RestoreTplTest
      <4>1. PICK pc \in Restoring : stack' = <<[Running EXCEPT !.pc = pc]>> \o Callers
        BY <3>1 DEF RestoreTplTest, Goto, Continue, Restoring
      <4>2. [Running EXCEPT !.pc = pc] = [Running EXCEPT !.pc = pc, !.x = Running.x]
        BY <1>1 DEF Activation
      <4> QED
        BY <4>1, <4>2
    <3>2. CASE RestoreTplRead
      <4> DEFINE p == HighBitSet64(pending)
                 pc == IF p <= Running.tpl THEN "RestoreTpl.set" ELSE "RestoreTpl.dispatch"
      <4>1. stack' = <<[Running EXCEPT !.x = p, !.pc = pc]>> \o Callers
        BY <3>2 DEF RestoreTplRead, Continue
      <4>2. pc \in Restoring
        BY DEF Restoring
      <4> HIDE DEF p, pc
      <4>3. [Running EXCEPT !.x = p, !.pc = pc] = [Running EXCEPT !.pc = pc, !.x = p]
        BY <1>1 DEF Activation
      <4> QED
        BY <4>1, <4>2, <4>3 DEF p
    <3> QED
      BY <1>6, <3>1, <3>2
  <2> DEFINE a == [Running EXCEPT !.pc = pc, !.x = x]
  <2>2. a.pc = pc
    BY <1>1 DEF Activation
  <2> HIDE DEF a
  <2>3. a.pc \notin Special
    BY <2>2, <1>5
  <2> QED
    BY <1>2, <1>4, <2>1, <2>3, PlainMoves DEF a
<1>7. CASE RestoreTplDispatch
  <2> DEFINE f == Act("Dispatch", CheckTimerEvent, Running.x, "", 0)
             a == RestoreTplTo(Running.tpl)
  <2>1. stack' = <<f, a>> \o Callers
    BY <1>7 DEF RestoreTplDispatch, CallThen
  <2>2. f.pc = "Dispatch" /\ a.pc = "RestoreTpl"
    BY DEF RestoreTplTo, Act
  <2> HIDE DEF f, a
  <2>3. f.pc \notin Special /\ a.pc \notin Special
    BY <2>2, <1>5 DEF Restoring
  <2> QED
    BY <1>2, <1>4, <2>1, <2>3, PlainMoves
<1>8. CASE RestoreTplSet
  BY <1>2, <1>4, <1>8 DEF RestoreTplSet, ReturnNow, Moves
<1> QED
  BY <1>6, <1>7, <1>8

LEMMA DispatchMoves ==
  ASSUME EventInv, DispatchTake \/ DispatchDone \/ DispatchNotify
  PROVE  Still /\ Moves
<1>1. Running \in Activation
  BY RunningFits DEF EventInv
<1>2. Still
  BY DEF Still, DispatchTake, DispatchDone, DispatchNotify, queues, clocks
<1>3. Running.pc \in Dispatching
  BY DEF DispatchTake, DispatchDone, DispatchNotify, At, Dispatching
<1>4. Running.pc \notin Holding
  BY <1>3 DEF Dispatching, Holding, Setting, Checking
<1>5. \A pc \in Dispatching \cup {"CheckTimers", "Notify"} : pc \notin Special
  BY DEF Dispatching, Special, Arming, Closing
<1>6. CASE DispatchTake
  <2> DEFINE a == [Running EXCEPT !.pc = "Dispatch.notify", !.ev = Head(queue[Running.tpl])]
  <2>1. LockedThen(a)
    BY <1>6 DEF DispatchTake
  <2>2. a.pc = "Dispatch.notify"
    BY <1>1 DEF Activation
  <2> HIDE DEF a
  <2>3. a.pc \notin Special
    BY <2>2, <1>5 DEF Dispatching
  <2> QED
    BY <1>2, <1>4, <2>1, <2>3, PlainMoves
<1>7. CASE DispatchDone
  BY <1>2, <1>4, <1>7, LockedMoves DEF DispatchDone
<1>8. CASE DispatchNotify
  <2> DEFINE f == Act(IF Running.ev = CheckTimerEvent THEN "CheckTimers" ELSE "Notify",
                      Running.ev, 0, "", 0)
             a == [Running EXCEPT !.pc = "Dispatch"]
  <2>1. stack' = <<f, a>> \o Callers
    BY <1>8 DEF DispatchNotify, CallThen
  <2>2. f.pc \in {"CheckTimers", "Notify"} /\ a.pc = "Dispatch"
    BY <1>1 DEF Act, Activation
  <2> HIDE DEF f, a
  <2>3. f.pc \notin Special /\ a.pc \notin Special
    BY <2>2, <1>5 DEF Dispatching
  <2> QED
    BY <1>2, <1>4, <2>1, <2>3, PlainMoves
<1> QED
  BY <1>6, <1>7, <1>8

LEMMA SignalMoves ==
  ASSUME EventInv, \/ SignalEvent \/ SignalListLock \/ SignalListNext \/ SignalListUnlock
                   \/ SignalEventEnd
  PROVE  Still /\ Moves
<1>1. Running \in Activation /\ Control
  BY RunningFits DEF EventInv
<1>2. Still
  BY DEF Still, SignalEvent, SignalListLock, SignalListNext, SignalListUnlock, SignalEventEnd,
     queues, clocks
<1>3. Running.pc \in {"SignalEvent", "SignalList", "SignalList.next", "SignalEvent.end"}
  BY DEF SignalEvent, SignalListLock, SignalListNext, SignalListUnlock, SignalEventEnd, At
<1>4. Running.pc \notin Holding \cup {"Boot"}
  BY <1>3 DEF Holding, Setting, Checking
<1>5. \A pc \in {"SignalList", "SignalEvent.end", "RestoreTpl"} : pc \notin Special
  BY DEF Special, Arming, Closing
<1>6. ASSUME NEW a, a.pc = "SignalList.next" PROVE Relies(a)
  BY <1>6 DEF Relies, Arming, Closing
<1>7. CASE SignalEvent
  <2> DEFINE a == [Running EXCEPT !.pc = "SignalList"]
  <2>1. ReturnNow \/ LockedReturn \/ LockedThen(a)
    BY <1>7 DEF SignalEvent
  <2>2. a.pc = "SignalList"
    BY <1>1 DEF Activation
  <2> HIDE DEF a
  <2>3. a.pc \notin Special
    BY <2>2, <1>5
  <2> QED
    BY <1>2, <1>4, <2>1, <2>3, PlainMoves, LockedMoves DEF ReturnNow, Moves
<1>8. CASE SignalListLock
  <2> DEFINE a == [Running EXCEPT !.pc = "SignalList.next", !.tpl = tpl, !.x = 1]
  <2>1. stack' = <<a>> \o Callers /\ ints' = FALSE
    BY <1>8 DEF SignalListLock, Continue
  <2>2. a.pc = "SignalList.next"
    BY <1>1 DEF Activation
  <2> HIDE DEF a
  <2>3. GoesOn(a)
    BY <1>4, <1>6, <2>1, <2>2 DEF GoesOn
  <2> QED
    BY <1>2, <2>1, <2>3 DEF Moves
<1>9. CASE SignalListNext
  <2>1. PICK x : stack' = <<[Running EXCEPT !.x = x]>> \o Callers
    BY <1>9 DEF SignalListNext, Continue
  <2> DEFINE a == [Running EXCEPT !.x = x]
  <2>2. ~ints' /\ Running.pc = "SignalList.next"
    BY <1>1, <1>9 DEF SignalListNext, Control, cpu, At
  <2>3. a.pc = "SignalList.next"
    BY <1>1, <2>2 DEF Activation
  <2>4. stack' = <<a>> \o Callers
    BY <2>1
  <2> HIDE DEF a
  <2>5. GoesOn(a)
    BY <1>4, <1>6, <2>2, <2>3 DEF GoesOn
  <2> QED
    BY <1>2, <2>4, <2>5 DEF Moves
<1>10. CASE SignalListUnlock
  <2> DEFINE f == RestoreTplTo(Running.tpl)
             a == [Running EXCEPT !.pc = "SignalEvent.end"]
  <2>1. stack' = <<f, a>> \o Callers
    BY <1>10 DEF SignalListUnlock
  <2>2. f.pc = "RestoreTpl" /\ a.pc = "SignalEvent.end"
    BY <1>1 DEF RestoreTplTo, Act, Activation
  <2> HIDE DEF f, a
  <2>3. f.pc \notin Special /\ a.pc \notin Special
    BY <2>2, <1>5
  <2> QED
    BY <1>2, <1>4, <2>1, <2>3, PlainMoves
<1>11. CASE SignalEventEnd
  BY <1>2, <1>4, <1>11, LockedMoves DEF SignalEventEnd
<1> QED
  BY <1>7, <1>8, <1>9, <1>10, <1>11

LEMMA CheckEventMoves ==
  ASSUME EventInv, CheckEvent \/ CheckEventTake \/ WaitForEvent
  PROVE  Still /\ Moves
<1>1. Running \in Activation
  BY RunningFits DEF EventInv
<1>2. Still
  BY DEF Still, CheckEvent, CheckEventTake, WaitForEvent, queues, clocks
<1> DEFINE Waits == {"CheckEvent", "CheckEvent.take", "WaitForEvent"}
<1>3. Running.pc \in Waits
  BY DEF CheckEvent, CheckEventTake, WaitForEvent, At
<1>4. Running.pc \notin Holding \cup {"Boot"}
  BY <1>3 DEF Holding, Setting, Checking
<1>5. \A pc \in Waits : pc \notin Special
  BY DEF Special, Arming, Closing
<1>6. \/ ReturnNow \/ LockedReturn
      \/ \E pc \in Waits : LockedThen([Running EXCEPT !.pc = pc]) \/ Goto(pc)
      \/ Goto("Asleep")
  BY DEF CheckEvent, CheckEventTake, WaitForEvent
<1> HIDE DEF Waits
<1>7. ASSUME NEW pc \in Waits, LockedThen([Running EXCEPT !.pc = pc]) \/ Goto(pc) PROVE Moves
  <2> DEFINE a == [Running EXCEPT !.pc = pc]
  <2>1. LockedThen(a) \/ stack' = <<a>> \o Callers
    BY <1>7 DEF Goto, Continue
  <2>2. a.pc = pc
    BY <1>1 DEF Activation
  <2> HIDE DEF a
  <2>3. a.pc \notin Special
    BY <2>2, <1>5
  <2> QED
    BY <1>4, <2>1, <2>3, PlainMoves
<1>8. ASSUME Goto("Asleep") PROVE Moves
  <2> DEFINE a == [Running EXCEPT !.pc = "Asleep"]
  <2>1. stack' = <<a>> \o Callers
    BY <1>8 DEF Goto, Continue
  <2>2. a.pc = "Asleep"
    BY <1>1 DEF Activation
  <2> HIDE DEF a
  <2>3. GoesOn(a)
    BY <1>4, <2>2 DEF GoesOn, Relies, Arming, Closing
  <2> QED
    BY <2>1, <2>3 DEF Moves
<1> QED
  BY <1>2, <1>4, <1>6, <1>7, <1>8, LockedMoves DEF ReturnNow, Moves

LEMMA TimerMoves ==
  ASSUME EventInv, SetTimerTime \/ CheckTimersTime \/ CheckTimersAgain
  PROVE  Still /\ Moves
<1>1. Running \in Activation /\ Relies(Running)
  <2>1. StackOK /\ AllRely
    BY DEF EventInv
  <2> QED
    BY <2>1, RunningFits, Frames DEF AllRely
<1>2. Still
  BY DEF Still, SetTimerTime, CheckTimersTime, CheckTimersAgain, queues, clocks
<1>3. ASSUME NEW a, a.pc \in {"SetTimer.insert", "CheckTimers.insert"}, Running.pc \in Arming,
             a.ev = Running.ev
      PROVE  Relies(a) /\ a.pc \in Holding /\ Resumes(a)
  BY <1>1, <1>3 DEF Relies, Arming, Closing, Holding, Setting, Checking, Resumes
<1>4. "CheckTimers.scan" \notin Special /\ "CheckTimers.scan" \in Holding /\ "SignalEvent" \notin Special
  BY DEF Special, Arming, Closing, Holding, Checking
<1>5. CASE SetTimerTime
  <2> DEFINE a == [Running EXCEPT !.pc = "SetTimer.insert"]
  <2>1. LockedThen(a) /\ Running.pc \in Arming
    BY <1>5 DEF SetTimerTime, At, Arming
  <2>2. a.pc = "SetTimer.insert" /\ a.ev = Running.ev
    BY <1>1 DEF Activation
  <2> HIDE DEF a
  <2> QED
    BY <1>2, <1>3, <2>1, <2>2, LockedMoves
<1>6. CASE CheckTimersTime
  <2> DEFINE a == [Running EXCEPT !.pc = "CheckTimers.scan", !.x = time]
  <2>1. LockedThen(a)
    BY <1>6 DEF CheckTimersTime
  <2>2. a.pc = "CheckTimers.scan"
    BY <1>1 DEF Activation
  <2> HIDE DEF a
  <2> QED
    BY <1>2, <1>4, <2>1, <2>2, PlainMoves
<1>7. CASE CheckTimersAgain
  <2> DEFINE a == [Running EXCEPT !.pc = "CheckTimers.insert"]
             b == [Running EXCEPT !.pc = "CheckTimers.scan"]
             f == Service("SignalEvent", CheckTimerEvent)
  <2>1. /\ Running.pc = "CheckTimers.again"
        /\ \/ stack' = <<b>> \o Callers
           \/ stack' = <<a>> \o Callers
           \/ stack' = <<f, a>> \o Callers
    BY <1>7 DEF CheckTimersAgain, At, Goto, Continue, CallThen
  <2>2. a.pc = "CheckTimers.insert" /\ a.ev = Running.ev
    BY <1>1 DEF Activation
  <2>3. b.pc = "CheckTimers.scan"
    BY <1>1 DEF Activation
  <2>4. f.pc = "SignalEvent"
    BY DEF Service, Act
  <2> HIDE DEF a, b, f
  <2>5. Running.pc \in Arming
    BY <2>1 DEF Arming
  <2>6. Relies(a) /\ GoesOn(a) /\ a.pc \in Holding
    BY <1>3, <2>2, <2>5 DEF GoesOn, Resumes
  <2>7. stack' = <<b>> \o Callers => Moves
    BY <1>4, <2>3, PlainMoves
  <2>8. stack' = <<a>> \o Callers => Moves
    BY <2>6 DEF Moves
  <2>9. stack' = <<f, a>> \o Callers => Moves
    BY <1>4, <2>4, <2>6 DEF Moves
  <2> QED
    BY <1>2, <2>1, <2>7, <2>8, <2>9
<1> QED
  BY <1>5, <1>6, <1>7

LEMMA OtherMoves ==
  ASSUME EventInv, CloseEvent \/ NotifyReturns \/ RaiseTpl \/ RestoreTpl \/ Iret
  PROVE  Still /\ Moves
<1>1. Running \in Activation
  BY RunningFits DEF EventInv
<1>2. Still
  BY DEF Still, CloseEvent, NotifyReturns, RaiseTpl, RestoreTpl, Iret, queues, clocks
<1>3. Running.pc \in {"CloseEvent", "Notify", "RaiseTpl", "Raised", "Iret"}
  BY DEF CloseEvent, NotifyReturns, RaiseTpl, RestoreTpl, Iret, At
<1>4. Running.pc \notin Holding \cup {"Boot"}
  BY <1>3 DEF Holding, Setting, Checking
<1>5. \A pc \in {"RestoreTpl", "Raised", "SetTimer"} : pc \notin Special
  BY DEF Special, Arming, Closing
<1>6. CASE CloseEvent
  <2> DEFINE f == SetTimerCall(Running.ev, "cancel", 0)
             a == [Running EXCEPT !.pc = "CloseEvent.unlink"]
  <2>1. \/ stack' = Callers
        \/ life[Running.ev] = "open" /\ (stack' = <<f, a>> \o Callers \/ stack' = <<a>> \o Callers)
    BY <1>6 DEF CloseEvent, ReturnNow, CallThen, Continue
  <2>2. a.pc = "CloseEvent.unlink" /\ a.ev = Running.ev
    BY <1>1 DEF Activation
  <2>3. f.pc = "SetTimer"
    BY DEF SetTimerCall, Act
  <2> HIDE DEF a, f
  <2>4. ASSUME life[Running.ev] = "open" PROVE Relies(a) /\ GoesOn(a)
    <3>1. a.pc \notin Arming /\ life[a.ev] # "new"
      BY <2>2, <2>4 DEF Arming
    <3> QED
      BY <1>4, <2>2, <3>1 DEF Relies, GoesOn
  <2> QED
    BY <1>2, <1>4, <1>5, <2>1, <2>3, <2>4 DEF Moves
<1>7. CASE NotifyReturns \/ Iret
  BY <1>2, <1>4, <1>7 DEF NotifyReturns, Iret, ReturnNow, Moves
<1>8. CASE RaiseTpl
  <2> DEFINE a == Act("Raised", CheckTimerEvent, tpl, "", 0)
  <2>1. a.pc = "Raised"
    BY DEF Act
  <2>2. stack' = <<a>> \o Callers
    BY <1>8 DEF RaiseTpl, Continue
  <2> HIDE DEF a
  <2> QED
    BY <1>2, <1>4, <1>5, <2>1, <2>2, PlainMoves
<1>9. CASE RestoreTpl
  <2> DEFINE a == RestoreTplTo(Running.tpl)
  <2>1. a.pc = "RestoreTpl"
    BY DEF RestoreTplTo, Act
  <2>2. stack' = <<a>> \o Callers
    BY <1>9 DEF RestoreTpl, Continue
  <2> HIDE DEF a
  <2> QED
    BY <1>2, <1>4, <1>5, <2>1, <2>2, PlainMoves
<1> QED
  BY <1>6, <1>7, <1>8, <1>9

LEMMA CodeMoves ==
  ASSUME EventInv, CodeCalls
  PROVE  Still /\ Moves
<1> DEFINE a == IF At("Boot") THEN Running ELSE [Running EXCEPT !.x = 1]
<1>1. Running \in Activation /\ StackOK
  BY RunningFits DEF EventInv
<1>2. Still
  BY DEF Still, CodeCalls, queues, clocks
<1>3. Running.pc \in {"Boot", "Notify", "Raised"}
  BY DEF CodeCalls
<1>4. PICK c \in CallsOf(Running) : MayCall(c) /\ stack' = <<c, a>> \o Callers
  BY DEF CodeCalls, CallThen
<1>5. a.pc = Running.pc
  BY <1>1 DEF Activation
<1> HIDE DEF a
<1>6. c \in ServiceCalls
  BY <1>1, <1>3, CallsMade
<1>7. c.pc \in {"CreateEvent", "SignalEvent", "CloseEvent", "CheckEvent", "SetTimer", "RaiseTpl"}
  BY <1>6, CallFacts
<1>8. Resumes(c) /\ c.pc \notin Arming /\ c.pc \notin Closing /\ c.pc # "CloseEvent.free"
  BY <1>7 DEF Arming, Closing, Resumes
<1>9. Relies(c)
  BY <1>4, <1>8 DEF Relies, MayCall
<1>10. Running.pc \notin Holding /\ a.pc \notin Special
  BY <1>3, <1>5 DEF Holding, Setting, Checking, Special, Arming, Closing
<1>11. Relies(a)
  BY <1>10, RelyOnNothing
<1> QED
  BY <1>2, <1>4, <1>8, <1>9, <1>10, <1>11 DEF Moves

\* The timer interrupt: the interrupted activation stays as it is, or wakes up.
LEMMA TickLists ==
  ASSUME EventInv, CoreTimerTick
  PROVE  ListTypes' /\ AllRely' /\ Control'
<1> DEFINE a == IF At("Asleep") THEN [Running EXCEPT !.pc = "CheckEvent"] ELSE Running
           f == Service("Iret", CheckTimerEvent)
           g == RestoreTplTo(tpl)
<1>1. Running \in Activation /\ Callers \in Seq(Activation) /\ StackOK /\ ListTypes /\ AllRely /\ Control
  BY RunningFits DEF EventInv
<1>2. stack' = <<g, f, a>> \o Callers /\ UNCHANGED <<timerList, life, signalQueue, timerLock>>
  BY DEF CoreTimerTick
<1>3. g.pc = "RestoreTpl" /\ f.pc = "Iret"
  BY DEF RestoreTplTo, Service, Act
<1>4. a = Running \/ (Running.pc = "Asleep" /\ a.pc = "CheckEvent")
  BY <1>1 DEF At, Activation
<1> HIDE DEF a, f, g
<1>5. ToSet(stack') = {a, f, g} \cup ToSet(Callers) /\ ToSet(stack) = {Running} \cup ToSet(Callers)
  BY <1>1, <1>2, Frames
<1>6. g.pc \notin Special /\ f.pc \notin Special /\ "CheckEvent" \notin Special
  BY <1>3 DEF Special, Arming, Closing
<1>7. Relies(f) /\ Relies(g) /\ Relies(a)
  BY <1>1, <1>4, <1>5, <1>6, RelyOnNothing DEF AllRely
<1>8. \A b \in ToSet(stack') : Relies(b)
  BY <1>1, <1>5, <1>7 DEF AllRely
<1>9. AllRely'
  BY <1>2, <1>8 DEF AllRely, Relies
<1>10. ListTypes'
  BY <1>1, <1>2 DEF ListTypes
<1>11. timerLock' => \E b \in ToSet(stack') : b.pc \in Holding
  <2>1. Running.pc \in Holding => a = Running
    BY <1>4 DEF Holding, Setting, Checking
  <2> QED
    BY <1>1, <1>2, <1>5, <2>1 DEF Control
<1>12. stack'[1] = g
  BY <1>1, <1>2
<1> QED
  BY <1>3, <1>9, <1>10, <1>11, <1>12 DEF Control, At, Running, Resumes

----------------------------------------------------------------------------
(* Steps that acquire or release mEfiTimerLock.                            *)

LEMMA LockTaken ==
  ASSUME EventInv, UNCHANGED <<timerList, life, signalQueue>>, NEW a, stack' = <<a>> \o Callers,
         a.pc \notin Special, timerLock' = FALSE \/ a.pc \in Holding
  PROVE  ListTypes' /\ AllRely' /\ Control'
<1>1. StackOK /\ ListTypes /\ AllRely /\ Callers \in Seq(Activation)
  BY RunningFits DEF EventInv
<1>2. ToSet(stack') = {a} \cup ToSet(Callers) /\ ToSet(stack) = {Running} \cup ToSet(Callers)
  BY <1>1, Frames
<1>3. ListTypes'
  BY <1>1 DEF ListTypes
<1>4. Relies(a) /\ Resumes(a)
  BY RelyOnNothing
<1>5. \A b \in ToSet(stack') : Relies(b)
  BY <1>1, <1>2, <1>4 DEF AllRely
<1>6. AllRely'
  BY <1>5 DEF AllRely, Relies
<1>7. timerLock' => \E b \in ToSet(stack') : b.pc \in Holding
  BY <1>2
<1>8. stack'[1] = a
  BY <1>1
<1> QED
  BY <1>3, <1>4, <1>6, <1>7, <1>8 DEF Control, At, Running, Resumes

LEMMA TimerLockLists ==
  ASSUME EventInv, SetTimer \/ SetTimerRelease \/ CheckTimers \/ CheckTimersRelease
  PROVE  ListTypes' /\ AllRely' /\ Control'
<1>1. Running \in Activation
  BY RunningFits DEF EventInv
<1>2. UNCHANGED <<timerList, life, signalQueue>>
  BY DEF SetTimer, SetTimerRelease, CheckTimers, CheckTimersRelease, queues
<1>3. \A pc \in {"SetTimer.remove", "CheckTimers.time", "RestoreTpl"} : pc \notin Special
  BY DEF Special, Arming, Closing
<1>4. "SetTimer.remove" \in Holding /\ "CheckTimers.time" \in Holding
  BY DEF Holding, Setting, Checking
<1>5. CASE SetTimer
  <2> DEFINE a == [Running EXCEPT !.pc = "SetTimer.remove", !.tpl = tpl]
  <2>1. \/ stack' = Callers /\ timerLock' = timerLock
        \/ stack' = <<a>> \o Callers
    BY <1>5 DEF SetTimer, ReturnNow, Continue
  <2>2. a.pc = "SetTimer.remove"
    BY <1>1 DEF Activation
  <2> HIDE DEF a
  <2>3. CASE stack' = Callers /\ timerLock' = timerLock
    <3>1. Running.pc = "SetTimer"
      BY <1>5 DEF SetTimer, At
    <3>2. Moves
      BY <2>3, <3>1 DEF Moves, Holding, Setting, Checking
    <3> QED
      BY <1>2, <2>3, <3>2, Quiet
  <2>4. CASE stack' = <<a>> \o Callers
    BY <1>2, <1>3, <1>4, <2>2, <2>4, LockTaken
  <2> QED
    BY <2>1, <2>3, <2>4
<1>6. CASE CheckTimers
  <2> DEFINE a == [Running EXCEPT !.pc = "CheckTimers.time", !.tpl = tpl]
  <2>1. stack' = <<a>> \o Callers
    BY <1>6 DEF CheckTimers, Continue
  <2>2. a.pc = "CheckTimers.time"
    BY <1>1 DEF Activation
  <2> HIDE DEF a
  <2> QED
    BY <1>2, <1>3, <1>4, <2>1, <2>2, LockTaken
<1>7. CASE SetTimerRelease \/ CheckTimersRelease
  <2> DEFINE a == RestoreTplTo(Running.tpl)
  <2>1. stack' = <<a>> \o Callers /\ timerLock' = FALSE
    BY <1>7 DEF SetTimerRelease, CheckTimersRelease, ReleaseTimerLock, Continue
  <2>2. a.pc = "RestoreTpl"
    BY DEF RestoreTplTo, Act
  <2> HIDE DEF a
  <2> QED
    BY <1>2, <1>3, <2>1, <2>2, LockTaken
<1> QED
  BY <1>5, <1>6, <1>7

----------------------------------------------------------------------------
(* Steps that change the lists.                                            *)

\* CoreInsertEventTimer.
LEMMA InsertTimer ==
  ASSUME timerList \in Seq(Timers), IsInjective(timerList), NEW e \in Timers,
         e \notin ToSet(timerList)
  PROVE  /\ CoreInsertEventTimer(timerList, e) \in Seq(Timers)
         /\ IsInjective(CoreInsertEventTimer(timerList, e))
         /\ ToSet(CoreInsertEventTimer(timerList, e)) = ToSet(timerList) \cup {e}
<1> DEFINE later == {i \in DOMAIN timerList : trigger[timerList[i]] > trigger[e]}
           m == Min(later)
<1>1. DOMAIN timerList = 1 .. Len(timerList) /\ Len(timerList) \in Nat
  OBVIOUS
<1>2. CASE later = {}
  <2>1. CoreInsertEventTimer(timerList, e) = Append(timerList, e)
    BY <1>2 DEF CoreInsertEventTimer
  <2> QED
    BY <2>1, AppendedOnce
<1>3. CASE later # {}
  <2>1. CoreInsertEventTimer(timerList, e) = InsertAt(timerList, m, e)
    BY <1>3 DEF CoreInsertEventTimer
  <2>2. later \subseteq 1 .. Len(timerList) /\ later \subseteq Nat
    BY <1>1
  <2> HIDE DEF later
  <2>3. m \in 1 .. Len(timerList)
    BY <1>3, <2>2, MinOfSet
  <2> HIDE DEF m
  <2> QED
    BY <2>1, <2>3, InsertedOnce
<1> QED
  BY <1>2, <1>3

\* The running activation holds mEfiTimerLock and changes mEfiTimerList.
LEMMA TimerListChanged ==
  ASSUME EventInv, Running.pc \in Holding, UNCHANGED <<life, signalQueue, timerLock>>,
         timerList' \in Seq(Timers), IsInjective(timerList'), NEW a, a.pc \in Holding,
         a.pc \in Arming => a.ev \notin ToSet(timerList'),
         \/ stack' = <<a>> \o Callers
         \/ \E f : f.pc = "SignalEvent" /\ stack' = <<f, a>> \o Callers
  PROVE  ListTypes' /\ AllRely' /\ Control'
<1>1. StackOK /\ ListTypes /\ AllRely /\ Callers \in Seq(Activation)
  BY RunningFits DEF EventInv
<1>2. ListTypes'
  BY <1>1 DEF ListTypes
<1>3. Running.pc \notin Helping /\ Running.pc # "Dispatch"
  BY DEF Helping, Restoring, Holding, Setting, Checking
<1>4. \A b \in ToSet(Callers) : b.pc \notin Holding
  BY <1>1, <1>3, NoHolderBelow
<1>5. \A b \in ToSet(Callers) : b.pc \notin Arming
  BY <1>4 DEF Arming, Holding, Setting, Checking
<1>6. a.pc \notin Closing \cup {"CreateEvent", "CloseEvent.free", "SignalList.next", "Asleep"}
  BY DEF Closing, Holding, Setting, Checking
<1>7. Relies(a)'
  BY <1>6 DEF Relies
<1>8. ASSUME NEW b \in ToSet(Callers) PROVE Relies(b)'
  <2>1. Relies(b)
    BY <1>1, Frames DEF AllRely
  <2> QED
    BY <2>1, <1>5 DEF Relies
<1>9. \A f : f.pc = "SignalEvent" => Relies(f)' /\ Resumes(f)
  BY DEF Relies, Arming, Closing, Resumes
<1>10. CASE stack' = <<a>> \o Callers
  <2>1. ToSet(stack') = {a} \cup ToSet(Callers) /\ stack'[1] = a
    BY <1>1, <1>10, Frames
  <2>2. AllRely'
    BY <2>1, <1>7, <1>8 DEF AllRely
  <2> QED
    BY <1>2, <1>6, <2>1, <2>2 DEF Control, At, Running, Resumes
<1>11. CASE \E f : f.pc = "SignalEvent" /\ stack' = <<f, a>> \o Callers
  <2>1. PICK f : f.pc = "SignalEvent" /\ stack' = <<f, a>> \o Callers
    BY <1>11
  <2>2. ToSet(stack') = {a, f} \cup ToSet(Callers) /\ stack'[1] = f
    BY <1>1, <2>1, Frames
  <2>3. AllRely'
    BY <2>1, <2>2, <1>7, <1>8, <1>9 DEF AllRely
  <2> QED
    BY <1>2, <1>9, <2>1, <2>2, <2>3 DEF Control, At, Running, Resumes
<1> QED
  BY <1>10, <1>11

LEMMA TimerListSteps ==
  ASSUME EventInv, \/ SetTimerRemove \/ SetTimerInsert \/ CheckTimersScan \/ CheckTimersInsert
  PROVE  ListTypes' /\ AllRely' /\ Control'
<1>1. /\ Running \in Activation /\ Fits(Running, tpl) /\ Relies(Running)
      /\ timerList \in Seq(Timers) /\ IsInjective(timerList)
  BY RunningFits, Frames DEF EventInv, ListTypes, AllRely
<1>2. UNCHANGED <<life, signalQueue, timerLock>>
  BY DEF SetTimerRemove, SetTimerInsert, CheckTimersScan, CheckTimersInsert, queues
<1>3. Running.pc \in {"SetTimer.remove", "SetTimer.insert", "CheckTimers.scan", "CheckTimers.insert"}
  BY DEF SetTimerRemove, SetTimerInsert, CheckTimersScan, CheckTimersInsert, At
<1>4. Running.pc \in Holding
  BY <1>3 DEF Holding, Setting, Checking
<1>5. \A pc \in {"SetTimer.time", "SetTimer.release", "CheckTimers.scan", "CheckTimers.again",
                 "CheckTimers.release"} : pc \in Holding
  BY DEF Holding, Setting, Checking
<1>6. \A pc \in {"SetTimer.release", "CheckTimers.scan", "CheckTimers.release"} :
        pc \notin Arming /\ pc \notin Special
  BY DEF Arming, Special, Closing
<1>7. Running.pc \in {"SetTimer.insert", "CheckTimers.insert"} =>
        /\ Running.ev \in Timers /\ Running.ev \notin ToSet(timerList)
  <2>1. Running.pc \in {"SetTimer.insert", "CheckTimers.insert"} => Running.ev \in Timers
    BY <1>1 DEF Fits, AboutEvent, Setting
  <2>2. Running.pc \in {"SetTimer.insert", "CheckTimers.insert"} => Running.ev \notin ToSet(timerList)
    BY <1>1 DEF Relies, Arming
  <2> QED
    BY <2>1, <2>2
<1>8. CASE SetTimerRemove
  <2> DEFINE pc == IF Running.k = "cancel" THEN "SetTimer.release" ELSE "SetTimer.time"
             a  == [Running EXCEPT !.pc = pc]
             r  == RemoveFirst(timerList, Running.ev)
  <2>1. stack' = <<a>> \o Callers /\ timerList' = r
    BY <1>8 DEF SetTimerRemove, Goto, Continue
  <2>2. pc \in {"SetTimer.release", "SetTimer.time"}
    OBVIOUS
  <2> HIDE DEF pc
  <2>3. a.pc = pc /\ a.ev = Running.ev
    BY <1>1 DEF Activation
  <2>4. r \in Seq(Timers) /\ IsInjective(r) /\ ToSet(r) = ToSet(timerList) \ {Running.ev}
    BY <1>1, RemovedOnce
  <2> HIDE DEF a, r
  <2>5. a.pc \in Holding /\ a.ev \notin ToSet(timerList')
    BY <2>1, <2>2, <2>3, <2>4, <1>5
  <2> QED
    BY <1>2, <1>4, <2>1, <2>4, <2>5, TimerListChanged
<1>9. CASE SetTimerInsert
  <2> DEFINE a == [Running EXCEPT !.pc = "SetTimer.release"]
             f == Service("SignalEvent", CheckTimerEvent)
             r == CoreInsertEventTimer(timerList, Running.ev)
  <2>1. /\ Running.pc = "SetTimer.insert" /\ timerList' = r
        /\ stack' = <<a>> \o Callers \/ stack' = <<f, a>> \o Callers
    BY <1>9 DEF SetTimerInsert, At, CallThen, Continue
  <2>2. a.pc = "SetTimer.release"
    BY <1>1 DEF Activation
  <2>3. f.pc = "SignalEvent"
    BY DEF Service, Act
  <2>4. r \in Seq(Timers) /\ IsInjective(r)
    BY <1>1, <1>7, <2>1, InsertTimer
  <2> HIDE DEF a, f, r
  <2>5. a.pc \in Holding /\ a.pc \notin Arming
    BY <2>2, <1>5, <1>6
  <2> QED
    BY <1>2, <1>4, <2>1, <2>3, <2>4, <2>5, TimerListChanged
<1>10. CASE CheckTimersInsert
  <2> DEFINE a == [Running EXCEPT !.pc = "CheckTimers.scan"]
             r == CoreInsertEventTimer(timerList, Running.ev)
  <2>1. Running.pc = "CheckTimers.insert" /\ timerList' = r /\ stack' = <<a>> \o Callers
    BY <1>10 DEF CheckTimersInsert, At, Goto, Continue
  <2>2. a.pc = "CheckTimers.scan"
    BY <1>1 DEF Activation
  <2>3. r \in Seq(Timers) /\ IsInjective(r)
    BY <1>1, <1>7, <2>1, InsertTimer
  <2> HIDE DEF a, r
  <2>4. a.pc \in Holding /\ a.pc \notin Arming
    BY <2>2, <1>5, <1>6
  <2> QED
    BY <1>2, <1>4, <2>1, <2>3, <2>4, TimerListChanged
<1>11. CASE CheckTimersScan /\ HeadExpired(Running.x)
  <2> DEFINE a == [Running EXCEPT !.pc = "CheckTimers.again", !.ev = Head(timerList)]
             f == Service("SignalEvent", Head(timerList))
             r == Tail(timerList)
  <2>1. timerList # <<>> /\ timerList' = r /\ stack' = <<f, a>> \o Callers
    BY <1>11 DEF CheckTimersScan, HeadExpired, CallThen
  <2>2. a.pc = "CheckTimers.again" /\ a.ev = Head(timerList)
    BY <1>1 DEF Activation
  <2>3. f.pc = "SignalEvent"
    BY DEF Service, Act
  <2>4. r \in Seq(Timers) /\ IsInjective(r) /\ ToSet(r) = ToSet(timerList) \ {Head(timerList)}
    BY <1>1, <2>1, TailOnce
  <2> HIDE DEF a, f, r
  <2>5. a.pc \in Holding /\ a.ev \notin ToSet(timerList')
    BY <2>1, <2>2, <2>4, <1>5
  <2> QED
    BY <1>2, <1>4, <2>1, <2>3, <2>4, <2>5, TimerListChanged
<1>12. CASE CheckTimersScan /\ ~HeadExpired(Running.x)
  <2> DEFINE a == [Running EXCEPT !.pc = "CheckTimers.release"]
  <2>1. timerList' = timerList /\ stack' = <<a>> \o Callers
    BY <1>12 DEF CheckTimersScan, Goto, Continue
  <2>2. a.pc = "CheckTimers.release"
    BY <1>1 DEF Activation
  <2> HIDE DEF a
  <2>3. Moves
    BY <1>5, <1>6, <2>1, <2>2, PlainMoves
  <2> QED
    BY <1>2, <2>1, <2>3, Quiet
<1> QED
  BY <1>8, <1>9, <1>10, <1>11, <1>12

\* CoreCreateEventInternal links an event that is new.
LEMMA CreateLists ==
  ASSUME EventInv, CreateEvent
  PROVE  ListTypes' /\ AllRely' /\ Control'
<1> DEFINE e == Running.ev
           g == RestoreTplTo(tpl)
<1>1. /\ StackOK /\ ListTypes /\ AllRely /\ Control
      /\ Running \in Activation /\ Callers \in Seq(Activation)
  BY RunningFits DEF EventInv
<1>2. /\ Running.pc = "CreateEvent" /\ life' = [life EXCEPT ![e] = "open"]
      /\ UNCHANGED <<timerList, timerLock>>
      /\ \/ signalQueue' = signalQueue /\ stack' = Callers /\ Type[e] # "signal"
         \/ signalQueue' = <<e>> \o signalQueue /\ stack' = <<g>> \o Callers /\ Type[e] = "signal"
  BY DEF CreateEvent, At, ReturnNow, LockedReturn, clocks
<1>3. ToSet(stack) = {Running} \cup ToSet(Callers) /\ ToSet(<<g>> \o Callers) = {g} \cup ToSet(Callers)
  BY <1>1, Frames
<1>4. e \in AllEvents /\ life[e] = "new"
  <2>1. Relies(Running)
    BY <1>1, <1>3 DEF AllRely
  <2> QED
    BY <1>1, <1>2, <2>1 DEF Relies, Activation
<1>5. e \notin ToSet(signalQueue)
  BY <1>1, <1>4 DEF ListTypes
<1>6. g.pc = "RestoreTpl"
  BY DEF RestoreTplTo, Act
<1> HIDE DEF e, g
<1>7. /\ life' \in [AllEvents -> {"new", "open", "closed"}] /\ life'[e] = "open"
      /\ \A f \in AllEvents : f # e => life'[f] = life[f]
  BY <1>1, <1>2, <1>4 DEF ListTypes
<1>8. /\ signalQueue' \in Seq(AllEvents) /\ IsInjective(signalQueue')
      /\ \/ ToSet(signalQueue') = ToSet(signalQueue)
         \/ ToSet(signalQueue') = ToSet(signalQueue) \cup {e} /\ Type[e] = "signal"
  <2>1. signalQueue \in Seq(AllEvents) /\ IsInjective(signalQueue)
    BY <1>1 DEF ListTypes
  <2>2. /\ <<e>> \o signalQueue \in Seq(AllEvents) /\ IsInjective(<<e>> \o signalQueue)
        /\ ToSet(<<e>> \o signalQueue) = ToSet(signalQueue) \cup {e}
    BY <1>4, <1>5, <2>1, OnTopOnce
  <2> QED
    BY <1>2, <2>1, <2>2
<1>9. ASSUME NEW f \in ToSet(signalQueue') PROVE Type[f] = "signal" /\ life'[f] = "open"
  <2>1. CASE f = e
    BY <2>1, <1>5, <1>7, <1>8
  <2>2. CASE f # e
    <3>1. f \in ToSet(signalQueue)
      BY <2>2, <1>8, <1>9
    <3>2. f \in AllEvents
      BY <3>1, <1>1 DEF ListTypes, ToSet
    <3> QED
      BY <2>2, <3>1, <3>2, <1>1, <1>7 DEF ListTypes
  <2> QED
    BY <2>1, <2>2
<1>10. ListTypes'
  BY <1>1, <1>2, <1>7, <1>8, <1>9 DEF ListTypes
<1>11. ASSUME NEW b \in ToSet(Callers) PROVE Relies(b)'
  <2>1. Relies(b)
    BY <1>1, <1>3 DEF AllRely
  <2>2. b.ev \in AllEvents
    <3>1. b \in Activation
      BY <1>1 DEF ToSet
    <3> QED
      BY <3>1 DEF Activation
  <2>3. b.pc = "CreateEvent" => b.ev # e
    BY <1>1, <1>2, OneCreator DEF e
  <2>4. b.pc \in Closing => b.ev # e
    BY <2>1, <1>4 DEF Relies
  <2>5. b.pc = "CloseEvent.free" => b.pc \in Closing
    BY DEF Closing
  <2> QED
    BY <2>1, <2>2, <2>3, <2>4, <2>5, <1>2, <1>7, <1>8 DEF Relies
<1>12. \A c : c.pc = "RestoreTpl" => Relies(c)'
  BY DEF Relies, Arming, Closing
<1>13. Running.pc \notin Holding
  BY <1>2 DEF Holding, Setting, Checking
<1>14. timerLock' => \E b \in ToSet(Callers) : b.pc \in Holding
  BY <1>1, <1>2, <1>3, <1>13 DEF Control
<1>15. CASE stack' = Callers
  <2>1. AllRely'
    BY <1>11, <1>15 DEF AllRely
  <2>2. Resumes(stack'[1])
    BY <1>1, <1>2, <1>15, UnderResumes
  <2> QED
    BY <1>10, <1>14, <1>15, <2>1, <2>2 DEF Control, At, Running, Resumes
<1>16. CASE stack' = <<g>> \o Callers
  <2>1. AllRely'
    BY <1>3, <1>6, <1>11, <1>12, <1>16 DEF AllRely
  <2>2. stack'[1] = g
    BY <1>1, <1>16
  <2> QED
    BY <1>3, <1>6, <1>10, <1>14, <1>16, <2>1, <2>2 DEF Control, At, Running, Resumes
<1> QED
  BY <1>2, <1>15, <1>16

\* CoreCloseEvent unlinks an event, and clears its Signature.
LEMMA CloseLists ==
  ASSUME EventInv, CloseEventUnlink \/ CloseEventFree
  PROVE  ListTypes' /\ AllRely' /\ Control'
<1>1. /\ StackOK /\ ListTypes /\ AllRely /\ Control
      /\ Running \in Activation /\ Callers \in Seq(Activation)
  BY RunningFits DEF EventInv
<1>2. ToSet(stack) = {Running} \cup ToSet(Callers)
  BY <1>1, Frames
<1>3. Relies(Running) /\ Running.ev \in AllEvents
  BY <1>1, <1>2 DEF AllRely, Activation
<1>4. UNCHANGED <<timerList, timerLock>> /\ Running.pc \in Closing
  BY DEF CloseEventUnlink, CloseEventFree, clocks, At, Closing
<1>5. Running.pc \notin Holding \cup {"Boot"}
  BY <1>4 DEF Closing, Holding, Setting, Checking
<1>6. timerLock' => \E b \in ToSet(Callers) : b.pc \in Holding
  BY <1>1, <1>2, <1>4, <1>5 DEF Control
<1>7. \A b \in ToSet(Callers) : Relies(b)
  BY <1>1, <1>2 DEF AllRely
<1>8. CASE CloseEventUnlink
  <2> DEFINE g == RestoreTplTo(tpl)
             a == [Running EXCEPT !.pc = "CloseEvent.free"]
             r == RemoveFirst(signalQueue, Running.ev)
  <2>1. stack' = <<g, a>> \o Callers /\ signalQueue' = r /\ life' = life
    BY <1>8 DEF CloseEventUnlink, LockedThen
  <2>2. g.pc = "RestoreTpl"
    BY DEF RestoreTplTo, Act
  <2>3. a.pc = "CloseEvent.free" /\ a.ev = Running.ev
    BY <1>1 DEF Activation
  <2>4. r \in Seq(AllEvents) /\ IsInjective(r) /\ ToSet(r) = ToSet(signalQueue) \ {Running.ev}
    <3>1. signalQueue \in Seq(AllEvents) /\ IsInjective(signalQueue)
      BY <1>1 DEF ListTypes
    <3> QED
      BY <3>1, RemovedOnce
  <2> HIDE DEF a, g, r
  <2>5. ListTypes'
    BY <1>1, <1>4, <2>1, <2>4 DEF ListTypes
  <2>6. ToSet(stack') = {a, g} \cup ToSet(Callers) /\ stack'[1] = g
    BY <1>1, <2>1, Frames
  <2>7. ASSUME NEW c, c.pc = "RestoreTpl" PROVE Relies(c)'
    BY <2>7 DEF Relies, Arming, Closing
  <2>8. ASSUME NEW c, c.pc = "CloseEvent.free", c.ev = Running.ev PROVE Relies(c)'
    <3>1. life[c.ev] # "new" /\ c.ev \notin ToSet(signalQueue')
      BY <1>3, <1>4, <2>1, <2>4, <2>8 DEF Relies
    <3> QED
      BY <2>1, <2>8, <3>1 DEF Relies, Arming, Closing
  <2>9. ASSUME NEW b \in ToSet(Callers) PROVE Relies(b)'
    BY <1>4, <1>7, <2>1, <2>4 DEF Relies
  <2>10. AllRely'
    BY <2>2, <2>3, <2>6, <2>7, <2>8, <2>9 DEF AllRely
  <2> QED
    BY <1>6, <2>2, <2>5, <2>6, <2>10 DEF Control, At, Running, Resumes
<1>9. CASE CloseEventFree
  <2> DEFINE e == Running.ev
  <2>1. /\ stack' = Callers /\ signalQueue' = signalQueue /\ life' = [life EXCEPT ![e] = "closed"]
        /\ Running.pc = "CloseEvent.free"
    BY <1>9 DEF CloseEventFree, ReturnNow, At
  <2>2. e \notin ToSet(signalQueue) /\ life[e] # "new" /\ e \in AllEvents
    BY <1>3, <1>4, <2>1 DEF Relies
  <2> HIDE DEF e
  <2>3. /\ life' \in [AllEvents -> {"new", "open", "closed"}] /\ life'[e] = "closed"
        /\ \A f \in AllEvents : f # e => life'[f] = life[f]
    BY <1>1, <2>1, <2>2 DEF ListTypes
  <2>4. \A f \in ToSet(signalQueue) : f \in AllEvents
    BY <1>1 DEF ListTypes, ToSet
  <2>5. ListTypes'
    BY <1>1, <1>4, <2>1, <2>2, <2>3, <2>4 DEF ListTypes
  <2>6. ASSUME NEW b \in ToSet(Callers) PROVE Relies(b)'
    <3>1. b.ev \in AllEvents
      <4>1. b \in Activation
        BY <1>1 DEF ToSet
      <4> QED
        BY <4>1 DEF Activation
    <3>2. Relies(b)
      BY <1>7
    <3>3. b.pc = "CreateEvent" => b.ev # e
      BY <2>2, <3>2 DEF Relies
    <3> QED
      BY <1>4, <2>1, <2>3, <3>1, <3>2, <3>3 DEF Relies
  <2>7. AllRely'
    BY <2>1, <2>6 DEF AllRely
  <2>8. Resumes(stack'[1])
    BY <1>1, <1>5, <2>1, UnderResumes
  <2> QED
    BY <1>6, <2>1, <2>5, <2>7, <2>8 DEF Control, At, Running, Resumes
<1> QED
  BY <1>8, <1>9

\* Every step.
LEMMA ListsStep ==
  ASSUME EventInv, Next
  PROVE  ListTypes' /\ AllRely' /\ Control'
<1>1. ASSUME Still /\ Moves PROVE ListTypes' /\ AllRely' /\ Control'
  BY <1>1, Quiet DEF Still
<1>2. CASE RestoreTplTest \/ RestoreTplRead \/ RestoreTplDispatch \/ RestoreTplSet
  BY <1>1, <1>2, RestoreTplMoves
<1>3. CASE DispatchTake \/ DispatchDone \/ DispatchNotify
  BY <1>1, <1>3, DispatchMoves
<1>4. CASE \/ SignalEvent \/ SignalListLock \/ SignalListNext \/ SignalListUnlock
           \/ SignalEventEnd
  BY <1>1, <1>4, SignalMoves
<1>5. CASE CheckEvent \/ CheckEventTake \/ WaitForEvent
  BY <1>1, <1>5, CheckEventMoves
<1>6. CASE SetTimerTime \/ CheckTimersTime \/ CheckTimersAgain
  BY <1>1, <1>6, TimerMoves
<1>7. CASE CloseEvent \/ NotifyReturns \/ RaiseTpl \/ RestoreTpl \/ Iret
  BY <1>1, <1>7, OtherMoves
<1>8. CASE CodeCalls
  BY <1>1, <1>8, CodeMoves
<1>9. CASE CoreTimerTick
  BY <1>9, TickLists
<1>10. CASE SetTimer \/ SetTimerRelease \/ CheckTimers \/ CheckTimersRelease
  BY <1>10, TimerLockLists
<1>11. CASE SetTimerRemove \/ SetTimerInsert \/ CheckTimersScan \/ CheckTimersInsert
  BY <1>11, TimerListSteps
<1>12. CASE CreateEvent
  BY <1>12, CreateLists
<1>13. CASE CloseEventUnlink \/ CloseEventFree
  BY <1>13, CloseLists
<1> QED
  BY <1>2, <1>3, <1>4, <1>5, <1>6, <1>7, <1>8, <1>9, <1>10, <1>11, <1>12, <1>13
     DEF Next, CoreStep

----------------------------------------------------------------------------
(* The data that nothing else depends on.                                  *)

LEMMA DataStep ==
  ASSUME EventInv, Next
  PROVE  DataTypes'
<1>1. DataTypes /\ Running \in Activation /\ Fits(Running, tpl)
  BY RunningFits DEF EventInv
<1>2. Running.ev \in AllEvents /\ Running.x \in Nat
  BY <1>1 DEF Activation
<1>3. CheckTimerEvent \in AllEvents
  BY TplsOfEvents
<1>4. CASE RestoreTplTest \/ RestoreTplRead \/ RestoreTplDispatch \/ RestoreTplSet
  BY <1>1, <1>4 DEF DataTypes, RestoreTplTest, RestoreTplRead, RestoreTplDispatch, RestoreTplSet,
     cpu, queues, clocks
<1>5. CASE DispatchTake \/ DispatchDone \/ DispatchNotify
  BY <1>1, <1>5 DEF DataTypes, DispatchTake, DispatchDone, DispatchNotify, LockedThen,
     LockedReturn, cpu, queues, clocks
<1>6. CASE SignalEvent
  <2>1. ints' \in BOOLEAN
    BY <1>1, <1>6 DEF DataTypes, SignalEvent, LockedThen, LockedReturn, cpu
  <2>2. signalled' \subseteq AllEvents
    BY <1>1, <1>2, <1>6 DEF DataTypes, SignalEvent, queues
  <2>3. UNCHANGED clocks
    BY <1>6 DEF SignalEvent
  <2> QED
    BY <1>1, <2>1, <2>2, <2>3 DEF DataTypes, clocks
<1>7. CASE SignalListLock \/ SignalListNext \/ SignalListUnlock \/ SignalEventEnd
  BY <1>1, <1>7 DEF DataTypes, SignalListLock, SignalListNext, SignalListUnlock, SignalEventEnd,
     LockedReturn, cpu, queues, clocks
<1>8. CASE CheckEvent \/ CheckEventTake \/ WaitForEvent
  BY <1>1, <1>8 DEF DataTypes, CheckEvent, CheckEventTake, WaitForEvent, LockedThen,
     LockedReturn, cpu, queues, clocks
<1>9. CASE SetTimer \/ SetTimerRelease \/ CheckTimers \/ CheckTimersRelease
  BY <1>1, <1>9 DEF DataTypes, SetTimer, SetTimerRelease, CheckTimers, CheckTimersRelease,
     AcquireTimerLock, ReleaseTimerLock, cpu, queues
<1>10. CASE SetTimerRemove
  <2> DEFINE y == IF Running.k = "periodic" THEN Running.x ELSE 0
  <2>1. y \in Nat
    BY <1>2
  <2>2. /\ trigger' = [trigger EXCEPT ![Running.ev] = 0] /\ period' = [period EXCEPT ![Running.ev] = y]
        /\ UNCHANGED <<ints, timerLock, signalled, time>>
    BY <1>10 DEF SetTimerRemove, cpu, queues
  <2> HIDE DEF y
  <2> QED
    BY <1>1, <2>1, <2>2 DEF DataTypes
<1>11. CASE SetTimerTime
  <2>1. time + Running.x \in Nat
    BY <1>1, <1>2 DEF DataTypes
  <2>2. /\ trigger' = [trigger EXCEPT ![Running.ev] = time + Running.x] /\ ints' = FALSE
        /\ UNCHANGED <<period, timerLock, signalled, time>>
    BY <1>11 DEF SetTimerTime, LockedThen, queues
  <2> QED
    BY <1>1, <2>1, <2>2 DEF DataTypes
<1>12. CASE SetTimerInsert \/ CheckTimersTime \/ CheckTimersScan \/ CheckTimersInsert
  BY <1>1, <1>12 DEF DataTypes, SetTimerInsert, CheckTimersTime, CheckTimersScan,
     CheckTimersInsert, LockedThen, cpu, queues, clocks
<1>13. CASE CheckTimersAgain
  <2> DEFINE e == Running.ev
  <2>1. e \in Timers
    <3>1. Running.pc = "CheckTimers.again"
      BY <1>13 DEF CheckTimersAgain, At
    <3> QED
      BY <1>1, <3>1 DEF Fits, AboutEvent
  <2>2. trigger[e] + period[e] \in Nat
    BY <1>1, <2>1 DEF DataTypes
  <2>3. /\ trigger' = trigger \/ \E t \in {trigger[e] + period[e], Running.x} :
                                   trigger' = [trigger EXCEPT ![e] = t]
        /\ UNCHANGED <<ints, period, timerLock, signalled, time>>
    BY <1>13 DEF CheckTimersAgain, cpu, queues
  <2> HIDE DEF e
  <2> QED
    BY <1>1, <1>2, <2>2, <2>3 DEF DataTypes
<1>14. CASE CreateEvent \/ CloseEvent \/ CloseEventUnlink \/ CloseEventFree
  BY <1>1, <1>14 DEF DataTypes, CreateEvent, CloseEvent, CloseEventUnlink, CloseEventFree,
     LockedThen, LockedReturn, cpu, queues, clocks
<1>15. CASE RaiseTpl \/ RestoreTpl \/ NotifyReturns \/ Iret \/ CodeCalls
  BY <1>1, <1>15 DEF DataTypes, RaiseTpl, RestoreTpl, NotifyReturns, Iret, CodeCalls,
     cpu, queues, clocks
<1>16. CASE CoreTimerTick
  <2>1. time' \in Nat
    BY <1>1, <1>16 DEF DataTypes, CoreTimerTick
  <2>2. signalled' \subseteq AllEvents
    BY <1>1, <1>3, <1>16 DEF DataTypes, CoreTimerTick
  <2> QED
    BY <1>1, <1>16, <2>1, <2>2 DEF DataTypes, CoreTimerTick
<1> QED
  BY <1>4, <1>5, <1>6, <1>7, <1>8, <1>9, <1>10, <1>11, <1>12, <1>13, <1>14, <1>15, <1>16
     DEF Next, CoreStep

\* gEventSignalQueue at the start.
LEMMA ListOfSet ==
  ASSUME NEW S, IsFiniteSet(S)
  PROVE  SetToSeq(S) \in Seq(S) /\ IsInjective(SetToSeq(S))
<1>1. PICK n \in Nat : ExistsBijection(1 .. n, S)
  BY FS_NatBijection
<1>2. Cardinality(S) = n
  BY <1>1, FS_CountingElements
<1>3. PICK f \in Bijection(1 .. n, S) : TRUE
  BY <1>1 DEF ExistsBijection
<1>4. f \in [1 .. n -> S] /\ IsInjective(f)
  BY <1>3 DEF Bijection, Injection
<1>5. \E g \in [1 .. Cardinality(S) -> S] : IsInjective(g)
  BY <1>2, <1>4
<1>6. SetToSeq(S) \in [1 .. n -> S] /\ IsInjective(SetToSeq(S))
  BY <1>2, <1>5 DEF SetToSeq
<1> QED
  BY <1>6

----------------------------------------------------------------------------
(* The theorems.                                                           *)

LEMMA InitStack ==
  ASSUME Init
  PROVE  StackOK /\ ToSet(stack) = {Service("Boot", CheckTimerEvent)}
<1> DEFINE b == Service("Boot", CheckTimerEvent)
           lv == <<4>>
<1>1. stack = <<b>> /\ tpl = 4
  BY DEF Init, TPL_APPLICATION
<1>2. /\ b \in Activation /\ b.pc = "Boot" /\ b.tpl = 0
  <2>1. CheckTimerEvent \in AllEvents
    BY TplsOfEvents
  <2> QED
    BY <2>1 DEF Service, Act, Activation, Labels
<1> HIDE DEF b
<1>3. AtLevel(b, 4)
  BY <1>2, TplsOfEvents DEF AtLevel, Restoring, Dispatching, Checking, Setting
<1>4. AboutEvent(b)
  BY <1>2 DEF AboutEvent, Setting
<1>5. Fits(b, 4)
  BY <1>2, <1>3, <1>4 DEF Fits
<1>6. /\ stack \in Seq(Activation) /\ Len(stack) = 1 /\ stack[1] = b /\ stack # <<>>
      /\ DOMAIN stack = {1}
  BY <1>1, <1>2
<1>7. lv \in Seq(Nat) /\ Len(lv) = 1 /\ lv[1] = 4
  OBVIOUS
<1> HIDE DEF lv
<1>8. Nested(stack, lv)
  <2>1. \A i \in 1 .. Len(stack) : i = 1
    BY <1>6
  <2>2. 1 .. Len(stack) - 1 = {}
    BY <1>6
  <2>3. \A i \in 1 .. Len(stack) : Fits(stack[i], lv[i])
    BY <2>1, <1>5, <1>6, <1>7
  <2>4. \A i, j \in 1 .. Len(stack) : ~(i < j)
    BY <1>6
  <2> QED
    BY <2>2, <2>3, <2>4, <1>6, <1>7 DEF Nested
<1>9. StackOK
  BY <1>1, <1>2, <1>6, <1>7, <1>8 DEF StackOK
<1>10. ToSet(stack) = {b}
  BY <1>6 DEF ToSet
<1> QED
  BY <1>9, <1>10 DEF b

LEMMA InitInv ==
  ASSUME Init
  PROVE  EventInv
<1> DEFINE b == Service("Boot", CheckTimerEvent)
<1>1. StackOK /\ ToSet(stack) = {b} /\ b.pc = "Boot" /\ Running = b
  <2>1. StackOK /\ ToSet(stack) = {b}
    BY InitStack
  <2>2. b.pc = "Boot"
    BY DEF Service, Act
  <2>3. Running = b
    BY DEF Init, Running
  <2> QED
    BY <2>1, <2>2, <2>3
<1> HIDE DEF b
<1>2. QueueTypes
  <2>1. \A p \in Levels : queue[p] = <<>>
    BY DEF Init
  <2>2. <<>> \in Seq(AllEvents) /\ IsInjective(<<>>) /\ ToSet(<<>>) = {}
    BY DEF IsInjective, ToSet
  <2>3. queue \in [Levels -> Seq(AllEvents)] /\ pending \subseteq Levels
    BY <2>2 DEF Init
  <2> QED
    BY <2>1, <2>2, <2>3 DEF QueueTypes, QueuesOK
<1>3. ListTypes
  <2> DEFINE S == {e \in Created : Kind[e] = "signal"}
             q == SetToSeq(S)
  <2>1. S \subseteq Events /\ IsFiniteSet(Events) /\ Events \subseteq AllEvents
    BY EventsAssumption DEF AllEvents
  <2>2. IsFiniteSet(S)
    BY <2>1, FS_Subset
  <2>3. q \in Seq(S) /\ IsInjective(q)
    <3> HIDE DEF S
    <3> QED
      BY <2>2, ListOfSet
  <2>4. signalQueue = q \o <<CheckTimerEvent>>
    BY DEF Init
  <2> HIDE DEF q
  <2>5. \A e \in ToSet(q) : e \in S
    <3> HIDE DEF S
    <3> QED
      BY <2>3 DEF ToSet
  <2>6. CheckTimerEvent \in AllEvents /\ CheckTimerEvent \notin Events /\ Type[CheckTimerEvent] = "signal"
    BY TplsOfEvents
  <2>7. q \in Seq(AllEvents)
    <3> HIDE DEF S
    <3> QED
      BY <2>1, <2>3
  <2>8. signalQueue = Append(q, CheckTimerEvent)
    BY <2>4, <2>6, <2>7
  <2>9. CheckTimerEvent \notin ToSet(q)
    BY <2>1, <2>5, <2>6
  <2>10. /\ signalQueue \in Seq(AllEvents) /\ IsInjective(signalQueue)
         /\ ToSet(signalQueue) = ToSet(q) \cup {CheckTimerEvent}
    BY <2>3, <2>6, <2>7, <2>8, <2>9, AppendedOnce
  <2>11. ASSUME NEW e \in ToSet(signalQueue) PROVE Type[e] = "signal" /\ life[e] = "open"
    <3>1. CASE e = CheckTimerEvent
      BY <3>1, <2>6 DEF Init
    <3>2. CASE e # CheckTimerEvent
      <4>1. e \in Created /\ Kind[e] = "signal" /\ e \in Events
        BY <3>2, <2>1, <2>5, <2>10, <2>11
      <4>2. Type[e] = Kind[e]
        BY <4>1, TplsOfEvents
      <4>3. life[e] = "open"
        BY <4>1, <2>1 DEF Init
      <4> QED
        BY <4>1, <4>2, <4>3
    <3> QED
      BY <3>1, <3>2
  <2>12. timerList \in Seq(Timers) /\ IsInjective(timerList)
    BY DEF Init, IsInjective
  <2>13. life \in [AllEvents -> {"new", "open", "closed"}]
    BY DEF Init
  <2> QED
    BY <2>10, <2>11, <2>12, <2>13 DEF ListTypes
<1>4. AllRely
  <2>1. b.pc \notin Special
    BY <1>1 DEF Special, Arming, Closing
  <2> QED
    BY <1>1, <2>1, RelyOnNothing DEF AllRely
<1>5. DataTypes
  BY DEF Init, DataTypes
<1>6. Control
  BY <1>1 DEF Init, Control, At
<1> QED
  BY <1>1, <1>2, <1>3, <1>4, <1>5, <1>6 DEF EventInv

LEMMA InvStep ==
  ASSUME EventInv, [Next]_vars
  PROVE  EventInv'
<1>1. CASE Next
  BY <1>1, StackStep, QueuesStep, ListsStep, DataStep DEF EventInv
<1>2. CASE UNCHANGED vars
  <2>1. UNCHANGED <<stack, tpl, ints, pending, queue, signalQueue, signalled, life, timerList,
                    trigger, period, time, timerLock>>
    BY <1>2 DEF vars, cpu, queues, clocks
  <2>2. StackOK /\ QueueTypes /\ ListTypes /\ AllRely /\ DataTypes /\ Control
    BY DEF EventInv
  <2>3. StackOK'
    BY <2>1, <2>2 DEF StackOK
  <2>4. QueueTypes' /\ ListTypes' /\ DataTypes'
    BY <2>1, <2>2 DEF QueueTypes, QueuesOK, ListTypes, DataTypes
  <2>5. AllRely'
    BY <2>1, <2>2 DEF AllRely, Relies
  <2>6. Control'
    BY <2>1, <2>2 DEF Control, At, Running
  <2> QED
    BY <2>3, <2>4, <2>5, <2>6 DEF EventInv
<1> QED
  BY <1>1, <1>2

\* However timer interrupts and notification functions nest, EventInv holds:
\* what CoreSetTimer, CoreCheckTimers, CoreCloseEvent and the walk of the list
\* of events rely on is still so when they go on after an interruption.
THEOREM EventInvariant == Spec => []EventInv
<1>1. Init => EventInv
  BY InitInv
<1>2. EventInv /\ [Next]_vars => EventInv'
  BY InvStep
<1> QED
  BY <1>1, <1>2, PTL DEF Spec

\* Types of the processor state, the queues and the timers, at every nesting
\* of notifications and interrupts.
THEOREM EventTypes == Spec => []TypeOK
<1>1. EventInv => TypeOK
  <2> SUFFICES ASSUME EventInv PROVE TypeOK
    OBVIOUS
  <2>1. StackOK /\ QueueTypes /\ ListTypes /\ DataTypes
    BY DEF EventInv
  <2>2. stack \in Seq(Activation) /\ stack # <<>> /\ tpl \in Nat
    BY <2>1, RunningFits DEF Fits
  <2> QED
    BY <2>1, <2>2 DEF TypeOK, QueueTypes, QueuesOK, ListTypes, DataTypes
<1> QED
  BY <1>1, EventInvariant, PTL

\* Whatever nests, no list has an event twice: CoreNotifyEvent, CoreSetTimer,
\* CoreCheckTimers and CoreCreateEventInternal never link what is linked, and
\* every queued event is in the queue of its own level.
THEOREM NothingLinkedTwice == Spec => []LinkedOnce
<1>1. EventInv => LinkedOnce
  BY DEF EventInv, QueueTypes, QueuesOK, ListTypes, LinkedOnce
<1> QED
  BY <1>1, EventInvariant, PTL

\* A notification function is interrupted only by those of a higher TPL, for
\* every number of events, levels and nested interrupts.
THEOREM NotificationsNest == Spec => []PriorityNesting
<1>1. EventInv => PriorityNesting
  <2> SUFFICES ASSUME EventInv, NEW i \in DOMAIN stack, NEW j \in DOMAIN stack, i < j,
                      Notified(stack[i]), Notified(stack[j])
               PROVE  LET ev(a) == IF a.pc = "Notify" THEN a.ev ELSE CheckTimerEvent
                      IN  Tpl[ev(stack[i])] > Tpl[ev(stack[j])]
    BY DEF PriorityNesting
  <2>1. PICK lv \in Seq(Nat) : Nested(stack, lv) /\ lv[1] = tpl
    BY DEF EventInv, StackOK
  <2>2. i \in 1 .. Len(stack) /\ j \in 1 .. Len(stack)
    BY <2>1 DEF Nested
  <2>3. /\ Above(stack[i], lv[i], stack[j], lv[j]) /\ Fits(stack[i], lv[i])
        /\ Fits(stack[j], lv[j])
    BY <2>1, <2>2 DEF Nested
  <2> DEFINE Ev(a) == IF a.pc = "Notify" THEN a.ev ELSE CheckTimerEvent
  <2>4. ASSUME NEW a, NEW l, Fits(a, l), Notified(a)
        PROVE  l = Tpl[Ev(a)] /\ a.pc \in Notifying /\ a.pc \notin Restoring \cup Dispatching
    <3>1. a.pc \in Notifying /\ a.pc \notin Restoring \cup Dispatching
      BY <2>4 DEF Notified, Notifying, Checking, Restoring, Dispatching
    <3>2. CASE a.pc = "Notify"
      BY <3>1, <3>2, <2>4 DEF Fits, AtLevel
    <3>3. CASE a.pc # "Notify"
      <4>1. a.pc \in Checking \cup {"CheckTimers"}
        BY <3>3, <2>4 DEF Notified, Checking
      <4>2. l = CheckTimerTpl
        BY <4>1, <2>4 DEF Fits, AtLevel
      <4> QED
        BY <3>1, <3>3, <4>2, TplsOfEvents
    <3> QED
      BY <3>2, <3>3
  <2>5. lv[i] = Tpl[Ev(stack[i])] /\ stack[i].pc \in Notifying
    BY <2>3, <2>4
  <2>6. lv[j] = Tpl[Ev(stack[j])] /\ stack[j].pc \notin Restoring \cup Dispatching
    BY <2>3, <2>4
  <2>7. lv[j] < lv[i] /\ lv[i] \in Nat /\ lv[j] \in Nat
    BY <2>3, <2>5, <2>6 DEF Above, Fits
  <2> QED
    BY <2>5, <2>6, <2>7
<1> QED
  BY <1>1, EventInvariant, PTL

\* CoreSetTimer and CoreCheckTimers always find mEfiTimerLock free, and the
\* TPL not above the lock's: the ASSERTs of CoreAcquireLock hold.
THEOREM TimerLockIsFree == Spec => []TimerLockFree
<1>1. EventInv => TimerLockFree
  <2> SUFFICES ASSUME EventInv, Running.pc \in {"SetTimer", "CheckTimers"} PROVE TimerLockLegal
    BY DEF TimerLockFree, At
  <2>1. StackOK /\ Control /\ DataTypes
    BY DEF EventInv
  <2>2. Running.pc \notin Holding /\ Running.pc \notin Helping /\ Running.pc # "Dispatch"
    BY DEF Holding, Setting, Checking, Helping, Restoring
  <2>3. \A a \in ToSet(stack) : a.pc \notin Holding
    BY <2>1, <2>2, NoHolderBelow, Frames
  <2>4. tpl <= CheckTimerTpl
    BY <2>1, RunningFits, TplsOfEvents DEF Fits, AtLevel
  <2> QED
    BY <2>1, <2>3, <2>4 DEF Control, TimerLockLegal
<1> QED
  BY <1>1, EventInvariant, PTL

----------------------------------------------------------------------------
(* A signalled event is queued.                                            *)

\* The activation a is about to queue the notification of e: it has the rest
\* of the list from a.x to walk.
Queueing(a, e) ==
  /\ a.pc \in {"SignalList", "SignalList.next"} /\ a.ev = e
  /\ a.pc = "SignalList.next" => \E k \in a.x .. Len(signalQueue) : signalQueue[k] = e
Awaited(e) == e \in ToSet(queue[Tpl[e]]) \/ \E a \in ToSet(stack) : Queueing(a, e)

\* An event is not signalled before it is created.
NewIsQuiet ==
  /\ life[CheckTimerEvent] # "new"
  /\ \A e \in AllEvents : life[e] = "new" => e \notin signalled
SignalInv == NewIsQuiet /\ \A e \in signalled \cap ToSet(signalQueue) : Awaited(e)

\* No step forgets the activations below the running one.
LEMMA CallersStay ==
  ASSUME EventInv, Next
  PROVE  ToSet(Callers) \subseteq ToSet(stack')
<1>1. StackOK
  BY DEF EventInv
<1>2. \/ stack' = Callers
      \/ \E a : stack' = <<a>> \o Callers
      \/ \E f, a : stack' = <<f, a>> \o Callers
      \/ \E g, f, a : stack' = <<g, f, a>> \o Callers
  <2>1. CASE RestoreTplTest \/ RestoreTplRead \/ RestoreTplDispatch \/ RestoreTplSet
    BY <2>1 DEF RestoreTplTest, RestoreTplRead, RestoreTplDispatch, RestoreTplSet,
       Goto, Continue, CallThen, ReturnNow
  <2>2. CASE DispatchTake \/ DispatchDone \/ DispatchNotify \/ CreateEvent
    BY <2>2 DEF DispatchTake, DispatchDone, DispatchNotify, CreateEvent, LockedThen,
       LockedReturn, CallThen, ReturnNow
  <2>3. CASE \/ SignalEvent \/ SignalListLock \/ SignalListNext \/ SignalListUnlock
             \/ SignalEventEnd
    BY <2>3 DEF SignalEvent, SignalListLock, SignalListNext, SignalListUnlock, SignalEventEnd,
       LockedThen, LockedReturn, Continue, ReturnNow
  <2>4. CASE CheckEvent \/ CheckEventTake \/ WaitForEvent
    BY <2>4 DEF CheckEvent, CheckEventTake, WaitForEvent, LockedThen, LockedReturn, Goto,
       Continue, ReturnNow
  <2>5. CASE SetTimer \/ SetTimerRemove \/ SetTimerTime \/ SetTimerInsert \/ SetTimerRelease
    BY <2>5 DEF SetTimer, SetTimerRemove, SetTimerTime, SetTimerInsert, SetTimerRelease,
       ReleaseTimerLock, LockedThen, Goto, Continue, CallThen, ReturnNow
  <2>6. CASE \/ CheckTimers \/ CheckTimersTime \/ CheckTimersScan \/ CheckTimersAgain
             \/ CheckTimersInsert \/ CheckTimersRelease
    BY <2>6 DEF CheckTimers, CheckTimersTime, CheckTimersScan, CheckTimersAgain,
       CheckTimersInsert, CheckTimersRelease, ReleaseTimerLock, LockedThen, Goto, Continue,
       CallThen
  <2>7. CASE \/ CloseEvent \/ CloseEventUnlink \/ CloseEventFree \/ RaiseTpl \/ RestoreTpl
             \/ NotifyReturns \/ Iret \/ CodeCalls
    BY <2>7 DEF CloseEvent, CloseEventUnlink, CloseEventFree, RaiseTpl, RestoreTpl,
       NotifyReturns, Iret, CodeCalls, LockedThen, Continue, CallThen, ReturnNow
  <2>8. CASE CoreTimerTick
    BY <2>8 DEF CoreTimerTick
  <2> QED
    BY <2>1, <2>2, <2>3, <2>4, <2>5, <2>6, <2>7, <2>8 DEF Next, CoreStep
<1>3. /\ \A a : ToSet(<<a>> \o Callers) = {a} \cup ToSet(Callers)
      /\ \A a, b : ToSet(<<b, a>> \o Callers) = {a, b} \cup ToSet(Callers)
      /\ \A a, b, c : ToSet(<<c, b, a>> \o Callers) = {a, b, c} \cup ToSet(Callers)
  BY <1>1, Frames
<1>4. ASSUME NEW a, stack' = <<a>> \o Callers PROVE ToSet(Callers) \subseteq ToSet(stack')
  BY <1>3, <1>4
<1>5. ASSUME NEW a, NEW f, stack' = <<f, a>> \o Callers
      PROVE  ToSet(Callers) \subseteq ToSet(stack')
  BY <1>3, <1>5
<1>6. ASSUME NEW a, NEW f, NEW g, stack' = <<g, f, a>> \o Callers
      PROVE  ToSet(Callers) \subseteq ToSet(stack')
  BY <1>3, <1>6
<1> QED
  BY <1>2, <1>4, <1>5, <1>6

\* A caller that is about to queue is at the beginning of its walk, which no
\* change of the list disturbs.
LEMMA CallersQueueing ==
  ASSUME StackOK, NEW a \in ToSet(Callers), NEW e, Queueing(a, e)
  PROVE  a.pc = "SignalList" /\ Queueing(a, e)'
<1>1. PICK lv \in Seq(Nat) : Nested(stack, lv) /\ lv[1] = tpl
  BY DEF StackOK
<1>2. /\ Callers \in Seq(Activation) /\ Len(stack) \in Nat \ {0} /\ Len(Callers) = Len(stack) - 1
      /\ \A i \in 1 .. Len(stack) - 1 : Callers[i] = stack[i + 1]
  BY RunningFits
<1>3. DOMAIN Callers = 1 .. Len(stack) - 1
  BY <1>2
<1>4. PICK i \in 1 .. Len(stack) - 1 : a = stack[i + 1]
  BY <1>2, <1>3 DEF ToSet
<1>5. 1 \in 1 .. Len(stack) /\ i + 1 \in 1 .. Len(stack) /\ 1 < i + 1
  BY <1>2
<1>6. Resumes(stack[i + 1])
  BY <1>1, <1>5 DEF Nested
<1>7. a.pc = "SignalList"
  BY <1>4, <1>6 DEF Queueing, Resumes
<1> QED
  BY <1>7 DEF Queueing

\* What was awaited stays so, if the running activation is not about to queue
\* and no notification is taken off a queue.
LEMMA StaysAwaited ==
  ASSUME EventInv, Next, Running.pc \notin {"SignalList", "SignalList.next"}, NEW e,
         Awaited(e), e \in ToSet(queue[Tpl[e]]) => e \in ToSet(queue'[Tpl[e]])
  PROVE  Awaited(e)'
<1>1. CASE e \in ToSet(queue[Tpl[e]])
  BY <1>1 DEF Awaited
<1>2. CASE \E a \in ToSet(stack) : Queueing(a, e)
  <2>1. PICK a \in ToSet(stack) : Queueing(a, e)
    BY <1>2
  <2>2. StackOK
    BY DEF EventInv
  <2>3. a # Running
    BY <2>1 DEF Queueing
  <2>4. a \in ToSet(Callers)
    BY <2>2, <2>3, Frames
  <2>5. Queueing(a, e)'
    BY <2>1, <2>2, <2>4, CallersQueueing
  <2>6. a \in ToSet(stack')
    BY <2>4, CallersStay
  <2> QED
    BY <2>5, <2>6 DEF Awaited
<1> QED
  BY <1>1, <1>2 DEF Awaited

\* An event becomes neither new nor, if it is new, signalled.
LEMMA NewStep ==
  ASSUME EventInv, NewIsQuiet, Next
  PROVE  NewIsQuiet'
<1>1. /\ life \in [AllEvents -> {"new", "open", "closed"}] /\ Running \in Activation
      /\ CheckTimerEvent \in AllEvents
  BY RunningFits, TplsOfEvents DEF EventInv, ListTypes
<1>2. Running.ev \in AllEvents
  BY <1>1 DEF Activation
<1>3. CASE CreateEvent \/ CloseEventFree
  <2>1. \/ life' = [life EXCEPT ![Running.ev] = "open"] /\ signalled' = signalled
        \/ life' = [life EXCEPT ![Running.ev] = "closed"] /\ signalled' = signalled \ {Running.ev}
    BY <1>3 DEF CreateEvent, CloseEventFree
  <2>2. \A e \in AllEvents : life'[e] = "new" => life[e] = "new"
    BY <2>1, <1>1, <1>2
  <2> QED
    BY <2>1, <2>2, <1>1 DEF NewIsQuiet
<1>4. CASE SignalEvent
  <2>1. /\ life' = life
        /\ \/ signalled' = signalled
           \/ life[Running.ev] = "open" /\ signalled' = signalled \cup {Running.ev}
    BY <1>4 DEF SignalEvent, queues
  <2> QED
    BY <2>1 DEF NewIsQuiet
<1>5. CASE CoreTimerTick
  <2>1. life' = life /\ (signalled' = signalled \/ signalled' = signalled \cup {CheckTimerEvent})
    BY <1>5 DEF CoreTimerTick
  <2> QED
    BY <2>1 DEF NewIsQuiet
<1>6. ASSUME life' = life, signalled' \subseteq signalled PROVE NewIsQuiet'
  BY <1>6 DEF NewIsQuiet
<1>7. CASE \/ RestoreTplTest \/ RestoreTplRead \/ RestoreTplDispatch \/ RestoreTplSet
           \/ DispatchTake \/ DispatchDone \/ DispatchNotify
           \/ SignalListLock \/ SignalListNext \/ SignalListUnlock \/ SignalEventEnd
           \/ CheckEvent \/ CheckEventTake \/ WaitForEvent
  <2>1. life' = life /\ signalled' \subseteq signalled
    BY <1>7 DEF queues, RestoreTplTest, RestoreTplRead, RestoreTplDispatch,
       RestoreTplSet, DispatchTake, DispatchDone, DispatchNotify, SignalListLock, SignalListNext,
       SignalListUnlock, SignalEventEnd, CheckEvent, CheckEventTake, WaitForEvent
  <2> QED
    BY <1>6, <2>1
<1>8. CASE \/ SetTimer \/ SetTimerRemove \/ SetTimerTime \/ SetTimerInsert
           \/ SetTimerRelease \/ CheckTimers \/ CheckTimersTime \/ CheckTimersScan
           \/ CheckTimersAgain \/ CheckTimersInsert \/ CheckTimersRelease
           \/ CloseEvent \/ CloseEventUnlink \/ RaiseTpl \/ RestoreTpl \/ NotifyReturns
           \/ Iret \/ CodeCalls
  <2>1. life' = life /\ signalled' = signalled
    BY <1>8 DEF queues, SetTimer, SetTimerRemove, SetTimerTime,
       SetTimerInsert, SetTimerRelease, CheckTimers, CheckTimersTime, CheckTimersScan,
       CheckTimersAgain, CheckTimersInsert, CheckTimersRelease, CloseEvent, CloseEventUnlink,
       RaiseTpl, RestoreTpl, NotifyReturns, Iret, CodeCalls
  <2> QED
    BY <1>6, <2>1
<1> QED
  BY <1>3, <1>4, <1>5, <1>7, <1>8 DEF Next, CoreStep

\* Steps that signal nothing, link nothing and take nothing off the queues.
LEMMA AwaitedStep ==
  ASSUME EventInv, SignalInv, Next, Running.pc \notin {"SignalList", "SignalList.next"},
         UNCHANGED <<queue, signalQueue>>, signalled' \subseteq signalled
  PROVE  \A e \in (signalled \cap ToSet(signalQueue))' : Awaited(e)'
<1>1. ASSUME NEW e \in signalled' \cap ToSet(signalQueue') PROVE Awaited(e)'
  <2>1. Awaited(e)
    BY <1>1 DEF SignalInv
  <2> QED
    BY <2>1, StaysAwaited
<1> QED
  BY <1>1

\* The same for all such steps of the code.
LEMMA AwaitedQuietSteps ==
  ASSUME EventInv, SignalInv,
         \/ RestoreTplTest \/ RestoreTplRead \/ RestoreTplDispatch \/ RestoreTplSet
         \/ DispatchDone \/ DispatchNotify \/ SignalEventEnd \/ CheckEventTake \/ WaitForEvent
         \/ SetTimer \/ SetTimerRemove \/ SetTimerTime \/ SetTimerInsert \/ SetTimerRelease
         \/ CheckTimers \/ CheckTimersTime \/ CheckTimersScan \/ CheckTimersAgain
         \/ CheckTimersInsert \/ CheckTimersRelease
         \/ CloseEvent \/ CloseEventFree \/ RaiseTpl \/ RestoreTpl \/ NotifyReturns \/ Iret
         \/ CodeCalls
  PROVE  \A e \in (signalled \cap ToSet(signalQueue))' : Awaited(e)'
<1>1. Next
  BY DEF Next, CoreStep
<1>2. CASE \/ RestoreTplTest \/ RestoreTplRead \/ RestoreTplDispatch \/ RestoreTplSet
           \/ DispatchDone \/ DispatchNotify \/ SignalEventEnd \/ CheckEventTake \/ WaitForEvent
  <2>1. /\ Running.pc \notin {"SignalList", "SignalList.next"}
        /\ UNCHANGED <<queue, signalQueue>> /\ signalled' \subseteq signalled
    BY <1>2 DEF queues, RestoreTplTest, RestoreTplRead, RestoreTplDispatch, RestoreTplSet, At,
       DispatchDone, DispatchNotify, SignalEventEnd, CheckEventTake, WaitForEvent
  <2> QED
    BY <1>1, <2>1, AwaitedStep
<1>3. CASE \/ SetTimer \/ SetTimerRemove \/ SetTimerTime \/ SetTimerInsert \/ SetTimerRelease
           \/ CheckTimers \/ CheckTimersTime \/ CheckTimersScan \/ CheckTimersAgain
           \/ CheckTimersInsert \/ CheckTimersRelease
  <2>1. /\ Running.pc \notin {"SignalList", "SignalList.next"}
        /\ UNCHANGED <<queue, signalQueue>> /\ signalled' \subseteq signalled
    BY <1>3 DEF queues, SetTimer, SetTimerRemove, SetTimerTime, At,
       SetTimerInsert, SetTimerRelease, CheckTimers, CheckTimersTime, CheckTimersScan,
       CheckTimersAgain, CheckTimersInsert, CheckTimersRelease
  <2> QED
    BY <1>1, <2>1, AwaitedStep
<1>4. CASE \/ CloseEvent \/ CloseEventFree \/ RaiseTpl \/ RestoreTpl \/ NotifyReturns \/ Iret
           \/ CodeCalls
  <2>1. /\ Running.pc \notin {"SignalList", "SignalList.next"}
        /\ UNCHANGED <<queue, signalQueue>> /\ signalled' \subseteq signalled
    BY <1>4 DEF queues, At, CloseEvent, CloseEventFree, RaiseTpl, RestoreTpl, NotifyReturns, Iret,
       CodeCalls
  <2> QED
    BY <1>1, <2>1, AwaitedStep
<1> QED
  BY <1>2, <1>3, <1>4

\* CoreNotifyEvent adds to a queue.
LEMMA NotifyAdds ==
  ASSUME EventInv, NEW e \in AllEvents, Type[e] # "plain", CoreNotifyEvent(e)
  PROVE  /\ e \in ToSet(queue'[Tpl[e]])
         /\ \A f : f \in AllEvents /\ Type[f] # "plain" /\ f \in ToSet(queue[Tpl[f]])
                     => f \in ToSet(queue'[Tpl[f]])
<1>1. QueueTypes
  BY DEF EventInv
<1>2. \A p \in Levels : ToSet(queue'[p]) = ToSet(queue[p]) \cup (IF p = Tpl[e] THEN {e} ELSE {})
  BY <1>1, NotifyQueues
<1>3. Tpl[e] \in Levels /\ \A f \in AllEvents : Type[f] # "plain" => Tpl[f] \in Levels
  BY TplsOfEvents
<1> QED
  BY <1>2, <1>3

\* The events of the list have queues.
LEMMA ListedHaveQueues ==
  ASSUME EventInv, NEW e \in ToSet(signalQueue)
  PROVE  e \in AllEvents /\ Type[e] = "signal" /\ Type[e] # "plain" /\ Tpl[e] \in Levels
<1>1. ListTypes
  BY DEF EventInv
<1>2. e \in AllEvents
  BY <1>1 DEF ListTypes, ToSet
<1>3. Type[e] = "signal"
  BY <1>1 DEF ListTypes
<1> QED
  BY <1>2, <1>3, TplsOfEvents

\* CoreDispatchEventNotifies clears the SignalCount of what it takes.
LEMMA TakeAwaited ==
  ASSUME EventInv, SignalInv, DispatchTake
  PROVE  \A e \in (signalled \cap ToSet(signalQueue))' : Awaited(e)'
<1> DEFINE l == Running.tpl
           h == Head(queue[l])
<1>1. /\ Running.pc = "Dispatch" /\ tpl <= TPL_HIGH_LEVEL /\ queue[l] # <<>>
      /\ queue' = [queue EXCEPT ![l] = Tail(@)] /\ pending' = pending
      /\ signalQueue' = signalQueue
      /\ signalled' = IF Type[h] = "signal" THEN signalled \ {h} ELSE signalled
  BY DEF DispatchTake, At, RaiseTplLegal
<1>2. l \in Levels
  BY <1>1, RunningFits, TplsOfEvents DEF EventInv, Fits, AtLevel, Dispatching
<1>3. QueueTypes /\ Next
  BY DEF EventInv, Next, CoreStep
<1> HIDE DEF l
<1>4. \A p \in Levels : ToSet(queue'[p]) = ToSet(queue[p]) \ (IF p = l THEN {h} ELSE {})
  BY <1>1, <1>2, <1>3, TakeQueues
<1> HIDE DEF h
<1>5. ASSUME NEW e \in signalled' \cap ToSet(signalQueue') PROVE Awaited(e)'
  <2>1. Type[e] = "signal" /\ Tpl[e] \in Levels
    BY <1>1, <1>5, ListedHaveQueues
  <2>2. e # h /\ e \in signalled
    BY <1>1, <1>5, <2>1
  <2>3. Awaited(e)
    BY <1>1, <1>5, <2>2 DEF SignalInv
  <2>4. e \in ToSet(queue[Tpl[e]]) => e \in ToSet(queue'[Tpl[e]])
    BY <1>4, <2>1, <2>2
  <2> QED
    BY <1>1, <1>3, <2>3, <2>4, StaysAwaited
<1> QED
  BY <1>5

\* CoreCloseEvent unlinks from the list and from the queues in one go.
LEMMA UnlinkAwaited ==
  ASSUME EventInv, SignalInv, CloseEventUnlink
  PROVE  \A e \in (signalled \cap ToSet(signalQueue))' : Awaited(e)'
<1> DEFINE d == Running.ev
<1>1. /\ Running.pc = "CloseEvent.unlink" /\ queue' = [p \in Levels |-> RemoveFirst(queue[p], d)]
      /\ signalQueue' = RemoveFirst(signalQueue, d) /\ signalled' = signalled /\ pending' = pending
  BY DEF CloseEventUnlink, At
<1>2. QueueTypes /\ ListTypes /\ Next
  BY DEF EventInv, Next, CoreStep
<1> HIDE DEF d
<1>3. \A p \in Levels : ToSet(queue'[p]) = ToSet(queue[p]) \ {d}
  BY <1>1, <1>2, UnlinkQueues
<1>4. ToSet(signalQueue') = ToSet(signalQueue) \ {d}
  <2>1. signalQueue \in Seq(AllEvents) /\ IsInjective(signalQueue)
    BY <1>2 DEF ListTypes
  <2> QED
    BY <1>1, <2>1, RemovedOnce
<1>5. ASSUME NEW e \in signalled' \cap ToSet(signalQueue') PROVE Awaited(e)'
  <2>1. e # d /\ e \in signalled \cap ToSet(signalQueue)
    BY <1>1, <1>4, <1>5
  <2>2. Awaited(e) /\ Tpl[e] \in Levels
    BY <2>1, ListedHaveQueues DEF SignalInv
  <2>3. e \in ToSet(queue[Tpl[e]]) => e \in ToSet(queue'[Tpl[e]])
    BY <1>3, <2>1, <2>2
  <2> QED
    BY <1>1, <1>2, <2>2, <2>3, StaysAwaited
<1> QED
  BY <1>5

\* A new event is not signalled.
LEMMA CreateAwaited ==
  ASSUME EventInv, SignalInv, CreateEvent
  PROVE  \A e \in (signalled \cap ToSet(signalQueue))' : Awaited(e)'
<1> DEFINE n == Running.ev
<1>1. /\ Running.pc = "CreateEvent" /\ queue' = queue /\ signalled' = signalled
      /\ signalQueue' = signalQueue \/ signalQueue' = <<n>> \o signalQueue
  BY DEF CreateEvent, At
<1>2. Next /\ StackOK /\ ListTypes /\ AllRely /\ Running \in Activation
  BY RunningFits DEF EventInv, Next, CoreStep
<1>3. n \in AllEvents /\ n \notin signalled
  <2>1. Relies(Running) /\ n \in AllEvents
    BY <1>2, Frames DEF AllRely, Activation
  <2> QED
    BY <1>1, <2>1 DEF Relies, SignalInv, NewIsQuiet
<1> HIDE DEF n
<1>4. ToSet(signalQueue') \subseteq ToSet(signalQueue) \cup {n}
  <2>1. signalQueue \in Seq(AllEvents)
    BY <1>2 DEF ListTypes
  <2>2. ToSet(<<n>> \o signalQueue) = {n} \cup ToSet(signalQueue)
    BY <2>1, RangeOnTop
  <2> QED
    BY <1>1, <2>2
<1>5. ASSUME NEW e \in signalled' \cap ToSet(signalQueue') PROVE Awaited(e)'
  <2>1. e \in signalled \cap ToSet(signalQueue)
    BY <1>1, <1>3, <1>4, <1>5
  <2>2. Awaited(e)
    BY <2>1 DEF SignalInv
  <2> QED
    BY <1>1, <1>2, <2>2, StaysAwaited
<1> QED
  BY <1>5

\* CoreSignalEvent queues what it counts as signalled, or goes on to do so.
LEMMA SignalAwaited ==
  ASSUME EventInv, SignalInv, SignalEvent
  PROVE  \A e \in (signalled \cap ToSet(signalQueue))' : Awaited(e)'
<1> DEFINE s == Running.ev
           a == [Running EXCEPT !.pc = "SignalList"]
<1>1. Next /\ StackOK /\ Running \in Activation /\ s \in AllEvents
  BY RunningFits DEF EventInv, Next, CoreStep, Activation
<1>2. Running.pc = "SignalEvent" /\ signalQueue' = signalQueue
  BY DEF SignalEvent, At, queues
<1>3. \/ UNCHANGED <<queue, signalled>>
      \/ signalled' = signalled \cup {s} /\ Type[s] # "signal" /\ queue' = queue
      \/ signalled' = signalled \cup {s} /\ Type[s] = "signal" /\ CoreNotifyEvent(s)
      \/ signalled' = signalled \cup {s} /\ LockedThen(a) /\ queue' = queue
  BY DEF SignalEvent, queues
<1>4. a.pc = "SignalList" /\ a.ev = s
  BY <1>1 DEF Activation
<1> HIDE DEF s, a
<1>5. CASE UNCHANGED <<queue, signalled>>
  BY <1>1, <1>2, <1>5, AwaitedStep
<1>6. CASE signalled' = signalled \cup {s} /\ Type[s] # "signal" /\ queue' = queue
  <2>1. ASSUME NEW e \in signalled' \cap ToSet(signalQueue') PROVE Awaited(e)'
    <3>1. e # s
      BY <1>2, <1>6, <2>1, ListedHaveQueues
    <3>2. Awaited(e)
      BY <1>2, <1>6, <2>1, <3>1 DEF SignalInv
    <3> QED
      BY <1>1, <1>2, <1>6, <3>2, StaysAwaited
  <2> QED
    BY <2>1
<1>7. CASE signalled' = signalled \cup {s} /\ Type[s] = "signal" /\ CoreNotifyEvent(s)
  <2>1. "signal" # "plain"
    OBVIOUS
  <2>2. /\ s \in ToSet(queue'[Tpl[s]])
        /\ \A f : f \in AllEvents /\ Type[f] # "plain" /\ f \in ToSet(queue[Tpl[f]])
                     => f \in ToSet(queue'[Tpl[f]])
    BY <1>1, <1>7, <2>1, NotifyAdds
  <2>3. ASSUME NEW e \in signalled' \cap ToSet(signalQueue') PROVE Awaited(e)'
    <3>1. CASE e = s
      BY <3>1, <2>2 DEF Awaited
    <3>2. CASE e # s
      <4>1. e \in signalled \cap ToSet(signalQueue)
        BY <3>2, <1>2, <1>7, <2>3
      <4>2. Awaited(e) /\ e \in AllEvents /\ Type[e] # "plain"
        BY <4>1, ListedHaveQueues DEF SignalInv
      <4> QED
        BY <4>2, <2>2, <1>1, <1>2, StaysAwaited
    <3> QED
      BY <3>1, <3>2
  <2> QED
    BY <2>3
<1>8. CASE signalled' = signalled \cup {s} /\ LockedThen(a) /\ queue' = queue
  <2>1. a \in ToSet(stack')
    <3>1. stack' = <<RestoreTplTo(tpl), a>> \o Callers
      BY <1>8 DEF LockedThen
    <3> QED
      BY <1>1, <3>1, Frames
  <2>2. ASSUME NEW e \in signalled' \cap ToSet(signalQueue') PROVE Awaited(e)'
    <3>1. CASE e = s
      <4>1. \A b \in ToSet(stack') : b.pc = "SignalList" /\ b.ev = e => Queueing(b, e)'
        BY DEF Queueing
      <4> QED
        BY <1>4, <2>1, <3>1, <4>1 DEF Awaited
    <3>2. CASE e # s
      <4>1. e \in signalled \cap ToSet(signalQueue)
        BY <3>2, <1>2, <1>8, <2>2
      <4>2. Awaited(e)
        BY <4>1 DEF SignalInv
      <4> QED
        BY <4>2, <1>1, <1>2, <1>8, StaysAwaited
    <3> QED
      BY <3>1, <3>2
  <2> QED
    BY <2>2
<1> QED
  BY <1>3, <1>5, <1>6, <1>7, <1>8

\* CoreNotifySignalList: the event that was signalled is ahead of the walk, or
\* is queued.
LEMMA WalkAwaited ==
  ASSUME EventInv, SignalInv, SignalListLock \/ SignalListNext \/ SignalListUnlock
  PROVE  \A e \in (signalled \cap ToSet(signalQueue))' : Awaited(e)'
<1>1. /\ Next /\ StackOK /\ Running \in Activation /\ Fits(Running, tpl)
      /\ signalQueue \in Seq(AllEvents)
  BY RunningFits DEF EventInv, Next, CoreStep, ListTypes
<1>2. UNCHANGED <<signalQueue, signalled>>
  BY DEF SignalListLock, SignalListNext, SignalListUnlock, queues
<1>3. ToSet(stack) = {Running} \cup ToSet(Callers) /\ ToSet(Callers) \subseteq ToSet(stack')
  BY <1>1, Frames, CallersStay
<1>4. Running.x \in Nat
  BY <1>1 DEF Activation
<1> SUFFICES ASSUME NEW e \in signalled \cap ToSet(signalQueue) PROVE Awaited(e)'
  BY <1>2
<1>5. Awaited(e) /\ e \in AllEvents /\ Type[e] # "plain"
  BY ListedHaveQueues DEF SignalInv
<1>6. ASSUME NEW a \in ToSet(Callers), Queueing(a, e) PROVE Awaited(e)'
  BY <1>1, <1>3, <1>6, CallersQueueing DEF Awaited
<1>7. CASE SignalListLock
  <2> DEFINE a == [Running EXCEPT !.pc = "SignalList.next", !.tpl = tpl, !.x = 1]
  <2>1. Running.pc = "SignalList" /\ queue' = queue /\ stack' = <<a>> \o Callers
    BY <1>7 DEF SignalListLock, At, Continue, queues
  <2>2. a.pc = "SignalList.next" /\ a.ev = Running.ev /\ a.x = 1
    BY <1>1 DEF Activation
  <2> HIDE DEF a
  <2>3. a \in ToSet(stack')
    BY <1>1, <2>1, Frames
  <2>4. CASE e \in ToSet(queue[Tpl[e]])
    BY <2>1, <2>4 DEF Awaited
  <2>5. CASE Queueing(Running, e)
    <3>1. PICK k \in 1 .. Len(signalQueue) : signalQueue[k] = e
      BY <1>1 DEF ToSet
    <3>2. PICK b \in ToSet(stack') : b.pc = "SignalList.next" /\ b.ev = e /\ b.x = 1
      BY <2>2, <2>3, <2>5 DEF Queueing
    <3>3. Queueing(b, e)'
      BY <1>2, <3>1, <3>2 DEF Queueing
    <3> QED
      BY <3>3 DEF Awaited
  <2> QED
    BY <1>3, <1>5, <1>6, <2>4, <2>5 DEF Awaited
<1>8. CASE SignalListNext
  <2> DEFINE x == Running.x
             s == signalQueue[x]
  <2>1. /\ Running.pc = "SignalList.next" /\ x <= Len(signalQueue)
        /\ IF Group[s] = Group[Running.ev] THEN CoreNotifyEvent(s) ELSE queue' = queue
        /\ stack' = <<[Running EXCEPT !.x = x + 1]>> \o Callers
    BY <1>8 DEF SignalListNext, At, Continue
  <2>2. x >= 1
    BY <1>1, <2>1 DEF Fits, AboutEvent
  <2>3. x \in 1 .. Len(signalQueue) /\ Len(signalQueue) \in Nat
    BY <1>1, <1>4, <2>1, <2>2
  <2>4. s \in ToSet(signalQueue)
    BY <1>1, <2>3 DEF ToSet
  <2> HIDE DEF s
  <2>5. s \in AllEvents /\ Type[s] # "plain"
    BY <2>4, ListedHaveQueues
  <2>6. e \in ToSet(queue[Tpl[e]]) => e \in ToSet(queue'[Tpl[e]])
    BY <1>5, <2>1, <2>5, NotifyAdds
  <2>7. CASE e \in ToSet(queue[Tpl[e]])
    BY <2>6, <2>7 DEF Awaited
  <2>8. CASE Queueing(Running, e)
    <3>1. PICK k \in x .. Len(signalQueue) : signalQueue[k] = e
      BY <2>1, <2>8 DEF Queueing
    <3>2. Running.ev = e
      BY <2>8 DEF Queueing
    <3>3. CASE k = x
      <4>1. s = e
        BY <3>1, <3>3 DEF s
      <4>2. CoreNotifyEvent(s)
        BY <2>1, <3>2, <4>1
      <4>3. s \in ToSet(queue'[Tpl[s]])
        BY <2>5, <4>2, NotifyAdds
      <4> QED
        BY <4>1, <4>3 DEF Awaited
    <3>4. CASE k # x
      <4> DEFINE a == [Running EXCEPT !.x = x + 1]
      <4>1. a.pc = "SignalList.next" /\ a.ev = e /\ a.x = x + 1
        BY <1>1, <2>1, <3>2 DEF Activation
      <4> HIDE DEF a
      <4>2. a \in ToSet(stack')
        BY <1>1, <2>1, Frames DEF a
      <4>3. k \in a.x .. Len(signalQueue)
        BY <2>3, <3>1, <3>4, <4>1
      <4>4. PICK b \in ToSet(stack') : b.pc = "SignalList.next" /\ b.ev = e /\ k \in b.x .. Len(signalQueue)
        BY <4>1, <4>2, <4>3
      <4>5. Queueing(b, e)'
        BY <1>2, <3>1, <4>4 DEF Queueing
      <4> QED
        BY <4>5 DEF Awaited
    <3> QED
      BY <3>3, <3>4
  <2> QED
    BY <1>3, <1>5, <1>6, <2>7, <2>8 DEF Awaited
<1>9. CASE SignalListUnlock
  <2>1. Running.pc = "SignalList.next" /\ Running.x > Len(signalQueue) /\ queue' = queue
    BY <1>9 DEF SignalListUnlock, At, queues
  <2>2. Len(signalQueue) \in Nat
    BY <1>1
  <2>3. ~ Queueing(Running, e)
    <3>1. Running.x .. Len(signalQueue) = {}
      BY <1>4, <2>1, <2>2
    <3> QED
      BY <2>1, <3>1 DEF Queueing
  <2>4. CASE e \in ToSet(queue[Tpl[e]])
    BY <2>1, <2>4 DEF Awaited
  <2> QED
    BY <1>3, <1>5, <1>6, <2>3, <2>4 DEF Awaited
<1> QED
  BY <1>7, <1>8, <1>9

\* CoreCheckEvent and CoreTimerTick queue notifications too.
LEMMA CheckAwaited ==
  ASSUME EventInv, SignalInv, CheckEvent
  PROVE  \A e \in (signalled \cap ToSet(signalQueue))' : Awaited(e)'
<1>1. Next /\ Running \in Activation
  BY RunningFits DEF EventInv, Next, CoreStep
<1>2. Running.ev \in AllEvents
  BY <1>1 DEF Activation
<1>3. /\ Running.pc = "CheckEvent" /\ UNCHANGED <<signalQueue, signalled>>
      /\ \/ queue' = queue
         \/ Type[Running.ev] = "wait" /\ CoreNotifyEvent(Running.ev)
  BY DEF CheckEvent, At
<1>4. ASSUME NEW e \in signalled \cap ToSet(signalQueue) PROVE Awaited(e)'
  <2>1. Awaited(e) /\ e \in AllEvents /\ Type[e] # "plain"
    BY ListedHaveQueues DEF SignalInv
  <2>2. "wait" # "plain"
    OBVIOUS
  <2>3. e \in ToSet(queue[Tpl[e]]) => e \in ToSet(queue'[Tpl[e]])
    BY <1>2, <1>3, <2>1, <2>2, NotifyAdds
  <2> QED
    BY <1>1, <1>3, <2>1, <2>3, StaysAwaited
<1> QED
  BY <1>3, <1>4
LEMMA TickAwaited ==
  ASSUME EventInv, SignalInv, CoreTimerTick
  PROVE  \A e \in (signalled \cap ToSet(signalQueue))' : Awaited(e)'
<1> DEFINE t == CheckTimerEvent
<1>1. Next /\ StackOK /\ Running \in Activation /\ t \in AllEvents /\ Type[t] # "plain"
  BY RunningFits, TplsOfEvents DEF EventInv, Next, CoreStep
<1>2. /\ signalQueue' = signalQueue
      /\ \/ queue' = queue /\ signalled' = signalled
         \/ CoreNotifyEvent(t) /\ signalled' = signalled \cup {t}
  BY DEF CoreTimerTick
<1>3. ~ At("SignalList.next")
  BY DEF EventInv, Control, CoreTimerTick
<1>4. ASSUME NEW e \in signalled' \cap ToSet(signalQueue') PROVE Awaited(e)'
  <2>1. CASE e \notin signalled
    <3>1. e = t /\ CoreNotifyEvent(t)
      BY <1>2, <1>4, <2>1
    <3>2. t \in ToSet(queue'[Tpl[t]])
      BY <1>1, <3>1, NotifyAdds
    <3> QED
      BY <3>1, <3>2 DEF Awaited
  <2>2. CASE e \in signalled
    <3>1. Awaited(e) /\ e \in AllEvents /\ Type[e] # "plain"
      BY <1>2, <1>4, <2>2, ListedHaveQueues DEF SignalInv
    <3>2. e \in ToSet(queue[Tpl[e]]) => e \in ToSet(queue'[Tpl[e]])
      BY <1>1, <1>2, <3>1, NotifyAdds
    <3>3. CASE Running.pc # "SignalList"
      BY <1>1, <1>3, <3>1, <3>2, <3>3, StaysAwaited DEF At
    <3>4. CASE Running.pc = "SignalList"
      <4>1. stack' = <<RestoreTplTo(tpl), Service("Iret", CheckTimerEvent), Running>> \o Callers
        BY <3>4 DEF CoreTimerTick, At
      <4>2. Running \in ToSet(stack') /\ ToSet(stack) = {Running} \cup ToSet(Callers)
        BY <1>1, <4>1, Frames
      <4>3. ASSUME NEW a \in ToSet(stack), Queueing(a, e) PROVE a \in ToSet(stack') /\ a.pc = "SignalList"
        BY <1>1, <3>4, <4>2, <4>3, CallersStay, CallersQueueing
      <4>4. ASSUME NEW a \in ToSet(stack), Queueing(a, e) PROVE Queueing(a, e)'
        BY <4>3, <4>4 DEF Queueing
      <4> QED
        BY <3>1, <3>2, <4>3, <4>4 DEF Awaited
    <3> QED
      BY <3>3, <3>4
  <2> QED
    BY <2>1, <2>2
<1> QED
  BY <1>4

LEMMA SignalStep ==
  ASSUME EventInv, SignalInv, [Next]_vars
  PROVE  SignalInv'
<1>1. CASE Next
  <2>1. NewIsQuiet'
    BY <1>1, NewStep DEF SignalInv
  <2>2. \A e \in (signalled \cap ToSet(signalQueue))' : Awaited(e)'
    <3>1. CASE CheckEvent
      BY <3>1, CheckAwaited
    <3>2. CASE CoreTimerTick
      BY <3>2, TickAwaited
    <3>3. CASE SignalListLock \/ SignalListNext \/ SignalListUnlock
      BY <3>3, WalkAwaited
    <3>4. CASE SignalEvent
      BY <3>4, SignalAwaited
    <3>5. CASE CreateEvent
      BY <3>5, CreateAwaited
    <3>6. CASE CloseEventUnlink
      BY <3>6, UnlinkAwaited
    <3>7. CASE DispatchTake
      BY <3>7, TakeAwaited
    <3> QED
      BY <1>1, <3>1, <3>2, <3>3, <3>4, <3>5, <3>6, <3>7, AwaitedQuietSteps DEF Next, CoreStep
  <2> QED
    BY <2>1, <2>2 DEF SignalInv
<1>2. CASE UNCHANGED vars
  <2>1. UNCHANGED <<stack, queue, signalQueue, signalled, life>>
    BY <1>2 DEF vars, queues
  <2> QED
    BY <2>1 DEF SignalInv, NewIsQuiet, Awaited, Queueing
<1> QED
  BY <1>1, <1>2

\* No signal is lost: an event of EVT_NOTIFY_SIGNAL whose SignalCount is set,
\* and which is not being closed, has its notification queued or is about to
\* be queued by a CoreSignalEvent, however that was interrupted.
THEOREM NoSignalLost == Spec => []SignalledIsQueued
<1>1. Init => EventInv /\ SignalInv
  <2> SUFFICES ASSUME Init PROVE EventInv /\ SignalInv
    OBVIOUS
  <2>1. signalled = {} /\ life[CheckTimerEvent] = "open"
    BY TplsOfEvents DEF Init
  <2> QED
    BY <2>1, InitInv DEF SignalInv, NewIsQuiet
<1>2. EventInv /\ SignalInv /\ [Next]_vars => EventInv' /\ SignalInv'
  BY InvStep, SignalStep
<1>3. EventInv /\ SignalInv => SignalledIsQueued
  <2> SUFFICES ASSUME EventInv, SignalInv, NEW e \in signalled \cap ToSet(signalQueue),
                      e \notin ToSet(queue[Tpl[e]])
               PROVE  \E i \in DOMAIN stack :
                        /\ stack[i].pc \in {"SignalList", "SignalList.next"} /\ stack[i].ev = e
                        /\ stack[i].pc = "SignalList.next" =>
                             e \in ToSet(SubSeq(signalQueue, stack[i].x, Len(signalQueue)))
    BY DEF SignalledIsQueued
  <2>1. PICK a \in ToSet(stack) : Queueing(a, e)
    BY DEF SignalInv, Awaited
  <2>2. PICK i \in DOMAIN stack : stack[i] = a
    BY DEF ToSet
  <2>3. ASSUME a.pc = "SignalList.next"
        PROVE  e \in ToSet(SubSeq(signalQueue, a.x, Len(signalQueue)))
    <3> DEFINE n == Len(signalQueue)
               m == a.x
               t == SubSeq(signalQueue, m, n)
    <3>1. PICK lv \in Seq(Nat) : Nested(stack, lv)
      BY DEF EventInv, StackOK
    <3>2. Fits(a, lv[i])
      BY <2>2, <3>1 DEF Nested
    <3>3. m \in Nat /\ m >= 1
      BY <2>3, <3>2 DEF Fits, AboutEvent, Activation
    <3>4. PICK k \in m .. n : signalQueue[k] = e
      BY <2>1, <2>3 DEF Queueing
    <3>5. signalQueue \in Seq(AllEvents)
      BY DEF EventInv, ListTypes
    <3>6. n \in Nat /\ m <= n /\ \A j \in m .. n : signalQueue[j] \in AllEvents
      <4>1. n \in Nat /\ \A j \in 1 .. n : signalQueue[j] \in AllEvents
        BY <3>5
      <4> QED
        BY <4>1, <3>3, <3>4
    <3> HIDE DEF m
    <3>7. /\ Len(t) = n - m + 1 /\ t \in Seq(AllEvents)
          /\ \A j \in 1 .. n - m + 1 : t[j] = signalQueue[m + j - 1]
      BY <3>3, <3>5, <3>6, SubSeqProperties
    <3> HIDE DEF t, n
    <3>8. k - m + 1 \in 1 .. n - m + 1 /\ m + (k - m + 1) - 1 = k
      BY <3>3, <3>4, <3>6
    <3>9. t[k - m + 1] = e /\ DOMAIN t = 1 .. n - m + 1
      BY <3>4, <3>6, <3>7, <3>8
    <3>10. e \in ToSet(t)
      BY <3>8, <3>9 DEF ToSet
    <3> QED
      BY <3>10 DEF t, m, n
  <2> QED
    BY <2>1, <2>2, <2>3 DEF Queueing
<1> QED
  BY <1>1, <1>2, <1>3, PTL DEF Spec

----------------------------------------------------------------------------
(* A closed event is linked nowhere.                                       *)

\* CoreSetTimer sets no timer of an event that a CoreCloseEvent it has
\* interrupted is closing.  CoreCloseEvent cancels the timer before it takes
\* the lock under which it unlinks the event, so nothing in it prevents this;
\* it is what it relies on of notification functions.
NotSetWhileClosing ==
  At("SetTimer.remove") /\ Running.k # "cancel" =>
    \A a \in ToSet(Callers) : a.pc \in Closing => a.ev # Running.ev

\* The events on the timer list, or about to be put there.
Armed == ToSet(timerList) \cup {a.ev : a \in {b \in ToSet(stack) : b.pc \in Arming}}

\* In the activations s, an event of A that CoreCloseEvent is closing has a
\* cancellation of its timer above.
Cancels(a, e) == a.pc \in {"SetTimer", "SetTimer.remove"} /\ a.k = "cancel" /\ a.ev = e
CancelledIn(s, A) ==
  \A j \in 1 .. Len(s) :
    s[j].pc \in Closing /\ s[j].ev \in A => \E i \in 1 .. j - 1 : Cancels(s[i], s[j].ev)

\* A timer is set only while its event is open.
SetsOpen(a) == a.pc \in Arming \cup {"SetTimer.remove"} => life[a.ev] = "open"
CloseInv ==
  /\ \A e \in ToSet(timerList) : life[e] = "open"
  /\ \A a \in ToSet(stack) : SetsOpen(a)
  /\ CancelledIn(stack, Armed)

LEMMA CancelledPush ==
  ASSUME NEW S, NEW s \in Seq(S), NEW A, CancelledIn(s, A), NEW a,
         a.pc \notin Closing \/ a.ev \notin A
  PROVE  CancelledIn(<<a>> \o s, A)
<1> DEFINE T == S \cup {a}
           t == <<a>> \o s
           n == Len(s)
<1>1. s \in Seq(T) /\ a \in T
  OBVIOUS
<1> HIDE DEF T
<1>2. t \in Seq(T) /\ Len(t) = n + 1 /\ n \in Nat /\ t[1] = a /\ \A i \in 2 .. n + 1 : t[i] = s[i - 1]
  BY <1>1, OnTop
<1> HIDE DEF t
<1>3. ASSUME NEW j \in 1 .. n + 1, t[j].pc \in Closing, t[j].ev \in A
      PROVE  \E i \in 1 .. j - 1 : Cancels(t[i], t[j].ev)
  <2>1. j # 1
    BY <1>2, <1>3
  <2>2. j \in 2 .. n + 1 /\ j - 1 \in 1 .. n /\ t[j] = s[j - 1]
    BY <1>2, <2>1
  <2>3. PICK i \in 1 .. (j - 1) - 1 : Cancels(s[i], s[j - 1].ev)
    BY <1>3, <2>2 DEF CancelledIn
  <2>4. i + 1 \in 1 .. j - 1 /\ i + 1 \in 2 .. n + 1 /\ (i + 1) - 1 = i
    BY <1>2, <2>2
  <2>5. t[i + 1] = s[i]
    BY <1>2, <2>4
  <2> QED
    BY <2>2, <2>3, <2>4, <2>5
<1>4. CancelledIn(t, A)
  BY <1>2, <1>3 DEF CancelledIn
<1> QED
  BY <1>4 DEF t

\* The activation that cancels is put on top of the one that closes.
LEMMA CancelledClose ==
  ASSUME NEW s \in Seq(Activation), NEW A, CancelledIn(s, A), NEW f \in Activation,
         NEW a \in Activation, Cancels(f, a.ev), f.pc \notin Closing
  PROVE  CancelledIn(<<f>> \o (<<a>> \o s), A)
<1> DEFINE u == <<a>> \o s
           t == <<f>> \o u
           n == Len(s)
<1>1. u \in Seq(Activation) /\ Len(u) = n + 1 /\ n \in Nat /\ u[1] = a
      /\ \A i \in 2 .. n + 1 : u[i] = s[i - 1]
  BY OnTop
<1> HIDE DEF u
<1>2. t \in Seq(Activation) /\ Len(t) = Len(u) + 1 /\ t[1] = f /\ \A i \in 2 .. Len(u) + 1 : t[i] = u[i - 1]
  BY <1>1, OnTop
<1> HIDE DEF t
<1>3. ASSUME NEW j \in 1 .. n + 2, t[j].pc \in Closing, t[j].ev \in A
      PROVE  \E i \in 1 .. j - 1 : Cancels(t[i], t[j].ev)
  <2>1. j # 1
    BY <1>2, <1>3
  <2>2. CASE j = 2
    <3>1. t[j] = a /\ 1 \in 1 .. j - 1
      BY <1>1, <1>2, <2>2
    <3> QED
      BY <3>1, <1>2
  <2>3. CASE j # 2
    <3>1. /\ j \in 2 .. Len(u) + 1 /\ j - 1 \in 2 .. n + 1 /\ (j - 1) - 1 = j - 2
          /\ j - 2 \in 1 .. n
      BY <1>1, <2>1, <2>3
    <3>2. t[j] = s[j - 2]
      BY <1>1, <1>2, <3>1
    <3>3. PICK i \in 1 .. (j - 2) - 1 : Cancels(s[i], s[j - 2].ev)
      BY <1>3, <3>1, <3>2 DEF CancelledIn
    <3>4. /\ i + 2 \in 1 .. j - 1 /\ i + 2 \in 2 .. Len(u) + 1 /\ (i + 2) - 1 = i + 1
          /\ i + 1 \in 2 .. n + 1 /\ (i + 1) - 1 = i
      BY <1>1, <3>1
    <3>5. t[i + 2] = s[i]
      BY <1>1, <1>2, <3>4
    <3> QED
      BY <3>2, <3>3, <3>4, <3>5
  <2> QED
    BY <2>2, <2>3
<1>4. Len(t) = n + 2
  BY <1>1, <1>2
<1>5. CancelledIn(t, A)
  BY <1>3, <1>4 DEF CancelledIn
<1> QED
  BY <1>5 DEF t, u

\* Nothing is above the running activation.
LEMMA TopUncancelled ==
  ASSUME StackOK, NEW A, CancelledIn(stack, A)
  PROVE  Running.pc \in Closing => Running.ev \notin A
<1>1. Len(stack) \in Nat \ {0}
  BY RunningFits
<1>2. 1 \in 1 .. Len(stack) /\ 1 .. 1 - 1 = {}
  BY <1>1
<1> QED
  BY <1>2 DEF CancelledIn, Running

\* The running activation goes: what it cancels is no longer accounted for.
LEMMA CancelledPop ==
  ASSUME StackOK, NEW A, CancelledIn(stack, A), NEW B, B \subseteq A,
         \A e \in B : ~ Cancels(Running, e)
  PROVE  CancelledIn(Callers, B)
<1>1. /\ Callers \in Seq(Activation) /\ Len(stack) \in Nat \ {0} /\ Len(Callers) = Len(stack) - 1
      /\ \A i \in 1 .. Len(stack) - 1 : Callers[i] = stack[i + 1]
  BY RunningFits
<1>2. ASSUME NEW j \in 1 .. Len(Callers), Callers[j].pc \in Closing, Callers[j].ev \in B
      PROVE  \E i \in 1 .. j - 1 : Cancels(Callers[i], Callers[j].ev)
  <2>1. j + 1 \in 1 .. Len(stack) /\ Callers[j] = stack[j + 1] /\ j \in Nat
    BY <1>1
  <2>2. PICK i \in 1 .. (j + 1) - 1 : Cancels(stack[i], stack[j + 1].ev)
    BY <1>2, <2>1 DEF CancelledIn
  <2>3. i # 1
    BY <1>2, <2>1, <2>2 DEF Running
  <2>4. i - 1 \in 1 .. j - 1 /\ i - 1 \in 1 .. Len(stack) - 1 /\ (i - 1) + 1 = i
    BY <1>1, <2>1, <2>3
  <2>5. Callers[i - 1] = stack[i]
    BY <1>1, <2>4
  <2> QED
    BY <2>1, <2>2, <2>4, <2>5
<1> QED
  BY <1>2 DEF CancelledIn

\* The running activation is replaced by one that cancels what it cancelled.
LEMMA CancelledFrame ==
  ASSUME StackOK, NEW B, CancelledIn(stack, B), NEW a,
         \A e \in B : Cancels(Running, e) => Cancels(a, e),
         a.pc \in Closing => a.ev \notin B
  PROVE  CancelledIn(<<a>> \o Callers, B)
<1> DEFINE T == Activation \cup {a}
           t == <<a>> \o Callers
           n == Len(stack)
<1>1. /\ Callers \in Seq(Activation) /\ n \in Nat \ {0} /\ Len(Callers) = n - 1
      /\ \A i \in 1 .. n - 1 : Callers[i] = stack[i + 1]
  BY RunningFits
<1>2. Callers \in Seq(T) /\ a \in T
  BY <1>1
<1> HIDE DEF T, n
<1>3. Len(t) = Len(Callers) + 1 /\ t[1] = a /\ \A i \in 2 .. Len(Callers) + 1 : t[i] = Callers[i - 1]
  BY <1>2, OnTop
<1> HIDE DEF t
<1>4. Len(t) = n /\ \A i \in 2 .. n : t[i] = stack[i]
  <2>1. ASSUME NEW i \in 2 .. n PROVE t[i] = stack[i]
    <3>1. i \in 2 .. Len(Callers) + 1 /\ i - 1 \in 1 .. n - 1 /\ (i - 1) + 1 = i
      BY <1>1
    <3> QED
      BY <3>1, <1>1, <1>3
  <2> QED
    BY <2>1, <1>1, <1>3
<1>5. ASSUME NEW j \in 1 .. n, t[j].pc \in Closing, t[j].ev \in B
      PROVE  \E i \in 1 .. j - 1 : Cancels(t[i], t[j].ev)
  <2>1. j # 1
    BY <1>3, <1>5
  <2>2. j \in 2 .. n /\ t[j] = stack[j]
    BY <1>1, <1>4, <2>1
  <2>3. PICK i \in 1 .. j - 1 : Cancels(stack[i], stack[j].ev)
    BY <1>5, <2>2 DEF CancelledIn, n
  <2>4. CASE i = 1
    <3>1. Cancels(a, t[j].ev)
      BY <1>5, <2>2, <2>3, <2>4 DEF Running
    <3> QED
      BY <3>1, <2>4, <1>3
  <2>5. CASE i # 1
    <3>1. i \in 2 .. n
      BY <1>1, <2>2, <2>5
    <3> QED
      BY <3>1, <2>2, <2>3, <1>4
  <2> QED
    BY <2>4, <2>5
<1>6. CancelledIn(t, B)
  BY <1>4, <1>5 DEF CancelledIn
<1> QED
  BY <1>6 DEF t

\* What is cancelled for some events is so for fewer.
LEMMA CancelledFewer ==
  ASSUME NEW s, NEW A, CancelledIn(s, A), NEW B, B \subseteq A
  PROVE  CancelledIn(s, B)
BY DEF CancelledIn

\* Where an activation says something about the event it is about.
Marked == Arming \cup Closing \cup {"SetTimer.remove"}

\* The running activation returns, goes on as a or calls f.
StaysOpen(a) == a.pc \in Arming \cup {"SetTimer.remove"} => life'[a.ev] = "open"
Takes(a) ==
  /\ StaysOpen(a)
  /\ \A e \in Armed' : Cancels(Running, e) => Cancels(a, e)
  /\ a.pc \in Closing => a.ev \notin Armed'
Leaves ==
  \/ stack' = Callers /\ \A e \in Armed' : ~ Cancels(Running, e)
  \/ \E a : stack' = <<a>> \o Callers /\ Takes(a)
  \/ \E f, a : stack' = <<f, a>> \o Callers /\ f.pc \notin Marked /\ Takes(a)

LEMMA CloseKept ==
  ASSUME StackOK, CloseInv, CancelledIn(stack, Armed'),
         \A b \in ToSet(Callers) : SetsOpen(b)',
         \A e \in ToSet(timerList') : life'[e] = "open", Leaves
  PROVE  CloseInv'
<1>1. /\ \A a : ToSet(<<a>> \o Callers) = {a} \cup ToSet(Callers)
      /\ \A a, b : ToSet(<<b, a>> \o Callers) = {a, b} \cup ToSet(Callers)
      /\ Callers \in Seq(Activation)
  BY Frames, RunningFits
<1> DEFINE B == Armed'
<1>2. CancelledIn(stack, B)
  OBVIOUS
<1> HIDE DEF B
<1>3. SUFFICES (\A b \in ToSet(stack') : SetsOpen(b)') /\ CancelledIn(stack', B)
  BY <1>3 DEF CloseInv, CancelledIn, Cancels, B
<1>4. CASE stack' = Callers /\ \A e \in Armed' : ~ Cancels(Running, e)
  <2>1. \A e \in B : ~ Cancels(Running, e)
    BY <1>4 DEF B
  <2>2. CancelledIn(Callers, B)
    BY <1>2, <2>1, CancelledPop
  <2> QED
    BY <1>4, <2>2
<1>5. CASE \E a : stack' = <<a>> \o Callers /\ Takes(a)
  <2>1. PICK a : stack' = <<a>> \o Callers /\ Takes(a)
    BY <1>5
  <2>2. SetsOpen(a)' /\ (\A e \in B : Cancels(Running, e) => Cancels(a, e))
        /\ (a.pc \in Closing => a.ev \notin B)
    BY <2>1 DEF Takes, StaysOpen, SetsOpen, B
  <2>3. CancelledIn(<<a>> \o Callers, B)
    BY <1>2, <2>2, CancelledFrame
  <2> QED
    BY <1>1, <2>1, <2>2, <2>3
<1>6. CASE \E f, a : stack' = <<f, a>> \o Callers /\ f.pc \notin Marked /\ Takes(a)
  <2>1. PICK f, a : stack' = <<f, a>> \o Callers /\ f.pc \notin Marked /\ Takes(a)
    BY <1>6
  <2>2. SetsOpen(a)' /\ (\A e \in B : Cancels(Running, e) => Cancels(a, e))
        /\ (a.pc \in Closing => a.ev \notin B)
    BY <2>1 DEF Takes, StaysOpen, SetsOpen, B
  <2>3. CancelledIn(<<a>> \o Callers, B)
    BY <1>2, <2>2, CancelledFrame
  <2>4. f.pc \notin Closing /\ SetsOpen(f)'
    BY <2>1 DEF Marked, SetsOpen
  <2>5. CancelledIn(<<f, a>> \o Callers, B)
    <3> DEFINE T == Activation \cup {a, f}
               s == <<a>> \o Callers
    <3>1. Callers \in Seq(T) /\ a \in T /\ f \in T
      BY <1>1
    <3> HIDE DEF T
    <3>2. s \in Seq(T) /\ <<f, a>> \o Callers = <<f>> \o s
      BY <3>1, OnTop, TwoOnTop
    <3>3. CancelledIn(s, B)
      BY <2>3
    <3> HIDE DEF s
    <3>4. CancelledIn(<<f>> \o s, B)
      BY <3>2, <3>3, <2>4, CancelledPush
    <3> QED
      BY <3>2, <3>4
  <2> QED
    BY <1>1, <2>1, <2>2, <2>4, <2>5
<1> QED
  BY <1>4, <1>5, <1>6 DEF Leaves

\* No event is armed by activations that say nothing about theirs.
LEMMA ArmedStep ==
  ASSUME NEW N, ToSet(stack') \subseteq N \cup ToSet(stack),
         \A a \in N : a.pc \in Arming => a.ev \in Armed, ToSet(timerList') \subseteq Armed
  PROVE  Armed' \subseteq Armed
<1>1. ASSUME NEW a \in ToSet(stack'), a.pc \in Arming PROVE a.ev \in Armed
  BY <1>1 DEF Armed
<1> QED
  BY <1>1 DEF Armed

\* The running activation says nothing about its event, and nor do those that
\* take its place.
Plain ==
  \/ stack' = Callers
  \/ \E a : a.pc \notin Marked /\ stack' = <<a>> \o Callers
  \/ \E f, a : f.pc \notin Marked /\ a.pc \notin Marked /\ stack' = <<f, a>> \o Callers

LEMMA ClosePlain ==
  ASSUME EventInv, CloseInv, timerList' = timerList,
         \A e \in AllEvents : life[e] = "open" => life'[e] = "open",
         Running.pc \notin {"SetTimer", "SetTimer.remove"}, Plain
  PROVE  CloseInv'
<1>1. /\ ToSet(stack) = {Running} \cup ToSet(Callers)
      /\ \A a : ToSet(<<a>> \o Callers) = {a} \cup ToSet(Callers)
      /\ \A a, b : ToSet(<<b, a>> \o Callers) = {a, b} \cup ToSet(Callers)
      /\ StackOK /\ Callers \in Seq(Activation) /\ timerList \in Seq(Timers)
  BY Frames, RunningFits DEF EventInv, ListTypes
<1>2. \A b \in ToSet(Callers) : SetsOpen(b)'
  <2>1. ASSUME NEW b \in ToSet(Callers) PROVE SetsOpen(b)'
    <3>1. b \in Activation
      BY <1>1 DEF ToSet
    <3>2. b.ev \in AllEvents /\ SetsOpen(b)
      BY <1>1, <3>1 DEF CloseInv, Activation
    <3> QED
      BY <3>2 DEF SetsOpen
  <2> QED
    BY <2>1
<1>3. \A e \in ToSet(timerList') : life'[e] = "open"
  <2>1. \A e \in ToSet(timerList) : e \in AllEvents
    BY <1>1, EventsAssumption DEF ToSet, AllEvents
  <2> QED
    BY <2>1 DEF CloseInv
<1>4. ToSet(timerList') \subseteq Armed /\ \A e : ~ Cancels(Running, e)
  BY DEF Armed, Cancels
<1>5. \A a : a.pc \notin Marked => Takes(a) /\ a.pc \notin Arming
  BY <1>4 DEF Takes, Marked, StaysOpen
<1>6. Leaves
  BY <1>4, <1>5 DEF Plain, Leaves
<1>7. Armed' \subseteq Armed
  <2>1. CASE stack' = Callers
    <3> DEFINE N == {}
    <3>1. ToSet(stack') \subseteq N \cup ToSet(stack) /\ \A b \in N : b.pc \in Arming => b.ev \in Armed
      BY <1>1, <2>1
    <3> HIDE DEF N
    <3> QED
      BY <3>1, <1>4, ArmedStep
  <2>2. CASE \E a : a.pc \notin Marked /\ stack' = <<a>> \o Callers
    <3>1. PICK a : a.pc \notin Marked /\ stack' = <<a>> \o Callers
      BY <2>2
    <3> DEFINE N == {a}
    <3>2. ToSet(stack') \subseteq N \cup ToSet(stack) /\ \A b \in N : b.pc \in Arming => b.ev \in Armed
      BY <3>1, <1>1, <1>5
    <3> HIDE DEF N
    <3> QED
      BY <3>2, <1>4, ArmedStep
  <2>3. CASE \E f, a : f.pc \notin Marked /\ a.pc \notin Marked /\ stack' = <<f, a>> \o Callers
    <3>1. PICK f, a : f.pc \notin Marked /\ a.pc \notin Marked /\ stack' = <<f, a>> \o Callers
      BY <2>3
    <3> DEFINE N == {f, a}
    <3>2. ToSet(stack') \subseteq N \cup ToSet(stack) /\ \A b \in N : b.pc \in Arming => b.ev \in Armed
      BY <3>1, <1>1, <1>5
    <3> HIDE DEF N
    <3> QED
      BY <3>2, <1>4, ArmedStep
  <2> QED
    BY <2>1, <2>2, <2>3 DEF Plain
<1>8. CancelledIn(stack, Armed')
  BY <1>7, CancelledFewer DEF CloseInv
<1> QED
  BY <1>1, <1>2, <1>3, <1>6, <1>8, CloseKept

\* The steps of which this is true.
LEMMA PlainSteps ==
  ASSUME EventInv, CloseInv,
         \/ RestoreTplTest \/ RestoreTplRead \/ RestoreTplDispatch \/ RestoreTplSet
         \/ DispatchTake \/ DispatchDone \/ DispatchNotify
         \/ SignalEvent \/ SignalListLock \/ SignalListNext \/ SignalListUnlock
         \/ SignalEventEnd \/ CheckEvent \/ CheckEventTake \/ WaitForEvent
  PROVE  CloseInv'
<1>1. StackOK /\ Running \in Activation
  BY RunningFits DEF EventInv
<1>2. \A pc \in Restoring \cup Dispatching \cup
         {"CheckTimers", "Notify", "SignalList", "SignalList.next", "SignalEvent.end",
          "CheckEvent", "CheckEvent.take", "WaitForEvent", "Asleep"} : pc \notin Marked
  BY DEF Restoring, Dispatching, Marked, Arming, Closing
<1>3. \A l : RestoreTplTo(l).pc = "RestoreTpl" /\ RestoreTplTo(l).pc \notin Marked
  BY DEF RestoreTplTo, Act, Marked, Arming, Closing
<1>4. \A pc : [Running EXCEPT !.pc = pc].pc = pc
  BY <1>1 DEF Activation
<1>5. LockedReturn => Plain
  BY <1>3 DEF LockedReturn, Plain
<1>6. \A a : LockedThen(a) /\ a.pc \notin Marked => Plain
  BY <1>3 DEF LockedThen, Plain
<1>7. \A pc : Goto(pc) /\ pc \notin Marked => Plain
  BY <1>4 DEF Goto, Continue, Plain
<1>8. CASE RestoreTplTest \/ RestoreTplRead \/ RestoreTplDispatch \/ RestoreTplSet
  <2>1. timerList' = timerList /\ life' = life /\ Running.pc \notin {"SetTimer", "SetTimer.remove"}
    BY <1>8 DEF RestoreTplTest, RestoreTplRead, RestoreTplDispatch, RestoreTplSet, queues, clocks, At
  <2>2. CASE RestoreTplTest
    <3>1. PICK pc \in Restoring : Goto(pc)
      BY <2>2 DEF RestoreTplTest, Restoring
    <3> QED
      BY <3>1, <2>1, <1>1, <1>2, <1>7, ClosePlain
  <2>3. CASE RestoreTplRead
    <3> DEFINE p == HighBitSet64(pending)
               pc == IF p <= Running.tpl THEN "RestoreTpl.set" ELSE "RestoreTpl.dispatch"
               a == [Running EXCEPT !.x = p, !.pc = pc]
    <3>1. stack' = <<a>> \o Callers
      BY <2>3 DEF RestoreTplRead, Continue
    <3>2. a.pc = pc /\ pc \in Restoring
      BY <1>1 DEF Activation, Restoring
    <3> HIDE DEF a, pc
    <3>3. Plain
      BY <3>1, <3>2, <1>2 DEF Plain
    <3> QED
      BY <3>3, <2>1, <1>1, ClosePlain
  <2>4. CASE RestoreTplDispatch
    <3> DEFINE f == Act("Dispatch", CheckTimerEvent, Running.x, "", 0)
               a == RestoreTplTo(Running.tpl)
    <3>1. stack' = <<f, a>> \o Callers
      BY <2>4 DEF RestoreTplDispatch, CallThen
    <3>2. f.pc = "Dispatch"
      BY DEF Act
    <3>3. f.pc \notin Marked /\ a.pc \notin Marked
      BY <3>2, <1>2, <1>3 DEF Dispatching
    <3> HIDE DEF f, a
    <3>4. Plain
      BY <3>1, <3>3 DEF Plain
    <3> QED
      BY <3>4, <2>1, <1>1, ClosePlain
  <2>5. CASE RestoreTplSet
    <3>1. Plain
      BY <2>5 DEF RestoreTplSet, ReturnNow, Plain
    <3> QED
      BY <3>1, <2>1, <1>1, ClosePlain
  <2> QED
    BY <1>8, <2>2, <2>3, <2>4, <2>5
<1>9. CASE DispatchTake \/ DispatchDone \/ DispatchNotify
  <2>1. timerList' = timerList /\ life' = life /\ Running.pc \notin {"SetTimer", "SetTimer.remove"}
    BY <1>9 DEF DispatchTake, DispatchDone, DispatchNotify, queues, clocks, At
  <2>2. CASE DispatchTake
    <3> DEFINE e == Head(queue[Running.tpl])
               a == [Running EXCEPT !.pc = "Dispatch.notify", !.ev = e]
    <3>1. LockedThen(a)
      BY <2>2 DEF DispatchTake
    <3>2. a.pc = "Dispatch.notify"
      BY <1>1 DEF Activation
    <3> HIDE DEF a
    <3>3. Plain
      BY <3>1, <3>2, <1>2, <1>6 DEF Dispatching
    <3> QED
      BY <3>3, <2>1, <1>1, ClosePlain
  <2>3. CASE DispatchDone
    <3>1. Plain
      BY <2>3, <1>5 DEF DispatchDone
    <3> QED
      BY <3>1, <2>1, <1>1, ClosePlain
  <2>4. CASE DispatchNotify
    <3> DEFINE f == Act(IF Running.ev = CheckTimerEvent THEN "CheckTimers" ELSE "Notify",
                        Running.ev, 0, "", 0)
               a == [Running EXCEPT !.pc = "Dispatch"]
    <3>1. stack' = <<f, a>> \o Callers
      BY <2>4 DEF DispatchNotify, CallThen
    <3>2. f.pc \in {"CheckTimers", "Notify"} /\ a.pc = "Dispatch"
      BY <1>4 DEF Act
    <3> HIDE DEF f, a
    <3>3. Plain
      BY <3>1, <3>2, <1>2 DEF Dispatching, Plain
    <3> QED
      BY <3>3, <2>1, <1>1, ClosePlain
  <2> QED
    BY <1>9, <2>2, <2>3, <2>4
<1>10. CASE SignalEvent \/ SignalListLock \/ SignalListNext \/ SignalListUnlock \/ SignalEventEnd
  <2>1. timerList' = timerList /\ life' = life /\ Running.pc \notin {"SetTimer", "SetTimer.remove"}
    BY <1>10 DEF SignalEvent, SignalListLock, SignalListNext, SignalListUnlock, SignalEventEnd,
       queues, clocks, At
  <2>2. CASE SignalEvent
    <3>1. ReturnNow \/ LockedReturn \/ LockedThen([Running EXCEPT !.pc = "SignalList"])
      BY <2>2 DEF SignalEvent
    <3>2. [Running EXCEPT !.pc = "SignalList"].pc \notin Marked
      BY <1>2, <1>4
    <3>3. Plain
      BY <3>1, <3>2, <1>5, <1>6 DEF ReturnNow, Plain
    <3> QED
      BY <3>3, <2>1, <1>1, ClosePlain
  <2>3. CASE SignalListLock
    <3> DEFINE a == [Running EXCEPT !.pc = "SignalList.next", !.tpl = tpl, !.x = 1]
    <3>1. stack' = <<a>> \o Callers
      BY <2>3 DEF SignalListLock, Continue
    <3>2. a.pc = "SignalList.next"
      BY <1>1 DEF Activation
    <3> HIDE DEF a
    <3>3. Plain
      BY <3>1, <3>2, <1>2 DEF Plain
    <3> QED
      BY <3>3, <2>1, <1>1, ClosePlain
  <2>4. CASE SignalListNext
    <3> DEFINE a == [Running EXCEPT !.x = @ + 1]
    <3>1. stack' = <<a>> \o Callers /\ Running.pc = "SignalList.next"
      BY <2>4 DEF SignalListNext, Continue, At
    <3>2. a.pc = "SignalList.next"
      BY <1>1, <3>1 DEF Activation
    <3> HIDE DEF a
    <3>3. Plain
      BY <3>1, <3>2, <1>2 DEF Plain
    <3> QED
      BY <3>3, <2>1, <1>1, ClosePlain
  <2>5. CASE SignalListUnlock
    <3> DEFINE a == [Running EXCEPT !.pc = "SignalEvent.end"]
    <3>1. stack' = <<RestoreTplTo(Running.tpl), a>> \o Callers
      BY <2>5 DEF SignalListUnlock
    <3>2. a.pc = "SignalEvent.end"
      BY <1>4
    <3> HIDE DEF a
    <3>3. Plain
      BY <3>1, <3>2, <1>2, <1>3 DEF Plain
    <3> QED
      BY <3>3, <2>1, <1>1, ClosePlain
  <2>6. CASE SignalEventEnd
    <3>1. Plain
      BY <2>6, <1>5 DEF SignalEventEnd
    <3> QED
      BY <3>1, <2>1, <1>1, ClosePlain
  <2> QED
    BY <1>10, <2>2, <2>3, <2>4, <2>5, <2>6
<1>11. CASE CheckEvent \/ CheckEventTake \/ WaitForEvent
  <2>1. timerList' = timerList /\ life' = life /\ Running.pc \notin {"SetTimer", "SetTimer.remove"}
    BY <1>11 DEF CheckEvent, CheckEventTake, WaitForEvent, queues, clocks, At
  <2>2. \/ ReturnNow \/ LockedReturn \/ LockedThen([Running EXCEPT !.pc = "CheckEvent.take"])
        \/ \E pc \in {"CheckEvent", "CheckEvent.take", "WaitForEvent", "Asleep"} : Goto(pc)
    BY <1>11 DEF CheckEvent, CheckEventTake, WaitForEvent
  <2>3. [Running EXCEPT !.pc = "CheckEvent.take"].pc \notin Marked
    BY <1>2, <1>4
  <2>4. Plain
    BY <2>2, <2>3, <1>2, <1>5, <1>6, <1>7 DEF ReturnNow, Plain
  <2> QED
    BY <2>4, <2>1, <1>1, ClosePlain
<1> QED
  BY <1>8, <1>9, <1>10, <1>11

\* Steps of other code that say nothing about an event that is closed.
LEMMA OtherPlainSteps ==
  ASSUME EventInv, CloseInv,
         \/ CreateEvent \/ RaiseTpl \/ RestoreTpl \/ NotifyReturns \/ Iret \/ CodeCalls
         \/ CheckTimers \/ CheckTimersTime \/ CheckTimersRelease \/ SetTimerRelease
  PROVE  CloseInv'
<1>1. StackOK /\ Running \in Activation
  BY RunningFits DEF EventInv
<1>2. \A pc \in {"RestoreTpl", "Raised", "Boot", "Notify", "CheckTimers.time", "CheckTimers.scan",
                 "CreateEvent", "SignalEvent", "CloseEvent", "CheckEvent", "SetTimer",
                 "RaiseTpl"} : pc \notin Marked
  BY DEF Marked, Arming, Closing
<1>3. \A l : RestoreTplTo(l).pc \notin Marked
  BY DEF RestoreTplTo, Act, Marked, Arming, Closing
<1>4. \A l : Continue(RestoreTplTo(l)) => Plain
  BY <1>3 DEF Continue, Plain
<1>5. CASE CreateEvent
  <2>1. /\ timerList' = timerList /\ Running.pc \notin {"SetTimer", "SetTimer.remove"}
        /\ life' = [life EXCEPT ![Running.ev] = "open"]
        /\ ReturnNow \/ LockedReturn
    BY <1>5 DEF CreateEvent, clocks, At
  <2>2. life \in [AllEvents -> {"new", "open", "closed"}] /\ Running.ev \in AllEvents
    BY <1>1 DEF EventInv, ListTypes, Activation
  <2>3. \A e \in AllEvents : life[e] = "open" => life'[e] = "open"
    BY <2>1, <2>2
  <2>4. Plain
    BY <2>1, <1>3 DEF ReturnNow, LockedReturn, Plain
  <2> QED
    BY <2>1, <2>3, <2>4, <1>1, ClosePlain
<1>6. CASE RaiseTpl \/ RestoreTpl \/ NotifyReturns \/ Iret
  <2>1. timerList' = timerList /\ life' = life /\ Running.pc \notin {"SetTimer", "SetTimer.remove"}
    BY <1>6 DEF RaiseTpl, RestoreTpl, NotifyReturns, Iret, queues, clocks, At
  <2>2. CASE RaiseTpl
    <3> DEFINE a == Act("Raised", CheckTimerEvent, tpl, "", 0)
    <3>1. stack' = <<a>> \o Callers
      BY <2>2 DEF RaiseTpl, Continue
    <3>2. a.pc = "Raised"
      BY DEF Act
    <3> HIDE DEF a
    <3>3. Plain
      BY <3>1, <3>2, <1>2 DEF Plain
    <3> QED
      BY <3>3, <2>1, <1>1, ClosePlain
  <2>3. CASE RestoreTpl \/ NotifyReturns \/ Iret
    <3>1. Plain
      BY <2>3, <1>4 DEF RestoreTpl, NotifyReturns, Iret, ReturnNow, Plain
    <3> QED
      BY <3>1, <2>1, <1>1, ClosePlain
  <2> QED
    BY <1>6, <2>2, <2>3
<1>7. CASE CodeCalls
  <2> DEFINE a == IF At("Boot") THEN Running ELSE [Running EXCEPT !.x = 1]
  <2>1. /\ timerList' = timerList /\ life' = life
        /\ Running.pc \in {"Boot", "Notify", "Raised"}
    BY <1>7 DEF CodeCalls, queues, clocks
  <2>2. PICK c \in CallsOf(Running) : stack' = <<c, a>> \o Callers
    BY <1>7 DEF CodeCalls, CallThen
  <2>3. c \in ServiceCalls
    BY <1>1, <2>1, CallsMade
  <2>4. c.pc \in {"CreateEvent", "SignalEvent", "CloseEvent", "CheckEvent", "SetTimer", "RaiseTpl"}
    BY <2>3, CallFacts
  <2>5. a.pc = Running.pc
    BY <1>1 DEF Activation
  <2> HIDE DEF a
  <2>6. Plain
    BY <2>1, <2>2, <2>4, <2>5, <1>2 DEF Plain
  <2> QED
    BY <2>1, <2>6, <1>1, ClosePlain
<1>8. CASE CheckTimers \/ CheckTimersTime
  <2>1. timerList' = timerList /\ life' = life /\ Running.pc \notin {"SetTimer", "SetTimer.remove"}
    BY <1>8 DEF CheckTimers, CheckTimersTime, queues, clocks, At
  <2>2. CASE CheckTimers
    <3> DEFINE a == [Running EXCEPT !.pc = "CheckTimers.time", !.tpl = tpl]
    <3>1. stack' = <<a>> \o Callers
      BY <2>2 DEF CheckTimers, Continue
    <3>2. a.pc = "CheckTimers.time"
      BY <1>1 DEF Activation
    <3> HIDE DEF a
    <3>3. Plain
      BY <3>1, <3>2, <1>2 DEF Plain
    <3> QED
      BY <3>3, <2>1, <1>1, ClosePlain
  <2>3. CASE CheckTimersTime
    <3> DEFINE a == [Running EXCEPT !.pc = "CheckTimers.scan", !.x = time]
    <3>1. stack' = <<RestoreTplTo(tpl), a>> \o Callers
      BY <2>3 DEF CheckTimersTime, LockedThen
    <3>2. a.pc = "CheckTimers.scan"
      BY <1>1 DEF Activation
    <3> HIDE DEF a
    <3>3. Plain
      BY <3>1, <3>2, <1>2, <1>3 DEF Plain
    <3> QED
      BY <3>3, <2>1, <1>1, ClosePlain
  <2> QED
    BY <1>8, <2>2, <2>3
<1>9. CASE CheckTimersRelease \/ SetTimerRelease
  <2>1. timerList' = timerList /\ life' = life /\ Running.pc \notin {"SetTimer", "SetTimer.remove"}
    BY <1>9 DEF CheckTimersRelease, SetTimerRelease, queues, At
  <2>2. Plain
    BY <1>9, <1>4 DEF CheckTimersRelease, SetTimerRelease, ReleaseTimerLock
  <2> QED
    BY <2>1, <2>2, <1>1, ClosePlain
<1> QED
  BY <1>5, <1>6, <1>7, <1>8, <1>9

\* An armed event is open.
LEMMA ArmedOpen ==
  ASSUME CloseInv
  PROVE  \A e \in Armed : life[e] = "open"
<1>1. ASSUME NEW a \in ToSet(stack), a.pc \in Arming PROVE life[a.ev] = "open"
  BY <1>1 DEF CloseInv, SetsOpen
<1> QED
  BY <1>1 DEF Armed, CloseInv

\* The code that holds mEfiTimerLock goes on as a and arms nothing but what is
\* armed.
HoldsOn(a) ==
  /\ a.pc \notin Closing
  /\ a.pc \in Arming \cup {"SetTimer.remove"} => a.ev \in Armed
  /\ ToSet(timerList') \subseteq Armed
  /\ Running.pc = "SetTimer.remove" => Running.ev \notin ToSet(timerList') /\ a.pc \notin Arming

LEMMA CloseHolding ==
  ASSUME EventInv, CloseInv, life' = life, Running.pc \in Holding,
         NEW a, HoldsOn(a), NEW f, f.pc \in {"SignalEvent", "RestoreTpl"},
         stack' = <<a>> \o Callers \/ stack' = <<f, a>> \o Callers
  PROVE  CloseInv'
<1>1. /\ StackOK /\ ToSet(stack) = {Running} \cup ToSet(Callers)
      /\ \A b : ToSet(<<b>> \o Callers) = {b} \cup ToSet(Callers)
      /\ \A b, c : ToSet(<<c, b>> \o Callers) = {b, c} \cup ToSet(Callers)
  BY Frames DEF EventInv
<1>0. /\ a.pc \notin Closing
      /\ a.pc \in Arming \cup {"SetTimer.remove"} => a.ev \in Armed
      /\ ToSet(timerList') \subseteq Armed
      /\ Running.pc = "SetTimer.remove" => Running.ev \notin ToSet(timerList') /\ a.pc \notin Arming
  BY DEF HoldsOn
<1>2. Running.pc \notin Helping /\ Running.pc # "Dispatch" /\ Running.pc # "SetTimer"
  BY DEF Helping, Restoring, Holding, Setting, Checking
<1>3. \A b \in ToSet(Callers) : b.pc \notin Holding
  BY <1>1, <1>2, NoHolderBelow
<1>4. \A b \in ToSet(Callers) : b.pc \notin Arming
  BY <1>3 DEF Arming, Holding, Setting, Checking
<1>5. \A pc \in {"SignalEvent", "RestoreTpl"} : pc \notin Marked /\ pc \notin Arming
  BY DEF Marked, Arming, Closing
<1>6. PICK N : /\ ToSet(stack') = N \cup ToSet(Callers)
               /\ \A b \in N : b = a \/ b.pc \notin Arming
  <2>1. CASE stack' = <<a>> \o Callers
    <3> DEFINE M == {a}
    <3>2. ToSet(stack') = M \cup ToSet(Callers) /\ \A b \in M : b = a \/ b.pc \notin Arming
      BY <2>1, <1>1
    <3> HIDE DEF M
    <3> QED
      BY <3>2
  <2>2. CASE stack' = <<f, a>> \o Callers
    <3> DEFINE M == {a, f}
    <3>2. ToSet(stack') = M \cup ToSet(Callers) /\ \A b \in M : b = a \/ b.pc \notin Arming
      BY <2>2, <1>1, <1>5
    <3> HIDE DEF M
    <3> QED
      BY <3>2
  <2> QED
    BY <2>1, <2>2
<1>7. Armed' \subseteq Armed
  <2>1. ToSet(stack') \subseteq N \cup ToSet(stack)
    BY <1>1, <1>6
  <2>2. \A b \in N : b.pc \in Arming => b.ev \in Armed
    BY <1>6, <1>0
  <2> QED
    BY <2>1, <2>2, <1>0, ArmedStep
<1>8. \A e \in Armed' : ~ Cancels(Running, e)
  <2>1. ASSUME NEW e \in Armed', Cancels(Running, e) PROVE FALSE
    <3>1. Running.pc = "SetTimer.remove" /\ e = Running.ev
      BY <1>2, <2>1 DEF Cancels
    <3>2. \A b \in ToSet(stack') : b.pc \notin Arming
      BY <3>1, <1>4, <1>6, <1>0
    <3>3. Armed' = ToSet(timerList')
      BY <3>2 DEF Armed
    <3> QED
      BY <3>1, <3>3, <1>0
  <2> QED
    BY <2>1
<1>9. SetsOpen(a)' /\ \A b \in ToSet(Callers) : SetsOpen(b)'
  <2>1. SetsOpen(a)
    BY <1>0, ArmedOpen DEF SetsOpen
  <2>2. \A b \in ToSet(Callers) : SetsOpen(b)
    BY <1>1 DEF CloseInv
  <2> QED
    BY <2>1, <2>2 DEF SetsOpen
<1>10. \A e \in ToSet(timerList') : life'[e] = "open"
  BY <1>0, ArmedOpen
<1>11. Takes(a)
  BY <1>0, <1>8, <1>9 DEF Takes, StaysOpen, SetsOpen
<1>12. Leaves
  BY <1>5, <1>11 DEF Leaves
<1>13. CancelledIn(stack, Armed')
  BY <1>7, CancelledFewer DEF CloseInv
<1> QED
  BY <1>1, <1>9, <1>10, <1>12, <1>13, CloseKept

LEMMA HoldingSteps ==
  ASSUME EventInv, CloseInv,
         \/ SetTimerRemove /\ Running.k = "cancel"
         \/ SetTimerTime \/ SetTimerInsert \/ CheckTimersScan \/ CheckTimersAgain
         \/ CheckTimersInsert
  PROVE  CloseInv'
<1>1. /\ StackOK /\ Running \in Activation /\ Fits(Running, tpl) /\ Relies(Running)
      /\ timerList \in Seq(Timers) /\ IsInjective(timerList)
  BY RunningFits, Frames DEF EventInv, ListTypes, AllRely
<1>2. life' = life
  BY DEF SetTimerRemove, SetTimerTime, SetTimerInsert, CheckTimersScan, CheckTimersAgain,
     CheckTimersInsert, queues
<1>3. Running.pc \in {"SetTimer.remove", "SetTimer.time", "SetTimer.insert", "CheckTimers.scan",
                      "CheckTimers.again", "CheckTimers.insert"}
  BY DEF SetTimerRemove, SetTimerTime, SetTimerInsert, CheckTimersScan, CheckTimersAgain,
     CheckTimersInsert, At
<1>4. Running.pc \in Holding
  BY <1>3 DEF Holding, Setting, Checking
<1>5. ToSet(timerList) \subseteq Armed /\ (Running.pc \in Arming => Running.ev \in Armed)
  BY <1>1, Frames DEF Armed
<1>6. \A pc \in {"SetTimer.release", "CheckTimers.scan", "CheckTimers.release"} :
        pc \notin Arming /\ pc # "SetTimer.remove" /\ pc \notin Closing
  BY DEF Arming, Closing
<1>7. \A pc \in {"SetTimer.insert", "CheckTimers.again", "CheckTimers.insert"} :
        pc \in Arming /\ pc # "SetTimer.remove" /\ pc \notin Closing
  BY DEF Arming, Closing
<1>8. \A e : Service("SignalEvent", e).pc = "SignalEvent"
  BY DEF Service, Act
<1>9. \A pc : [Running EXCEPT !.pc = pc].pc = pc /\ [Running EXCEPT !.pc = pc].ev = Running.ev
  BY <1>1 DEF Activation
<1> DEFINE g == RestoreTplTo(tpl)
<1>0. g.pc \in {"SignalEvent", "RestoreTpl"}
  BY DEF RestoreTplTo, Act
<1> HIDE DEF g
<1>10. Running.pc \in {"SetTimer.insert", "CheckTimers.insert"} =>
         Running.ev \in Timers /\ Running.ev \notin ToSet(timerList) /\ Running.ev \in Armed
  BY <1>1, <1>5 DEF Fits, AboutEvent, Setting, Relies, Arming
<1>11. CASE SetTimerRemove /\ Running.k = "cancel"
  <2> DEFINE a == [Running EXCEPT !.pc = "SetTimer.release"]
             r == RemoveFirst(timerList, Running.ev)
  <2>1. stack' = <<a>> \o Callers /\ timerList' = r
    BY <1>11 DEF SetTimerRemove, Goto, Continue
  <2>2. a.pc = "SetTimer.release"
    BY <1>9
  <2>3. ToSet(r) = ToSet(timerList) \ {Running.ev}
    BY <1>1, RemovedOnce
  <2> HIDE DEF a, r
  <2>9. HoldsOn(a)
    BY <1>5, <1>6, <2>1, <2>2, <2>3 DEF HoldsOn
  <2>10. stack' = <<a>> \o Callers \/ stack' = <<g, a>> \o Callers
    BY <2>1
  <2> QED
    BY <1>0, <1>2, <1>4, <2>9, <2>10, CloseHolding
<1>12. CASE SetTimerTime
  <2> DEFINE a == [Running EXCEPT !.pc = "SetTimer.insert"]
             f == RestoreTplTo(tpl)
  <2>1. stack' = <<f, a>> \o Callers /\ timerList' = timerList /\ Running.pc = "SetTimer.time"
    BY <1>12 DEF SetTimerTime, LockedThen, At
  <2>2. a.pc = "SetTimer.insert" /\ a.ev = Running.ev /\ f.pc = "RestoreTpl"
    BY <1>9 DEF RestoreTplTo, Act
  <2>3. Running.pc \in Arming
    BY <2>1 DEF Arming
  <2> HIDE DEF a, f
  <2>9. HoldsOn(a)
    BY <1>5, <1>7, <2>1, <2>2, <2>3 DEF HoldsOn
  <2>10. /\ f.pc \in {"SignalEvent", "RestoreTpl"}
         /\ stack' = <<a>> \o Callers \/ stack' = <<f, a>> \o Callers
    BY <2>1, <2>2
  <2> QED
    BY <1>2, <1>4, <2>9, <2>10, CloseHolding
<1>13. CASE SetTimerInsert
  <2> DEFINE a == [Running EXCEPT !.pc = "SetTimer.release"]
             f == Service("SignalEvent", CheckTimerEvent)
             r == CoreInsertEventTimer(timerList, Running.ev)
  <2>1. /\ Running.pc = "SetTimer.insert" /\ timerList' = r
        /\ stack' = <<a>> \o Callers \/ stack' = <<f, a>> \o Callers
    BY <1>13 DEF SetTimerInsert, At, CallThen, Continue
  <2>2. a.pc = "SetTimer.release" /\ f.pc = "SignalEvent"
    BY <1>8, <1>9
  <2>3. ToSet(r) = ToSet(timerList) \cup {Running.ev}
    BY <1>1, <1>10, <2>1, InsertTimer
  <2> HIDE DEF a, f, r
  <2>4. ToSet(timerList') \subseteq Armed
    BY <1>5, <1>10, <2>1, <2>3
  <2>9. HoldsOn(a)
    BY <1>6, <2>1, <2>2, <2>4 DEF HoldsOn
  <2>10. /\ f.pc \in {"SignalEvent", "RestoreTpl"}
         /\ stack' = <<a>> \o Callers \/ stack' = <<f, a>> \o Callers
    BY <2>1, <2>2
  <2> QED
    BY <1>2, <1>4, <2>9, <2>10, CloseHolding
<1>14. CASE CheckTimersInsert
  <2> DEFINE a == [Running EXCEPT !.pc = "CheckTimers.scan"]
             r == CoreInsertEventTimer(timerList, Running.ev)
  <2>1. Running.pc = "CheckTimers.insert" /\ timerList' = r /\ stack' = <<a>> \o Callers
    BY <1>14 DEF CheckTimersInsert, At, Goto, Continue
  <2>2. a.pc = "CheckTimers.scan"
    BY <1>9
  <2>3. ToSet(r) = ToSet(timerList) \cup {Running.ev}
    BY <1>1, <1>10, <2>1, InsertTimer
  <2> HIDE DEF a, r
  <2>4. ToSet(timerList') \subseteq Armed
    BY <1>5, <1>10, <2>1, <2>3
  <2>9. HoldsOn(a)
    BY <1>6, <2>1, <2>2, <2>4 DEF HoldsOn
  <2>10. stack' = <<a>> \o Callers \/ stack' = <<g, a>> \o Callers
    BY <2>1
  <2> QED
    BY <1>0, <1>2, <1>4, <2>9, <2>10, CloseHolding
<1>15. CASE CheckTimersScan /\ HeadExpired(Running.x)
  <2> DEFINE a == [Running EXCEPT !.pc = "CheckTimers.again", !.ev = Head(timerList)]
             f == Service("SignalEvent", Head(timerList))
             r == Tail(timerList)
  <2>1. /\ timerList # <<>> /\ timerList' = r /\ stack' = <<f, a>> \o Callers
        /\ Running.pc = "CheckTimers.scan"
    BY <1>15 DEF CheckTimersScan, HeadExpired, CallThen, At
  <2>2. a.pc = "CheckTimers.again" /\ a.ev = Head(timerList) /\ f.pc = "SignalEvent"
    BY <1>1, <1>8 DEF Activation
  <2>3. ToSet(r) = ToSet(timerList) \ {Head(timerList)}
    BY <1>1, <2>1, TailOnce
  <2>4. Head(timerList) \in ToSet(timerList)
    <3>1. DOMAIN timerList = 1 .. Len(timerList) /\ Len(timerList) \in Nat \ {0}
          /\ Head(timerList) = timerList[1]
      BY <1>1, <2>1
    <3>2. 1 \in DOMAIN timerList
      BY <3>1
    <3> QED
      BY <3>1, <3>2 DEF ToSet
  <2> HIDE DEF a, f, r
  <2>5. ToSet(timerList') \subseteq Armed /\ a.ev \in Armed
    BY <1>5, <2>1, <2>2, <2>3, <2>4
  <2>9. HoldsOn(a)
    BY <1>7, <2>1, <2>2, <2>5 DEF HoldsOn
  <2>10. /\ f.pc \in {"SignalEvent", "RestoreTpl"}
         /\ stack' = <<a>> \o Callers \/ stack' = <<f, a>> \o Callers
    BY <2>1, <2>2
  <2> QED
    BY <1>2, <1>4, <2>9, <2>10, CloseHolding
<1>16. CASE CheckTimersScan /\ ~HeadExpired(Running.x)
  <2> DEFINE a == [Running EXCEPT !.pc = "CheckTimers.release"]
  <2>1. timerList' = timerList /\ stack' = <<a>> \o Callers /\ Running.pc = "CheckTimers.scan"
    BY <1>16 DEF CheckTimersScan, Goto, Continue, At
  <2>2. a.pc = "CheckTimers.release"
    BY <1>9
  <2> HIDE DEF a
  <2>9. HoldsOn(a)
    BY <1>5, <1>6, <2>1, <2>2 DEF HoldsOn
  <2>10. stack' = <<a>> \o Callers \/ stack' = <<g, a>> \o Callers
    BY <2>1
  <2> QED
    BY <1>0, <1>2, <1>4, <2>9, <2>10, CloseHolding
<1>17. CASE CheckTimersAgain
  <2> DEFINE a == [Running EXCEPT !.pc = "CheckTimers.insert"]
             b == [Running EXCEPT !.pc = "CheckTimers.scan"]
             f == Service("SignalEvent", CheckTimerEvent)
  <2>1. /\ timerList' = timerList /\ Running.pc = "CheckTimers.again"
        /\ \/ stack' = <<b>> \o Callers \/ stack' = <<a>> \o Callers
           \/ stack' = <<f, a>> \o Callers
    BY <1>17 DEF CheckTimersAgain, Goto, Continue, CallThen, At
  <2>2. /\ a.pc = "CheckTimers.insert" /\ a.ev = Running.ev /\ b.pc = "CheckTimers.scan"
        /\ f.pc = "SignalEvent"
    BY <1>8, <1>9
  <2>3. Running.ev \in Armed
    BY <1>5, <2>1 DEF Arming
  <2> HIDE DEF a, b, f
  <2>4. CASE stack' = <<b>> \o Callers
    <3>1. HoldsOn(b)
      BY <1>5, <1>6, <2>1, <2>2 DEF HoldsOn
    <3>2. stack' = <<b>> \o Callers \/ stack' = <<g, b>> \o Callers
      BY <2>4
    <3> QED
      BY <1>0, <1>2, <1>4, <3>1, <3>2, CloseHolding
  <2>5. CASE stack' = <<a>> \o Callers \/ stack' = <<f, a>> \o Callers
    <3>1. HoldsOn(a)
      BY <1>5, <1>7, <2>1, <2>2, <2>3 DEF HoldsOn
    <3>2. f.pc \in {"SignalEvent", "RestoreTpl"}
      BY <2>2
    <3> QED
      BY <1>2, <1>4, <2>5, <3>1, <3>2, CloseHolding
  <2> QED
    BY <2>1, <2>4, <2>5
<1> QED
  BY <1>11, <1>12, <1>13, <1>14, <1>15, <1>16, <1>17

\* CoreSetTimer takes mEfiTimerLock, or finds that the event is closed.
LEMMA SetTimerCloses ==
  ASSUME EventInv, CloseInv, SetTimer
  PROVE  CloseInv'
<1> DEFINE a == [Running EXCEPT !.pc = "SetTimer.remove", !.tpl = tpl]
<1>1. /\ StackOK /\ Running \in Activation /\ ToSet(stack) = {Running} \cup ToSet(Callers)
      /\ ToSet(<<a>> \o Callers) = {a} \cup ToSet(Callers)
  BY RunningFits, Frames DEF EventInv
<1>2. /\ Running.pc = "SetTimer" /\ timerList' = timerList /\ life' = life
      /\ \/ life[Running.ev] # "open" /\ stack' = Callers
         \/ life[Running.ev] = "open" /\ stack' = <<a>> \o Callers
  BY DEF SetTimer, At, ReturnNow, Continue, queues
<1>3. a.pc = "SetTimer.remove" /\ a.ev = Running.ev /\ a.k = Running.k
  BY <1>1 DEF Activation
<1> HIDE DEF a
<1> DEFINE N == {a}
<1>4. ToSet(stack') \subseteq N \cup ToSet(stack)
  BY <1>1, <1>2
<1>5. \A b \in N : b.pc \in Arming => b.ev \in Armed
  BY <1>3 DEF Arming
<1> HIDE DEF N
<1>6. ToSet(timerList') \subseteq Armed
  BY <1>2 DEF Armed
<1>7. Armed' \subseteq Armed
  BY <1>4, <1>5, <1>6, ArmedStep
<1>8. CancelledIn(stack, Armed')
  BY <1>7, CancelledFewer DEF CloseInv
<1>9. \A b \in ToSet(Callers) : SetsOpen(b)'
  BY <1>1, <1>2 DEF CloseInv, SetsOpen
<1>10. \A e \in ToSet(timerList') : life'[e] = "open"
  BY <1>2 DEF CloseInv
<1>11. Leaves
  <2>1. CASE life[Running.ev] # "open" /\ stack' = Callers
    <3>1. Running.ev \notin Armed
      BY <2>1, ArmedOpen
    <3> QED
      BY <2>1, <3>1, <1>7 DEF Leaves, Cancels
  <2>2. CASE life[Running.ev] = "open" /\ stack' = <<a>> \o Callers
    <3>1. StaysOpen(a)
      BY <2>2, <1>2, <1>3 DEF StaysOpen
    <3>2. \A e : Cancels(Running, e) => Cancels(a, e)
      BY <1>3 DEF Cancels
    <3>3. a.pc \notin Closing
      BY <1>3 DEF Closing
    <3>4. Takes(a)
      BY <3>1, <3>2, <3>3 DEF Takes
    <3> QED
      BY <2>2, <3>4 DEF Leaves
  <2> QED
    BY <1>2, <2>1, <2>2
<1> QED
  BY <1>1, <1>8, <1>9, <1>10, <1>11, CloseKept

\* CoreSetTimer sets the timer of an event that nobody is closing.
LEMMA SetTimerArms ==
  ASSUME EventInv, CloseInv, NotSetWhileClosing, SetTimerRemove, Running.k # "cancel"
  PROVE  CloseInv'
<1> DEFINE a == [Running EXCEPT !.pc = "SetTimer.time"]
           r == RemoveFirst(timerList, Running.ev)
<1>1. /\ StackOK /\ Running \in Activation /\ ToSet(stack) = {Running} \cup ToSet(Callers)
      /\ ToSet(<<a>> \o Callers) = {a} \cup ToSet(Callers)
      /\ timerList \in Seq(Timers) /\ IsInjective(timerList)
  BY RunningFits, Frames DEF EventInv, ListTypes
<1>2. /\ Running.pc = "SetTimer.remove" /\ timerList' = r /\ life' = life
      /\ stack' = <<a>> \o Callers
  BY DEF SetTimerRemove, At, Goto, Continue, queues
<1>3. a.pc = "SetTimer.time" /\ a.ev = Running.ev
  BY <1>1 DEF Activation
<1>4. ToSet(r) = ToSet(timerList) \ {Running.ev}
  BY <1>1, RemovedOnce
<1> HIDE DEF a, r
<1> DEFINE B == Armed \cup {Running.ev}
<1>5. Armed' \subseteq B
  <2>1. ASSUME NEW b \in ToSet(stack'), b.pc \in Arming PROVE b.ev \in B
    BY <2>1, <1>1, <1>2, <1>3 DEF Armed
  <2>2. ToSet(timerList') \subseteq B
    BY <1>2, <1>4 DEF Armed
  <2> HIDE DEF B
  <2> QED
    BY <2>1, <2>2 DEF Armed
<1>6. CancelledIn(stack, B)
  <2>1. /\ Callers \in Seq(Activation) /\ Len(stack) \in Nat \ {0} /\ Len(Callers) = Len(stack) - 1
        /\ \A i \in 1 .. Len(stack) - 1 : Callers[i] = stack[i + 1]
    BY <1>1, RunningFits
  <2>2. ASSUME NEW j \in 1 .. Len(stack), stack[j].pc \in Closing PROVE stack[j].ev # Running.ev
    <3>1. j # 1
      BY <2>2, <1>2 DEF Running, Closing
    <3>2. j - 1 \in 1 .. Len(stack) - 1 /\ (j - 1) + 1 = j /\ DOMAIN Callers = 1 .. Len(stack) - 1
      BY <2>1, <3>1
    <3>3. stack[j] = Callers[j - 1]
      BY <2>1, <3>2
    <3>4. stack[j] \in ToSet(Callers)
      BY <3>2, <3>3 DEF ToSet
    <3> QED
      BY <2>2, <3>4, <1>2 DEF NotSetWhileClosing, At
  <2>3. CancelledIn(stack, Armed)
    BY DEF CloseInv
  <2> QED
    BY <2>2, <2>3 DEF CancelledIn
<1>7. CancelledIn(stack, Armed')
  BY <1>5, <1>6, CancelledFewer
<1>8. life[Running.ev] = "open" /\ \A b \in ToSet(Callers) : SetsOpen(b)
  BY <1>1, <1>2 DEF CloseInv, SetsOpen
<1>9. \A b \in ToSet(Callers) : SetsOpen(b)'
  BY <1>2, <1>8 DEF SetsOpen
<1>10. \A e \in ToSet(timerList') : life'[e] = "open"
  BY <1>2, <1>4 DEF CloseInv
<1>11. Leaves
  <2>1. StaysOpen(a)
    BY <1>2, <1>3, <1>8 DEF StaysOpen
  <2>2. \A e : ~ Cancels(Running, e)
    BY DEF Cancels
  <2>3. a.pc \notin Closing
    BY <1>3 DEF Closing
  <2>4. Takes(a)
    BY <2>1, <2>2, <2>3 DEF Takes
  <2> QED
    BY <1>2, <2>4 DEF Leaves
<1> QED
  BY <1>1, <1>7, <1>9, <1>10, <1>11, CloseKept

\* CoreTimerTick interrupts whatever was running, which goes on as it was.
LEMMA TickCloses ==
  ASSUME EventInv, CloseInv, CoreTimerTick
  PROVE  CloseInv'
<1> DEFINE a == IF At("Asleep") THEN [Running EXCEPT !.pc = "CheckEvent"] ELSE Running
           f == Service("Iret", CheckTimerEvent)
           g == RestoreTplTo(tpl)
           T == Activation \cup {a, f, g}
           s == <<a>> \o Callers
           t == <<f>> \o s
<1>1. Running \in Activation /\ Callers \in Seq(Activation) /\ StackOK
  BY RunningFits DEF EventInv
<1>2. stack' = <<g, f, a>> \o Callers /\ timerList' = timerList /\ life' = life
  BY DEF CoreTimerTick
<1>3. g.pc = "RestoreTpl" /\ f.pc = "Iret"
  BY DEF RestoreTplTo, Service, Act
<1>4. a = Running \/ (Running.pc = "Asleep" /\ a.pc = "CheckEvent")
  BY <1>1 DEF At, Activation
<1> HIDE DEF a, f, g
<1>5. ToSet(stack') = {a, f, g} \cup ToSet(Callers) /\ ToSet(stack) = {Running} \cup ToSet(Callers)
  BY <1>1, <1>2, Frames
<1>6. /\ g.pc \notin Marked /\ f.pc \notin Marked
      /\ a = Running \/ (a.pc \notin Marked /\ Running.pc \notin Marked /\ Running.pc # "SetTimer")
  BY <1>3, <1>4 DEF Marked, Arming, Closing
<1> DEFINE N == {a, f, g}
<1>7. ToSet(stack') \subseteq N \cup ToSet(stack)
  BY <1>5
<1>8. \A b \in N : b.pc \in Arming => b.ev \in Armed
  BY <1>5, <1>6 DEF Marked, Armed
<1> HIDE DEF N
<1>9. ToSet(timerList') \subseteq Armed
  BY <1>2 DEF Armed
<1>10. Armed' \subseteq Armed
  BY <1>7, <1>8, <1>9, ArmedStep
<1> DEFINE B == Armed'
<1>11. CancelledIn(stack, B) /\ (Running.pc \in Closing => Running.ev \notin B)
  <2>1. CancelledIn(stack, B)
    BY <1>10, CancelledFewer DEF CloseInv
  <2> HIDE DEF B
  <2>3. Running.pc \in Closing => Running.ev \notin B
    BY <1>1, <2>1, TopUncancelled
  <2> QED
    BY <2>1, <2>3
<1> HIDE DEF B
<1>12. CancelledIn(s, B)
  <2>1. \A e \in B : Cancels(Running, e) => Cancels(a, e)
    BY <1>6 DEF Cancels, Marked
  <2>2. a.pc \in Closing => a.ev \notin B
    BY <1>6, <1>11 DEF Marked
  <2> QED
    BY <1>1, <1>11, <2>1, <2>2, CancelledFrame
<1>13. Callers \in Seq(T) /\ a \in T /\ f \in T /\ g \in T
  BY <1>1
<1> HIDE DEF T
<1>14. s \in Seq(T) /\ <<g, f, a>> \o Callers = <<g>> \o t
  BY <1>13, OnTop, ThreeOnTop
<1> HIDE DEF s
<1>15. t \in Seq(T) /\ CancelledIn(t, B)
  <2>1. f.pc \notin Closing
    BY <1>6 DEF Marked
  <2>2. CancelledIn(<<f>> \o s, B)
    BY <2>1, <1>12, <1>14, CancelledPush
  <2> QED
    BY <2>2, <1>13, <1>14, OnTop
<1> HIDE DEF t
<1>16. CancelledIn(stack', B)
  <2>1. g.pc \notin Closing
    BY <1>6 DEF Marked
  <2>2. CancelledIn(<<g>> \o t, B)
    BY <2>1, <1>15, CancelledPush
  <2> QED
    BY <2>2, <1>2, <1>14
<1>17. ASSUME NEW b \in ToSet(stack') PROVE SetsOpen(b)'
  <2>1. SetsOpen(b)
    BY <1>5, <1>6, <1>17 DEF CloseInv, SetsOpen, Marked
  <2> QED
    BY <2>1, <1>2 DEF SetsOpen
<1>18. \A e \in ToSet(timerList') : life'[e] = "open"
  BY <1>2 DEF CloseInv
<1> QED
  BY <1>16, <1>17, <1>18 DEF CloseInv, CancelledIn, Cancels, B

\* CoreCloseEvent cancels the timer first, and then unlinks and frees an event
\* that nothing arms any more.
LEMMA CloseSteps ==
  ASSUME EventInv, CloseInv, CloseEvent \/ CloseEventUnlink \/ CloseEventFree
  PROVE  CloseInv'
<1>1. /\ StackOK /\ Running \in Activation /\ ToSet(stack) = {Running} \cup ToSet(Callers)
      /\ \A a : ToSet(<<a>> \o Callers) = {a} \cup ToSet(Callers)
      /\ \A a, b : ToSet(<<b, a>> \o Callers) = {a, b} \cup ToSet(Callers)
      /\ Callers \in Seq(Activation) /\ timerList \in Seq(Timers)
  BY RunningFits, Frames DEF EventInv, ListTypes
<1>2. timerList' = timerList /\ Running.pc \in {"CloseEvent", "CloseEvent.unlink", "CloseEvent.free"}
  BY DEF CloseEvent, CloseEventUnlink, CloseEventFree, clocks, At
<1>3. /\ \A e : ~ Cancels(Running, e)
      /\ Running.pc \in Closing => Running.ev \notin Armed
  <2>2. Running.pc \in Closing => Running.ev \notin Armed
    BY <1>1, TopUncancelled DEF CloseInv
  <2>3. \A e : ~ Cancels(Running, e)
    BY <1>2 DEF Cancels
  <2> QED
    BY <2>2, <2>3
<1>4. ToSet(timerList') \subseteq Armed /\ ToSet(timerList') = ToSet(timerList)
  BY <1>2 DEF Armed
<1>5. ASSUME NEW N, ToSet(stack') \subseteq N \cup ToSet(stack), \A b \in N : b.pc \notin Arming
      PROVE  Armed' \subseteq Armed /\ CancelledIn(stack, Armed')
  <2>1. Armed' \subseteq Armed
    BY <1>4, <1>5, ArmedStep
  <2> QED
    BY <2>1, CancelledFewer DEF CloseInv
<1>6. \A pc \in {"CloseEvent.unlink", "CloseEvent.free", "SetTimer", "RestoreTpl"} :
        pc \notin Arming /\ pc # "SetTimer.remove"
  BY DEF Arming
<1>7. ASSUME life' = life
      PROVE  /\ \A b \in ToSet(Callers) : SetsOpen(b)'
             /\ \A e \in ToSet(timerList') : life'[e] = "open"
  <2>1. \A b \in ToSet(Callers) : SetsOpen(b)'
    BY <1>1, <1>7 DEF CloseInv, SetsOpen
  <2> QED
    BY <2>1, <1>4, <1>7 DEF CloseInv
<1>8. \A pc : [Running EXCEPT !.pc = pc].pc = pc /\ [Running EXCEPT !.pc = pc].ev = Running.ev
              /\ (pc \in Labels => [Running EXCEPT !.pc = pc] \in Activation)
  BY <1>1 DEF Activation
<1>9. CASE CloseEvent
  <2> DEFINE a == [Running EXCEPT !.pc = "CloseEvent.unlink"]
             f == SetTimerCall(Running.ev, "cancel", 0)
  <2>1. /\ life' = life
        /\ \/ stack' = Callers
           \/ Running.ev \in Timers /\ stack' = <<f, a>> \o Callers
           \/ Running.ev \notin Timers /\ stack' = <<a>> \o Callers
    BY <1>9 DEF CloseEvent, ReturnNow, CallThen, Continue, queues
  <2>2. a.pc = "CloseEvent.unlink" /\ a.ev = Running.ev /\ a \in Activation
    BY <1>8 DEF Labels
  <2>3. f.pc = "SetTimer" /\ f.ev = Running.ev /\ f.k = "cancel"
    BY DEF SetTimerCall, Act
  <2>4. f \in Activation
    <3>1. Running.ev \in AllEvents
      BY <1>1 DEF Activation
    <3> QED
      BY <3>1 DEF SetTimerCall, Act, Activation, Labels
  <2> HIDE DEF a, f
  <2>5. CASE stack' = Callers
    <3> DEFINE N == {}
    <3>1. ToSet(stack') \subseteq N \cup ToSet(stack) /\ \A b \in N : b.pc \notin Arming
      BY <2>5, <1>1
    <3> HIDE DEF N
    <3>2. CancelledIn(stack, Armed')
      BY <3>1, <1>5
    <3>3. Leaves
      BY <2>5, <1>3 DEF Leaves
    <3> QED
      BY <3>2, <3>3, <2>1, <1>1, <1>7, CloseKept
  <2>6. CASE Running.ev \notin Timers /\ stack' = <<a>> \o Callers
    <3> DEFINE N == {a}
    <3>1. ToSet(stack') \subseteq N \cup ToSet(stack) /\ \A b \in N : b.pc \notin Arming
      BY <2>2, <2>6, <1>1, <1>6
    <3> HIDE DEF N
    <3>2. Armed' \subseteq Armed /\ CancelledIn(stack, Armed')
      BY <3>1, <1>5
    <3>3. Running.ev \notin Armed
      <4>1. ToSet(timerList) \subseteq Timers
        BY <1>1 DEF ToSet
      <4>2. ASSUME NEW b \in ToSet(stack), b.pc \in Arming PROVE b.ev \in Timers
        <5>1. PICK lv \in Seq(Nat) : Nested(stack, lv)
          BY <1>1 DEF StackOK
        <5>2. PICK i \in DOMAIN stack : stack[i] = b
          BY <4>2 DEF ToSet
        <5>3. DOMAIN stack = 1 .. Len(stack)
          BY <5>1 DEF Nested
        <5>4. Fits(b, lv[i])
          BY <5>1, <5>2, <5>3 DEF Nested
        <5>5. b.pc \in Setting \cup {"SetTimer", "CheckTimers.again", "CheckTimers.insert"}
          BY <4>2 DEF Arming, Setting
        <5> QED
          BY <5>4, <5>5 DEF Fits, AboutEvent
      <4> QED
        BY <2>6, <4>1, <4>2 DEF Armed
    <3>4. Takes(a)
      <4>1. StaysOpen(a)
        BY <2>2, <1>6 DEF StaysOpen
      <4> QED
        BY <4>1, <3>2, <3>3, <2>2, <1>3 DEF Takes
    <3>5. Leaves
      BY <2>6, <3>4 DEF Leaves
    <3> QED
      BY <3>2, <3>5, <2>1, <1>1, <1>7, CloseKept
  <2>7. CASE Running.ev \in Timers /\ stack' = <<f, a>> \o Callers
    <3> DEFINE N == {f, a}
               B == Armed'
    <3>1. ToSet(stack') \subseteq N \cup ToSet(stack) /\ \A b \in N : b.pc \notin Arming
      BY <2>2, <2>3, <2>7, <1>1, <1>6
    <3>2. \A b \in ToSet(stack') : b \in N \/ b \in ToSet(Callers)
      BY <2>7, <1>1
    <3>3. \A b \in N : SetsOpen(b)'
      BY <2>2, <2>3, <1>6 DEF SetsOpen
    <3> HIDE DEF N
    <3>4. CancelledIn(stack, B)
      BY <3>1, <1>5
    <3> HIDE DEF B
    <3>5. CancelledIn(Callers, B)
      BY <3>4, <1>1, <1>3, CancelledPop
    <3>6. Cancels(f, a.ev) /\ f.pc \notin Closing
      BY <2>2, <2>3 DEF Cancels, Closing
    <3>7. CancelledIn(<<f>> \o (<<a>> \o Callers), B)
      BY <1>1, <2>2, <2>4, <3>5, <3>6, CancelledClose
    <3>8. stack' = <<f>> \o (<<a>> \o Callers)
      BY <1>1, <2>2, <2>4, <2>7, TwoOnTop
    <3>9. \A b \in ToSet(stack') : SetsOpen(b)'
      BY <3>2, <3>3, <2>1, <1>7
    <3>10. \A e \in ToSet(timerList') : life'[e] = "open"
      BY <2>1, <1>7
    <3>11. CancelledIn(stack', B)
      BY <3>7, <3>8
    <3> QED
      BY <3>9, <3>10, <3>11 DEF CloseInv, CancelledIn, Cancels, B
  <2> QED
    BY <2>1, <2>5, <2>6, <2>7
<1>10. CASE CloseEventUnlink
  <2> DEFINE a == [Running EXCEPT !.pc = "CloseEvent.free"]
             f == RestoreTplTo(tpl)
  <2>1. life' = life /\ Running.pc = "CloseEvent.unlink" /\ stack' = <<f, a>> \o Callers
    BY <1>10 DEF CloseEventUnlink, LockedThen, At
  <2>2. a.pc = "CloseEvent.free" /\ a.ev = Running.ev /\ f.pc = "RestoreTpl"
    BY <1>8 DEF RestoreTplTo, Act
  <2> HIDE DEF a, f
  <2> DEFINE N == {f, a}
  <2>3. ToSet(stack') \subseteq N \cup ToSet(stack) /\ \A b \in N : b.pc \notin Arming
    BY <2>1, <2>2, <1>1, <1>6
  <2> HIDE DEF N
  <2>4. Armed' \subseteq Armed /\ CancelledIn(stack, Armed')
    BY <2>3, <1>5
  <2>5. Running.ev \notin Armed
    BY <2>1, <1>3 DEF Closing
  <2>6. Takes(a)
    <3>1. StaysOpen(a)
      BY <2>2, <1>6 DEF StaysOpen
    <3> QED
      BY <3>1, <2>2, <2>4, <2>5, <1>3 DEF Takes
  <2>7. f.pc \notin Marked
    BY <2>2 DEF Marked, Arming, Closing
  <2>8. Leaves
    BY <2>1, <2>6, <2>7 DEF Leaves
  <2> QED
    BY <2>1, <2>4, <2>8, <1>1, <1>7, CloseKept
<1>11. CASE CloseEventFree
  <2>1. /\ life' = [life EXCEPT ![Running.ev] = "closed"] /\ Running.pc = "CloseEvent.free"
        /\ stack' = Callers
    BY <1>11 DEF CloseEventFree, ReturnNow, At
  <2> DEFINE N == {}
  <2>2. ToSet(stack') \subseteq N \cup ToSet(stack) /\ \A b \in N : b.pc \notin Arming
    BY <2>1, <1>1
  <2> HIDE DEF N
  <2>3. CancelledIn(stack, Armed')
    BY <2>2, <1>5
  <2>4. Running.ev \notin Armed /\ Running.ev \in AllEvents
    BY <2>1, <1>1, <1>3 DEF Closing, Activation
  <2>5. life \in [AllEvents -> {"new", "open", "closed"}]
    BY DEF EventInv, ListTypes
  <2>6. \A e \in ToSet(timerList') : life'[e] = "open"
    <3>1. ToSet(timerList) \subseteq AllEvents
      BY <1>1, EventsAssumption DEF ToSet, AllEvents
    <3>2. \A e \in ToSet(timerList) : e \in AllEvents /\ life[e] = "open" /\ e # Running.ev
      BY <3>1, <1>4, <2>4 DEF CloseInv
    <3> QED
      BY <3>2, <2>1, <2>5, <1>4
  <2>7. \A b \in ToSet(Callers) : SetsOpen(b)'
    <3>1. Running.pc \notin Helping /\ Running.pc # "Dispatch"
      BY <2>1 DEF Helping, Restoring
    <3>2. \A b \in ToSet(Callers) : b.pc \notin Holding
      BY <1>1, <3>1, NoHolderBelow
    <3> QED
      BY <3>2 DEF SetsOpen, Holding, Setting, Checking, Arming
  <2>8. Leaves
    BY <2>1, <1>3 DEF Leaves
  <2> QED
    BY <1>1, <2>3, <2>6, <2>7, <2>8, CloseKept
<1> QED
  BY <1>9, <1>10, <1>11

LEMMA CloseStep ==
  ASSUME EventInv, CloseInv, NotSetWhileClosing, Next
  PROVE  CloseInv'
<1>1. CASE \/ RestoreTplTest \/ RestoreTplRead \/ RestoreTplDispatch \/ RestoreTplSet
           \/ DispatchTake \/ DispatchDone \/ DispatchNotify
           \/ SignalEvent \/ SignalListLock \/ SignalListNext \/ SignalListUnlock
           \/ SignalEventEnd \/ CheckEvent \/ CheckEventTake \/ WaitForEvent
  BY <1>1, PlainSteps
<1>2. CASE \/ CreateEvent \/ RaiseTpl \/ RestoreTpl \/ NotifyReturns \/ Iret \/ CodeCalls
           \/ CheckTimers \/ CheckTimersTime \/ CheckTimersRelease \/ SetTimerRelease
  BY <1>2, OtherPlainSteps
<1>3. CASE \/ SetTimerRemove /\ Running.k = "cancel"
           \/ SetTimerTime \/ SetTimerInsert \/ CheckTimersScan \/ CheckTimersAgain
           \/ CheckTimersInsert
  BY <1>3, HoldingSteps
<1>4. CASE SetTimerRemove /\ Running.k # "cancel"
  BY <1>4, SetTimerArms
<1>5. CASE SetTimer
  BY <1>5, SetTimerCloses
<1>6. CASE CloseEvent \/ CloseEventUnlink \/ CloseEventFree
  BY <1>6, CloseSteps
<1>7. CASE CoreTimerTick
  BY <1>7, TickCloses
<1> QED
  BY <1>1, <1>2, <1>3, <1>4, <1>5, <1>6, <1>7 DEF Next, CoreStep

\* CoreCloseEvent leaves no way to an event that it has freed, neither its
\* group nor mEfiTimerList, if no notification function sets the timer of an
\* event while CoreCloseEvent, which it interrupts, is closing that event.
THEOREM ClosedIsUnlinked == Spec /\ []NotSetWhileClosing => []ClosedUnlinked
<1>1. Init => CloseInv
  <2> SUFFICES ASSUME Init PROVE CloseInv
    OBVIOUS
  <2>1. timerList = <<>> /\ stack = <<Service("Boot", CheckTimerEvent)>>
    BY DEF Init
  <2> DEFINE b == Service("Boot", CheckTimerEvent)
  <2>2. b.pc = "Boot"
    BY DEF Service, Act
  <2>3. b.pc \notin Closing /\ b.pc \notin Arming /\ b.pc # "SetTimer.remove"
    BY <2>2 DEF Closing, Arming
  <2> HIDE DEF b
  <2>4. stack = <<b>>
    BY <2>1 DEF b
  <2>5. ToSet(timerList) = {} /\ ToSet(stack) = {b} /\ Len(stack) = 1 /\ stack[1] = b
    BY <2>1, <2>4 DEF ToSet
  <2> QED
    BY <2>3, <2>5 DEF CloseInv, SetsOpen, CancelledIn
<1>2. EventInv /\ CloseInv /\ NotSetWhileClosing /\ [Next]_vars => CloseInv'
  <2>1. CASE UNCHANGED vars
    BY <2>1 DEF vars, queues, clocks, CloseInv, SetsOpen, CancelledIn, Cancels, Armed
  <2> QED
    BY <2>1, CloseStep
<1>3. EventInv /\ CloseInv => ClosedUnlinked
  BY DEF EventInv, ListTypes, CloseInv, ClosedUnlinked
<1> QED
  BY <1>1, <1>2, <1>3, EventInvariant, PTL DEF Spec

=============================================================================
