------------------------------ MODULE DxeEvent ------------------------------
(***************************************************************************)
(* Events, timers and task priority levels of the DXE core                 *)
(* (MdeModulePkg/Core/Dxe/Event and the locks of Library/Library.c).       *)
(*                                                                         *)
(* There is one processor.  Its concurrency is the timer interrupt, which  *)
(* may come between any two instructions while interrupts are enabled, and *)
(* the notification functions that lowering the TPL dispatches on top of   *)
(* whatever was running.  So the state has one stack of activations, of    *)
(* which the first runs; a step is what the code does between two places   *)
(* where an interrupt can change what it sees.  What runs with interrupts  *)
(* disabled, that is at TPL_HIGH_LEVEL, is one step.                       *)
(***************************************************************************)
EXTENDS Integers, Sequences, FiniteSets, FiniteSetsExt, SequencesExt

CONSTANTS
  Events,       (* the events drivers create                               *)
  Kind,         (* [Events -> {"signal", "wait", "plain"}]: EVT_NOTIFY_... *)
  Timers,       (* the events of type EVT_TIMER                            *)
  NotifyTpl,    (* [Events -> TPL]                                         *)
  EventGroup,   (* [Events -> a group or NoGroup]                          *)
  NoGroup,
  Created,      (* the events that exist at the start                      *)
  Boots,        (* service calls of the code that runs at TPL_APPLICATION  *)
  Notifies,     (* [Events -> service calls of the notification function]  *)
  MaxTime,      (* bound: the system time saturates here                   *)
  MaxNesting    (* bound: timer interrupts taken inside one another        *)

TPL_APPLICATION == 4
TPL_HIGH_LEVEL  == 31

\* mEfiCheckTimerEvent, the core's own event, and its level.
CheckTimerEvent == "CheckTimerEvent"
CheckTimerTpl   == TPL_HIGH_LEVEL - 1

AllEvents == Events \cup {CheckTimerEvent}
Tpl  == [e \in AllEvents |-> IF e \in Events THEN NotifyTpl[e] ELSE CheckTimerTpl]
Type == [e \in AllEvents |-> IF e \in Events THEN Kind[e] ELSE "signal"]
Group == [e \in AllEvents |-> IF e \in Events THEN EventGroup[e] ELSE NoGroup]

\* The levels that have a queue, and (UINTN)-1, which is above all of them.
Levels   == {Tpl[e] : e \in {e \in AllEvents : Type[e] # "plain"}}
MinusOne == 64

\* CoreCreateEventInternal refuses any other notification level.
ASSUME TplAssumption ==
  NotifyTpl \in [Events -> TPL_APPLICATION + 1 .. TPL_HIGH_LEVEL - 1]
ASSUME KindAssumption == Kind \in [Events -> {"signal", "wait", "plain"}]
ASSUME EventsAssumption ==
  /\ IsFiniteSet(Events) /\ Events \cap {CheckTimerEvent} = {}
  /\ Timers \subseteq Events /\ Created \subseteq Events
ASSUME BoundsAssumption == MaxTime \in Nat /\ MaxNesting \in Nat

(***************************************************************************)
(* An activation: where it is, the event it is about, the TPL it saved, a  *)
(* number and a tag.  A service call is the activation it starts.          *)
(***************************************************************************)
Act(pc, ev, tpl, k, x) == [pc |-> pc, ev |-> ev, tpl |-> tpl, k |-> k, x |-> x]
Service(name, ev)      == Act(name, ev, 0, "", 0)
SetTimerCall(ev, type, delay) == Act("SetTimer", ev, 0, type, delay)

\* The calls that drivers make.  CoreSetTimer refuses an event that is no
\* timer, and takes the period of the timer interrupt for a period of 0.
ServiceCalls ==
  [pc : {"CreateEvent", "SignalEvent", "CloseEvent"}, ev : Events, tpl : {0}, k : {""}, x : {0}]
    \cup [pc : {"CheckEvent"}, ev : Events, tpl : {0}, k : {"", "wait"}, x : {0}]
    \cup [pc : {"SetTimer"}, ev : Timers, tpl : {0}, k : {"cancel", "relative"}, x : Nat]
    \cup [pc : {"SetTimer"}, ev : Timers, tpl : {0}, k : {"periodic"}, x : Nat \ {0}]
    \cup [pc : {"RaiseTpl"}, ev : {CheckTimerEvent}, tpl : {0}, k : {""},
           x : TPL_APPLICATION .. TPL_HIGH_LEVEL]

ASSUME CallsAssumption ==
  Boots \subseteq ServiceCalls /\ Notifies \in [Events -> SUBSET ServiceCalls]

----------------------------------------------------------------------------
VARIABLES
  stack,        (* activations, the running one first                      *)
  tpl,          (* gEfiCurrentTpl                                          *)
  ints,         (* are interrupts enabled                                  *)
  pending,      (* gEventPending: the set of levels whose bit is set       *)
  queue,        (* gEventQueue: one list per level                         *)
  signalQueue,  (* gEventSignalQueue                                       *)
  signalled,    (* the events whose SignalCount is 1                       *)
  life,         (* "new", "open" (has the Signature) or "closed" (freed)   *)
  timerList,    (* mEfiTimerList                                           *)
  trigger,      (* Timer.TriggerTime                                       *)
  period,       (* Timer.Period                                            *)
  time,         (* mEfiSystemTime                                          *)
  timerLock     (* mEfiTimerLock is acquired                               *)

cpu    == <<tpl, ints>>
queues == <<pending, queue, signalQueue, signalled, life>>
clocks == <<timerList, trigger, period, time, timerLock>>
vars   == <<stack, cpu, queues, clocks>>

Running == stack[1]
Callers == Tail(stack)

At(pc) == Running.pc = pc

\* What the running activation does next: go on, return, or call another.
Continue(a)    == stack' = <<a>> \o Callers
Goto(pc)       == Continue([Running EXCEPT !.pc = pc])
ReturnNow      == stack' = Callers
CallThen(f, a) == stack' = <<f, a>> \o Callers

RestoreTplTo(level) == Act("RestoreTpl", CheckTimerEvent, level, "", 0)

(***************************************************************************)
(* A section under a lock of TPL_HIGH_LEVEL runs with interrupts disabled. *)
(* CoreReleaseLock then lowers the TPL to what it was, which dispatches,   *)
(* and the activation goes on with a, or returns.                          *)
(***************************************************************************)
LockedThen(a) ==
  /\ tpl' = TPL_HIGH_LEVEL /\ ints' = FALSE
  /\ stack' = <<RestoreTplTo(tpl), a>> \o Callers

LockedReturn ==
  /\ tpl' = TPL_HIGH_LEVEL /\ ints' = FALSE
  /\ stack' = <<RestoreTplTo(tpl)>> \o Callers

----------------------------------------------------------------------------
(* The event queues.                                                       *)

\* Mutant: the bit of another level is set.
NotifyOffByOne(e) ==
  /\ queue' = [queue EXCEPT ![Tpl[e]] = Append(RemoveFirst(@, e), e)]
  /\ pending' = pending \cup {Tpl[e] + 1}

\* CoreNotifyEvent: to the tail of its queue, from wherever it is queued.
CoreNotifyEvent(e) ==
  /\ queue' = [queue EXCEPT ![Tpl[e]] = Append(RemoveFirst(@, e), e)]
  /\ pending' = pending \cup {Tpl[e]}

(* CoreRestoreTpl.  gEventPending is volatile: each test reads it again.   *)

RestoreTplTest ==
  /\ At("RestoreTpl")
  /\ Goto(IF pending # {} THEN "RestoreTpl.read" ELSE "RestoreTpl.set")
  /\ UNCHANGED <<cpu, queues, clocks>>

HighBitSet64(bits) == IF bits = {} THEN MinusOne ELSE Max(bits)

\* Mutant: notifications of the level that is restored are dispatched too.
RestoreTplReadEqual ==
  /\ At("RestoreTpl.read")
  /\ LET p == HighBitSet64(pending)
     IN  Continue([Running EXCEPT !.x = p,
                     !.pc = IF p < Running.tpl THEN "RestoreTpl.set" ELSE "RestoreTpl.dispatch"])
  /\ UNCHANGED <<cpu, queues, clocks>>

RestoreTplRead ==
  /\ At("RestoreTpl.read")
  /\ LET p == HighBitSet64(pending)
     IN  Continue([Running EXCEPT !.x = p,
                     !.pc = IF p <= Running.tpl THEN "RestoreTpl.set" ELSE "RestoreTpl.dispatch"])
  /\ UNCHANGED <<cpu, queues, clocks>>

RestoreTplDispatch ==
  /\ At("RestoreTpl.dispatch")
  /\ tpl' = Running.x
  /\ ints' = (ints \/ Running.x < TPL_HIGH_LEVEL)
  /\ CallThen(Act("Dispatch", CheckTimerEvent, Running.x, "", 0),
              RestoreTplTo(Running.tpl))
  /\ UNCHANGED <<queues, clocks>>

RestoreTplSet ==
  /\ At("RestoreTpl.set")
  /\ tpl' = Running.tpl
  /\ ints' = (ints \/ Running.tpl < TPL_HIGH_LEVEL)
  /\ ReturnNow
  /\ UNCHANGED <<queues, clocks>>

(* CoreDispatchEventNotifies.                                              *)

\* CoreRaiseTpl asserts that the TPL is not above the one it raises to.
RaiseTplLegal == tpl <= TPL_HIGH_LEVEL

\* Mutants: the SignalCount is not cleared; the bit is cleared too early.
DispatchTakeKeepsSignal ==
  /\ At("Dispatch") /\ RaiseTplLegal /\ queue[Running.tpl] # <<>>
  /\ LockedThen([Running EXCEPT !.pc = "Dispatch.notify", !.ev = Head(queue[Running.tpl])])
  /\ queue' = [queue EXCEPT ![Running.tpl] = Tail(@)]
  /\ UNCHANGED <<pending, signalled, signalQueue, life, clocks>>
DispatchTakeClears ==
  /\ At("Dispatch") /\ RaiseTplLegal /\ queue[Running.tpl] # <<>>
  /\ LockedThen([Running EXCEPT !.pc = "Dispatch.notify", !.ev = Head(queue[Running.tpl])])
  /\ signalled' = signalled \ {Head(queue[Running.tpl])}
  /\ queue' = [queue EXCEPT ![Running.tpl] = Tail(@)]
  /\ pending' = pending \ {Running.tpl}
  /\ UNCHANGED <<signalQueue, life, clocks>>

\* Only the SignalCount of an EVT_NOTIFY_SIGNAL event is cleared here.
DispatchTake ==
  /\ At("Dispatch") /\ RaiseTplLegal /\ queue[Running.tpl] # <<>>
  /\ LET e == Head(queue[Running.tpl])
     IN  /\ signalled' = IF Type[e] = "signal" THEN signalled \ {e} ELSE signalled
         /\ LockedThen([Running EXCEPT !.pc = "Dispatch.notify", !.ev = e])
  /\ queue' = [queue EXCEPT ![Running.tpl] = Tail(@)]
  /\ UNCHANGED <<pending, signalQueue, life, clocks>>

\* Mutant: the bit stays set.
DispatchDoneKeepsBit ==
  /\ At("Dispatch") /\ RaiseTplLegal /\ queue[Running.tpl] = <<>>
  /\ LockedReturn
  /\ UNCHANGED <<queues, clocks>>

DispatchDone ==
  /\ At("Dispatch") /\ RaiseTplLegal /\ queue[Running.tpl] = <<>>
  /\ pending' = pending \ {Running.tpl}
  /\ LockedReturn
  /\ UNCHANGED <<queue, signalQueue, signalled, life, clocks>>

DispatchNotify ==
  /\ At("Dispatch.notify")
  /\ CallThen(Act(IF Running.ev = CheckTimerEvent THEN "CheckTimers" ELSE "Notify",
                  Running.ev, 0, "", 0),
              [Running EXCEPT !.pc = "Dispatch"])
  /\ UNCHANGED <<cpu, queues, clocks>>

----------------------------------------------------------------------------
(* CoreCreateEventInternal, CoreSignalEvent, CoreNotifySignalList.         *)

CreateEvent ==
  /\ At("CreateEvent") /\ RaiseTplLegal
  /\ LET e == Running.ev
     IN  /\ life' = [life EXCEPT ![e] = "open"]
         /\ IF Type[e] = "signal"
            THEN signalQueue' = <<e>> \o signalQueue /\ LockedReturn
            ELSE ReturnNow /\ UNCHANGED <<signalQueue, cpu>>
  /\ UNCHANGED <<pending, queue, signalled, clocks>>

SignalEvent ==
  /\ At("SignalEvent") /\ RaiseTplLegal
  /\ LET e == Running.ev
     IN  \/ life[e] # "open" /\ ReturnNow /\ UNCHANGED <<cpu, queues>>
         \/ /\ life[e] = "open"
            /\ signalled' = signalled \cup {e}
            /\ \/ /\ e \in signalled \/ Type[e] # "signal"
                  /\ LockedReturn /\ UNCHANGED <<queue, pending>>
               \/ /\ e \notin signalled /\ Type[e] = "signal" /\ Group[e] = NoGroup
                  /\ CoreNotifyEvent(e) /\ LockedReturn
               \/ /\ e \notin signalled /\ Type[e] = "signal" /\ Group[e] # NoGroup
                  /\ LockedThen([Running EXCEPT !.pc = "SignalList"])
                  /\ UNCHANGED <<queue, pending>>
            /\ UNCHANGED <<signalQueue, life>>
  /\ UNCHANGED clocks

\* The list is walked under the lock: interrupts stay disabled.
SignalListLock ==
  /\ At("SignalList") /\ RaiseTplLegal
  /\ tpl' = TPL_HIGH_LEVEL /\ ints' = FALSE
  /\ Continue([Running EXCEPT !.pc = "SignalList.next", !.tpl = tpl, !.x = 1])
  /\ UNCHANGED <<queues, clocks>>

SignalListNext ==
  /\ At("SignalList.next") /\ Running.x <= Len(signalQueue)
  /\ IF Group[signalQueue[Running.x]] = Group[Running.ev]
     THEN CoreNotifyEvent(signalQueue[Running.x])
     ELSE UNCHANGED <<queue, pending>>
  /\ Continue([Running EXCEPT !.x = @ + 1])
  /\ UNCHANGED <<cpu, signalQueue, signalled, life, clocks>>

SignalListUnlock ==
  /\ At("SignalList.next") /\ Running.x > Len(signalQueue)
  /\ stack' = <<RestoreTplTo(Running.tpl), [Running EXCEPT !.pc = "SignalEvent.end"]>>
                \o Callers
  /\ UNCHANGED <<cpu, queues, clocks>>

\* The lock is taken again, to be released.
SignalEventEnd ==
  /\ At("SignalEvent.end") /\ RaiseTplLegal
  /\ LockedReturn
  /\ UNCHANGED <<queues, clocks>>

----------------------------------------------------------------------------
(* CoreCheckEvent and CoreWaitForEvent.  k says which of the two it is.    *)

CheckEvent ==
  /\ At("CheckEvent") /\ RaiseTplLegal
  /\ LET e == Running.ev
     IN  \/ /\ life[e] # "open" \/ Type[e] = "signal"
            /\ ReturnNow /\ UNCHANGED <<cpu, queue, pending>>
         \/ /\ life[e] = "open" /\ Type[e] = "wait" /\ e \notin signalled
            /\ CoreNotifyEvent(e)
            /\ LockedThen([Running EXCEPT !.pc = "CheckEvent.take"])
         \/ /\ life[e] = "open" /\ Type[e] # "signal"
            /\ Type[e] = "plain" \/ e \in signalled
            /\ Goto("CheckEvent.take")
            /\ UNCHANGED <<cpu, queue, pending>>
  /\ UNCHANGED <<signalQueue, signalled, life, clocks>>

CheckEventTake ==
  /\ At("CheckEvent.take") /\ RaiseTplLegal
  /\ IF Running.ev \in signalled
     THEN signalled' = signalled \ {Running.ev} /\ LockedReturn
     ELSE /\ IF Running.k = "wait" THEN Goto("WaitForEvent") ELSE ReturnNow
          /\ UNCHANGED <<cpu, signalled>>
  /\ UNCHANGED <<pending, queue, signalQueue, life, clocks>>

\* Mutant: the processor sleeps with interrupts disabled.
WaitForEventDisabled ==
  /\ At("WaitForEvent")
  /\ ints' = \E p \in pending : p > tpl
  /\ Goto(IF \E p \in pending : p > tpl THEN "CheckEvent" ELSE "Asleep")
  /\ UNCHANGED <<tpl, queues, clocks>>

\* Interrupts are disabled while gEventPending is looked at; enabling them
\* and going to sleep is one instruction (EnableAndForWaitInterrupt).
WaitForEvent ==
  /\ At("WaitForEvent")
  /\ ints' = TRUE
  /\ Goto(IF \E p \in pending : p > tpl THEN "CheckEvent" ELSE "Asleep")
  /\ UNCHANGED <<tpl, queues, clocks>>

----------------------------------------------------------------------------
(* CoreSetTimer.  mEfiTimerLock is a lock of TPL_HIGH_LEVEL - 1: the timer *)
(* interrupt still comes, and CoreTimerTick reads the list.                *)

\* CoreAcquireLock asserts that the lock is free.
TimerLockLegal == ~timerLock /\ tpl <= CheckTimerTpl

\* Mutant: the lock does not keep CoreCheckTimers out.
AcquireTimerLockLow ==
  /\ TimerLockLegal
  /\ timerLock' = TRUE
  /\ UNCHANGED cpu

AcquireTimerLock ==
  /\ TimerLockLegal
  /\ tpl' = CheckTimerTpl /\ timerLock' = TRUE
  /\ UNCHANGED ints

ReleaseTimerLock ==
  /\ timerLock' = FALSE
  /\ Continue(RestoreTplTo(Running.tpl))
  /\ UNCHANGED cpu

\* CoreInsertEventTimer: before the first that triggers later.
CoreInsertEventTimer(list, e) ==
  LET later == {i \in DOMAIN list : trigger[list[i]] > trigger[e]}
  IN  IF later = {} THEN Append(list, e) ELSE InsertAt(list, Min(later), e)

SetTimer ==
  /\ At("SetTimer")
  /\ IF life[Running.ev] # "open" THEN ReturnNow /\ UNCHANGED <<cpu, timerLock>>
     ELSE /\ AcquireTimerLock
          /\ Continue([Running EXCEPT !.pc = "SetTimer.remove", !.tpl = tpl])
  /\ UNCHANGED <<queues, timerList, trigger, period, time>>

\* Mutant: a timer that is set again stays linked.
SetTimerNotRemoved ==
  /\ At("SetTimer.remove")
  /\ trigger' = [trigger EXCEPT ![Running.ev] = 0]
  /\ period' = [period EXCEPT ![Running.ev] = IF Running.k = "periodic" THEN Running.x ELSE 0]
  /\ Goto(IF Running.k = "cancel" THEN "SetTimer.release" ELSE "SetTimer.time")
  /\ UNCHANGED <<cpu, queues, timerList, time, timerLock>>

SetTimerRemove ==
  /\ At("SetTimer.remove")
  /\ timerList' = RemoveFirst(timerList, Running.ev)
  /\ trigger' = [trigger EXCEPT ![Running.ev] = 0]
  /\ period' = [period EXCEPT ![Running.ev] = IF Running.k = "periodic" THEN Running.x ELSE 0]
  /\ Goto(IF Running.k = "cancel" THEN "SetTimer.release" ELSE "SetTimer.time")
  /\ UNCHANGED <<cpu, queues, time, timerLock>>

\* CoreCurrentSystemTime
SetTimerTime ==
  /\ At("SetTimer.time")
  /\ trigger' = [trigger EXCEPT ![Running.ev] = time + Running.x]
  /\ LockedThen([Running EXCEPT !.pc = "SetTimer.insert"])
  /\ UNCHANGED <<queues, timerList, period, time, timerLock>>

SetTimerInsert ==
  /\ At("SetTimer.insert")
  /\ timerList' = CoreInsertEventTimer(timerList, Running.ev)
  /\ LET done == [Running EXCEPT !.pc = "SetTimer.release"]
     IN  IF Running.x = 0 THEN CallThen(Service("SignalEvent", CheckTimerEvent), done)
                          ELSE Continue(done)
  /\ UNCHANGED <<cpu, queues, trigger, period, time, timerLock>>

SetTimerRelease ==
  /\ At("SetTimer.release")
  /\ ReleaseTimerLock
  /\ UNCHANGED <<queues, timerList, trigger, period, time>>

----------------------------------------------------------------------------
(* CoreCheckTimers, the notification function of mEfiCheckTimerEvent.      *)

CheckTimers ==
  /\ At("CheckTimers")
  /\ AcquireTimerLock
  /\ Continue([Running EXCEPT !.pc = "CheckTimers.time", !.tpl = tpl])
  /\ UNCHANGED <<queues, timerList, trigger, period, time>>

\* SystemTime is read once.
CheckTimersTime ==
  /\ At("CheckTimers.time")
  /\ LockedThen([Running EXCEPT !.pc = "CheckTimers.scan", !.x = time])
  /\ UNCHANGED <<queues, clocks>>

\* Is the first timer of the list expired?
HeadExpired(now) == timerList # <<>> /\ trigger[Head(timerList)] <= now

CheckTimersScan ==
  /\ At("CheckTimers.scan")
  /\ IF HeadExpired(Running.x)
     THEN /\ timerList' = Tail(timerList)
          /\ CallThen(Service("SignalEvent", Head(timerList)),
                      [Running EXCEPT !.pc = "CheckTimers.again", !.ev = Head(timerList)])
     ELSE Goto("CheckTimers.release") /\ UNCHANGED timerList
  /\ UNCHANGED <<cpu, queues, trigger, period, time, timerLock>>

\* A periodic timer is set again, from now on if it has fallen behind.
CheckTimersAgain ==
  /\ At("CheckTimers.again")
  /\ LET e    == Running.ev
         next == trigger[e] + period[e]
         late == next <= Running.x
         then == [Running EXCEPT !.pc = "CheckTimers.insert"]
     IN  \/ period[e] = 0 /\ Goto("CheckTimers.scan") /\ UNCHANGED trigger
         \/ /\ period[e] # 0
            /\ trigger' = [trigger EXCEPT ![e] = IF late THEN Running.x ELSE next]
            /\ IF late THEN CallThen(Service("SignalEvent", CheckTimerEvent), then)
                       ELSE Continue(then)
  /\ UNCHANGED <<cpu, queues, timerList, period, time, timerLock>>

CheckTimersInsert ==
  /\ At("CheckTimers.insert")
  /\ timerList' = CoreInsertEventTimer(timerList, Running.ev)
  /\ Goto("CheckTimers.scan")
  /\ UNCHANGED <<cpu, queues, trigger, period, time, timerLock>>

CheckTimersRelease ==
  /\ At("CheckTimers.release")
  /\ ReleaseTimerLock
  /\ UNCHANGED <<queues, timerList, trigger, period, time>>

----------------------------------------------------------------------------
(* CoreCloseEvent.                                                         *)

\* Mutant: the timer is not cancelled.
CloseEventTimerSet ==
  /\ At("CloseEvent")
  /\ IF life[Running.ev] # "open" THEN ReturnNow ELSE Goto("CloseEvent.unlink")
  /\ UNCHANGED <<cpu, queues, clocks>>

CloseEvent ==
  /\ At("CloseEvent")
  /\ LET unlink == [Running EXCEPT !.pc = "CloseEvent.unlink"]
     IN  \/ life[Running.ev] # "open" /\ ReturnNow
         \/ /\ life[Running.ev] = "open"
            /\ IF Running.ev \in Timers
               THEN CallThen(SetTimerCall(Running.ev, "cancel", 0), unlink)
               ELSE Continue(unlink)
  /\ UNCHANGED <<cpu, queues, clocks>>

\* The bit in gEventPending stays.
CloseEventUnlink ==
  /\ At("CloseEvent.unlink") /\ RaiseTplLegal
  /\ queue' = [p \in Levels |-> RemoveFirst(queue[p], Running.ev)]
  /\ signalQueue' = RemoveFirst(signalQueue, Running.ev)
  /\ LockedThen([Running EXCEPT !.pc = "CloseEvent.free"])
  /\ UNCHANGED <<pending, signalled, life, clocks>>

\* The Signature is cleared, the pool is freed.
CloseEventFree ==
  /\ At("CloseEvent.free")
  /\ life' = [life EXCEPT ![Running.ev] = "closed"]
  /\ signalled' = signalled \ {Running.ev}
  /\ ReturnNow
  /\ UNCHANGED <<cpu, pending, queue, signalQueue, clocks>>

----------------------------------------------------------------------------
(* The code that uses the services: the boot flow at TPL_APPLICATION, and  *)
(* notification functions, each of which makes at most one call.           *)

\* Code that has raised its TPL only signals and checks events.
CallsOf(a) ==
  IF a.pc = "Boot" THEN Boots
  ELSE IF a.x # 0 THEN {}
  ELSE IF a.pc = "Notify" THEN Notifies[a.ev]
  ELSE {c \in Boots : c.pc \in {"SignalEvent", "CheckEvent"} /\ c.k # "wait"}

\* The environment: WaitForEvent is refused above TPL_APPLICATION, an event
\* is created once, and no one lowers the TPL with RaiseTPL.
MayCall(c) ==
  /\ c.k = "wait" => tpl = TPL_APPLICATION
  /\ IF c.pc = "CreateEvent"
     THEN /\ life[c.ev] = "new"
          /\ \A i \in DOMAIN stack : stack[i].pc = "CreateEvent" => stack[i].ev # c.ev
     ELSE life[c.ev] # "new"
  /\ c.pc = "RaiseTpl" => c.x >= tpl

CodeCalls ==
  /\ Running.pc \in {"Boot", "Notify", "Raised"}
  /\ \E c \in CallsOf(Running) :
       MayCall(c) /\ CallThen(c, IF At("Boot") THEN Running ELSE [Running EXCEPT !.x = 1])
  /\ UNCHANGED <<cpu, queues, clocks>>

NotifyReturns ==
  /\ At("Notify")
  /\ ReturnNow
  /\ UNCHANGED <<cpu, queues, clocks>>

\* CoreRaiseTpl, with its matching CoreRestoreTpl.
RaiseTpl ==
  /\ At("RaiseTpl")
  /\ tpl' = Running.x
  /\ ints' = (ints /\ Running.x < TPL_HIGH_LEVEL)
  /\ Continue(Act("Raised", CheckTimerEvent, tpl, "", 0))
  /\ UNCHANGED <<queues, clocks>>

RestoreTpl ==
  /\ At("Raised")
  /\ Continue(RestoreTplTo(Running.tpl))
  /\ UNCHANGED <<cpu, queues, clocks>>

----------------------------------------------------------------------------
(* The timer interrupt: TimerInterruptHandler calls CoreTimerTick.         *)

Nesting == Cardinality({i \in DOMAIN stack : stack[i].pc = "Iret"})

\* Mutant: the check of the timers is not signalled.
TimerTickOnlyCounts ==
  /\ ints /\ RaiseTplLegal /\ Nesting < MaxNesting
  /\ time' = IF time < MaxTime THEN time + 1 ELSE time
  /\ tpl' = TPL_HIGH_LEVEL /\ ints' = FALSE
  /\ stack' = <<RestoreTplTo(tpl), Service("Iret", CheckTimerEvent),
                IF At("Asleep") THEN [Running EXCEPT !.pc = "CheckEvent"] ELSE Running>>
                \o Callers
  /\ UNCHANGED <<queues, timerList, trigger, period, timerLock>>

CoreTimerTick ==
  /\ ints /\ RaiseTplLegal /\ Nesting < MaxNesting
  /\ time' = IF time < MaxTime THEN time + 1 ELSE time
  /\ IF HeadExpired(time') /\ CheckTimerEvent \notin signalled
     THEN signalled' = signalled \cup {CheckTimerEvent} /\ CoreNotifyEvent(CheckTimerEvent)
     ELSE UNCHANGED <<signalled, queue, pending>>
  /\ tpl' = TPL_HIGH_LEVEL /\ ints' = FALSE
  /\ stack' = <<RestoreTplTo(tpl), Service("Iret", CheckTimerEvent),
                IF At("Asleep") THEN [Running EXCEPT !.pc = "CheckEvent"] ELSE Running>>
                \o Callers
  /\ UNCHANGED <<signalQueue, life, timerList, trigger, period, timerLock>>

\* The interrupted code goes on with interrupts enabled, as it was.
Iret ==
  /\ At("Iret")
  /\ ints' = TRUE
  /\ ReturnNow
  /\ UNCHANGED <<tpl, queues, clocks>>

----------------------------------------------------------------------------
Init ==
  /\ stack = <<Service("Boot", CheckTimerEvent)>>
  /\ tpl = TPL_APPLICATION /\ ints = TRUE
  /\ pending = {} /\ queue = [p \in Levels |-> <<>>]
  /\ signalled = {}
  /\ life = [e \in AllEvents |->
              IF e \in Created \cup {CheckTimerEvent} THEN "open" ELSE "new"]
  /\ signalQueue = SetToSeq({e \in Created : Kind[e] = "signal"}) \o <<CheckTimerEvent>>
  /\ timerList = <<>>
  /\ trigger = [e \in Timers |-> 0] /\ period = [e \in Timers |-> 0]
  /\ time = 0 /\ timerLock = FALSE

\* The core's own steps, and the code's.
CoreStep ==
  \/ RestoreTplTest \/ RestoreTplRead \/ RestoreTplDispatch \/ RestoreTplSet
  \/ DispatchTake \/ DispatchDone \/ DispatchNotify
  \/ CreateEvent \/ SignalEvent
  \/ SignalListLock \/ SignalListNext \/ SignalListUnlock \/ SignalEventEnd
  \/ CheckEvent \/ CheckEventTake \/ WaitForEvent
  \/ SetTimer \/ SetTimerRemove \/ SetTimerTime \/ SetTimerInsert \/ SetTimerRelease
  \/ CheckTimers \/ CheckTimersTime \/ CheckTimersScan \/ CheckTimersAgain
  \/ CheckTimersInsert \/ CheckTimersRelease
  \/ CloseEvent \/ CloseEventUnlink \/ CloseEventFree
  \/ RaiseTpl \/ RestoreTpl \/ NotifyReturns \/ Iret

Next == CoreStep \/ CodeCalls \/ CoreTimerTick

Spec == Init /\ [][Next]_vars

\* The timer keeps ticking, and a tick takes less than the time between two:
\* the code that is interrupted, at whatever depth, gets on.
FairSpec ==
  /\ Spec
  /\ SF_vars(CoreTimerTick)
  /\ \A n \in 0 .. MaxNesting : SF_vars(Nesting = n /\ CoreStep)

----------------------------------------------------------------------------
(* Properties.                                                             *)

Labels ==
  {"Boot", "Notify", "Raised", "Iret", "Asleep",
   "RestoreTpl", "RestoreTpl.read", "RestoreTpl.dispatch", "RestoreTpl.set",
   "Dispatch", "Dispatch.notify", "CreateEvent", "SignalEvent", "SignalList",
   "SignalList.next", "SignalEvent.end", "CheckEvent", "CheckEvent.take",
   "WaitForEvent", "SetTimer", "SetTimer.remove", "SetTimer.time",
   "SetTimer.insert", "SetTimer.release", "CheckTimers", "CheckTimers.time",
   "CheckTimers.scan", "CheckTimers.again", "CheckTimers.insert",
   "CheckTimers.release", "CloseEvent", "CloseEvent.unlink", "CloseEvent.free",
   "RaiseTpl"}

Activation == [pc : Labels, ev : AllEvents, tpl : Nat,
               k : {"", "wait", "cancel", "relative", "periodic"}, x : Nat]

\* Types of the processor state, the queues and the timers.
TypeOK ==
  /\ stack \in Seq(Activation) /\ stack # <<>>
  /\ tpl \in Nat /\ ints \in BOOLEAN
  /\ pending \subseteq Levels
  /\ queue \in [Levels -> Seq(AllEvents)]
  /\ signalQueue \in Seq(AllEvents)
  /\ signalled \subseteq AllEvents
  /\ life \in [AllEvents -> {"new", "open", "closed"}]
  /\ timerList \in Seq(Timers)
  /\ trigger \in [Timers -> Nat] /\ period \in [Timers -> Nat]
  /\ time \in Nat /\ timerLock \in BOOLEAN

\* gEventPending has the bit of every level with a notification queued: no
\* notification is overlooked by CoreRestoreTpl.
QueuedIsPending == \A p \in Levels : queue[p] # <<>> => p \in pending

\* An event is linked at most once, in the queue of its own level: the lists
\* are intrusive, a second link would corrupt them.
LinkedOnce ==
  /\ \A p \in Levels : IsInjective(queue[p]) /\ \A e \in ToSet(queue[p]) : Tpl[e] = p
  /\ IsInjective(timerList) /\ IsInjective(signalQueue)

\* An event of EVT_NOTIFY_SIGNAL that counts as signalled, and is not being
\* closed, has its notification queued, or a CoreSignalEvent is about to queue
\* it.  Otherwise it would never be notified again: later signals do nothing.
SignalledIsQueued ==
  \A e \in signalled \cap ToSet(signalQueue) :
      \/ e \in ToSet(queue[Tpl[e]])
      \/ \E i \in DOMAIN stack :
           /\ stack[i].pc \in {"SignalList", "SignalList.next"} /\ stack[i].ev = e
           /\ stack[i].pc = "SignalList.next" =>
                e \in ToSet(SubSeq(signalQueue, stack[i].x, Len(signalQueue)))

\* A notification function is only ever interrupted by notification
\* functions of a higher TPL, however interrupts and dispatches nest.
Notified(a) == a.pc \in {"Notify", "CheckTimers", "CheckTimers.time", "CheckTimers.scan",
                         "CheckTimers.again", "CheckTimers.insert"}

PriorityNesting ==
  \A i, j \in DOMAIN stack :
    i < j /\ Notified(stack[i]) /\ Notified(stack[j]) =>
      LET ev(a) == IF a.pc = "Notify" THEN a.ev ELSE CheckTimerEvent
      IN  Tpl[ev(stack[i])] > Tpl[ev(stack[j])]

\* The ASSERTs of CoreAcquireLock and CoreRaiseTpl for mEfiTimerLock.
TimerLockFree == At("SetTimer") \/ At("CheckTimers") => TimerLockLegal

\* CoreCloseEvent leaves no way to an event that it has freed: neither its
\* group nor the timer list reaches it.
ClosedUnlinked ==
  \A e \in ToSet(signalQueue) \cup ToSet(timerList) : life[e] = "open"

\* "None of the events checked above are ready/signaled yet" when
\* CoreWaitForEvent puts the processor to sleep: it never sleeps while the
\* event it waits for is signalled.
SleepsUntilSignalled == At("Asleep") => Running.ev \notin signalled

\* The ASSERT of CoreRaiseTpl: the TPL is never above TPL_HIGH_LEVEL.
TplInRange == RaiseTplLegal

\* No notification function is called for an event that has been closed.
NotifiesOpenEvents == At("Dispatch.notify") => life[Running.ev] = "open"

\* Every pending notification is dispatched in the end, if no ASSERT stops
\* the processor.
PendingDispatched ==
  []RaiseTplLegal => \A p \in Levels : p \in pending ~> p \notin pending

\* CoreWaitForEvent does not miss its event: when the event is signalled, the
\* waiting code gets it in the end, unless other code checks it first.
Waiting(e) ==
  \E i \in DOMAIN stack :
    /\ stack[i].pc \in {"CheckEvent", "CheckEvent.take", "WaitForEvent", "Asleep"}
    /\ stack[i].ev = e /\ stack[i].k = "wait"

WaitReturns ==
  []RaiseTplLegal =>
    \A e \in Events : Waiting(e) /\ e \in signalled ~> ~(Waiting(e) /\ e \in signalled)

\* Every timer that is set expires in the end, or is set again or cancelled.
TimersFire ==
  []RaiseTplLegal =>
    \A e \in Timers : (\E i \in DOMAIN timerList : timerList[i] = e /\ trigger[e] <= MaxTime)
                        ~> (e \notin ToSet(timerList))
=============================================================================
