------------------------------ MODULE HandleDb ------------------------------
(***************************************************************************)
(* The handle database of the DXE core (MdeModulePkg/Core/Dxe/Hand):       *)
(* protocol interfaces installed on handles, the agents that have them     *)
(* open, and the registrations that are told of new ones.                  *)
(*                                                                         *)
(* The protocol lock keeps the database consistent, and is dropped         *)
(* whenever the core calls a driver: while a driver is disconnected so     *)
(* that its interface can be removed, replaced or opened exclusively, and  *)
(* while drivers are connected.  In these windows, and in the one between  *)
(* the check and the lock of an installation, the driver or a notification *)
(* function may make any call of its own, to completion.  The calls under  *)
(* way are the frames of a stack.                                          *)
(***************************************************************************)
EXTENDS Naturals, Sequences, FiniteSets, FiniteSetsExt

CONSTANTS
  Handles, Protocols,
  Opens,       \* the ways it is opened: <<agent, attributes, controller>>
  Regs,        \* registrations of protocol notifications
  Interfaces,  \* interface pointers
  MaxInstalls, \* bound: interfaces installed
  MaxDepth     \* bound: calls under way

Attributes == {"driver", "exclusive", "driverExclusive", "child", "get"}

ASSUME HandleDbAssumption ==
  /\ \A o \in Opens : o[2] \in Attributes
  /\ Interfaces # {}
  /\ "none" \notin Handles \cup Protocols
  /\ MaxInstalls \in Nat
  /\ MaxDepth \in Nat

VARIABLES
  prots,       \* the PROTOCOL_INTERFACE structures ever allocated
  live,        \* those that have not been freed
  byProtocol,  \* PROTOCOL_ENTRY.Protocols, the interfaces of a protocol
  openList,    \* PROTOCOL_INTERFACE.OpenList
  notify,      \* PROTOCOL_NOTIFY: its protocol and its Position
  signalled,   \* the registration's event waits to be notified
  running,     \* its notification function is under way
  seen,        \* history: the interfaces the registration has been given
  due,         \* history: those somebody has undertaken to tell it of
  stack        \* calls in a window in which the lock is not held

db == <<prots, live, byProtocol, openList>>
regs == <<notify, signalled, running, seen, due>>
vars == <<db, regs, stack>>

Head0 == 0       \* the list head, as a Position
None == [protocol |-> "none", position |-> Head0]
Freed == [handle |-> "none", protocol |-> "none", interface |-> "none"]

\* What CoreGetProtocolInterface and CoreFindProtocolInterface find on a
\* handle: the interface installed last, of those that match.
Exists(h) == \E i \in live : prots[i].handle = h
OnHandle(h, p) == {i \in live : prots[i].handle = h /\ prots[i].protocol = p}
GetProtocolInterface(h, p) == Max(OnHandle(h, p))
Matching(i, ptr) ==
  {j \in OnHandle(prots[i].handle, prots[i].protocol) : prots[j].interface = ptr}
FindProtocolInterface(i, ptr) == Max(Matching(i, ptr))

IsFirst(i) == i = GetProtocolInterface(prots[i].handle, prots[i].protocol)
IsFound(i) == i = FindProtocolInterface(i, prots[i].interface)

ByDriver(o) == o[2] \in {"driver", "driverExclusive"}
Exclusive(o) == o[2] \in {"exclusive", "driverExclusive"}
Drivers(i) == {o \in openList[i] : ByDriver(o)}

(***************************************************************************)
(* The stack.                                                              *)
(***************************************************************************)
Top == stack[Len(stack)]
Under == SubSeq(stack, 1, Len(stack) - 1)
Pop == stack' = Under
Push(f) == Len(stack) < MaxDepth /\ stack' = Append(stack, f)
Replace(f) == stack' = [stack EXCEPT ![Len(stack)] = f]

\* The call has released the lock to disconnect driver o from interface i.
Stopping(op, i, ptr, o, want) ==
  [op |-> op, phase |-> "stop", prot |-> i, interface |-> ptr, driver |-> o,
   stopped |-> FALSE, want |-> want]

InStop(f) == f.phase = "stop"
Names(i) == \E k \in DOMAIN stack : InStop(stack[k]) /\ stack[k].prot = i

(***************************************************************************)
(* Notifications.                                                          *)
(***************************************************************************)
Registered(r) == notify[r] # None
Members(p) == {byProtocol[p][k] : k \in DOMAIN byProtocol[p]}
IndexOf(s, x) == CHOOSE k \in DOMAIN s : s[k] = x
PlaceOf(p, i) == IF i = Head0 THEN 0 ELSE IndexOf(byProtocol[p], i)

\* CoreNotifyProtocolEntry: signal the events registered for protocol p.
Signal(p) ==
  signalled' = [r \in Regs |-> signalled[r] \/ notify[r].protocol = p]

\* The registrations for protocol p are to be told of all of its interfaces.
Owe(p, all) ==
  due' = [r \in Regs |-> IF notify[r].protocol = p THEN all ELSE due[r]]

\* Mutant: the Position moves on instead of back.
BackUpForward(p, i) ==
  LET s == byProtocol[p]
      k == IndexOf(s, i)
      following == IF k = Len(s) THEN Head0 ELSE s[k + 1]
  IN  notify' = [r \in Regs |->
                  IF notify[r].protocol = p /\ notify[r].position = i
                  THEN [notify[r] EXCEPT !.position = following] ELSE notify[r]]

\* CoreRemoveInterfaceFromProtocol: a Position on the interface backs up one.
BackUp(p, i) ==
  LET s == byProtocol[p]
      k == IndexOf(s, i)
      prev == IF k = 1 THEN Head0 ELSE s[k - 1]
  IN  notify' = [r \in Regs |->
                  IF notify[r].protocol = p /\ notify[r].position = i
                  THEN [notify[r] EXCEPT !.position = prev] ELSE notify[r]]

Without(s, x) ==
  LET k == IndexOf(s, x) IN SubSeq(s, 1, k - 1) \o SubSeq(s, k + 1, Len(s))

\* CoreRegisterProtocolNotify: the registration starts at the beginning of the
\* list, and is told of nothing yet.
RegisterProtocolNotify(r, p) ==
  /\ ~Registered(r)
  /\ ~running[r]
  /\ notify' = [notify EXCEPT ![r] = [protocol |-> p, position |-> Head0]]
  /\ seen' = [seen EXCEPT ![r] = {}]
  /\ due' = [due EXCEPT ![r] = {}]
  /\ UNCHANGED <<db, signalled, running, stack>>

\* EfiCreateProtocolNotifyEvent signals the event once it has registered it,
\* for an initial pass over what is installed by then.  A driver that calls
\* CoreRegisterProtocolNotify itself, or the DXE core, need not.
SignalEvent(r) ==
  /\ Registered(r)
  /\ signalled' = [signalled EXCEPT ![r] = TRUE]
  /\ due' = [due EXCEPT ![r] = Members(notify[r].protocol)]
  /\ UNCHANGED <<db, notify, running, seen, stack>>

\* CoreUnregisterProtocolNotify, from CoreCloseEvent.
UnregisterProtocolNotify(r) ==
  /\ Registered(r)
  /\ notify' = [notify EXCEPT ![r] = None]
  /\ signalled' = [signalled EXCEPT ![r] = FALSE]
  /\ running' = [running EXCEPT ![r] = FALSE]
  /\ seen' = [seen EXCEPT ![r] = {}]
  /\ due' = [due EXCEPT ![r] = {}]
  /\ UNCHANGED <<db, stack>>

\* The notification function starts.
NotifyStarts(r) ==
  /\ signalled[r]
  /\ ~running[r]
  /\ signalled' = [signalled EXCEPT ![r] = FALSE]
  /\ running' = [running EXCEPT ![r] = TRUE]
  /\ UNCHANGED <<db, notify, seen, due, stack>>

\* The place in the list that the registration has not been given yet.
NextByRegisterNotify(r) ==
  PlaceOf(notify[r].protocol, notify[r].position) + 1

\* CoreLocateHandle by registration, or CoreLocateProtocol with one: the next
\* interface is returned and Position moves to it.  The notification function
\* asks until there is none.
LocateByRegisterNotify(r) ==
  LET p == notify[r].protocol
      next == NextByRegisterNotify(r)
  IN  /\ Registered(r)
      /\ running[r]
      /\ IF next \in DOMAIN byProtocol[p]
         THEN /\ notify' = [notify EXCEPT ![r].position = byProtocol[p][next]]
              /\ seen' = [seen EXCEPT ![r] = @ \cup {byProtocol[p][next]}]
              /\ UNCHANGED running
         ELSE /\ running' = [running EXCEPT ![r] = FALSE]
              /\ UNCHANGED <<notify, seen>>
      /\ UNCHANGED <<db, signalled, due, stack>>

(***************************************************************************)
(* Installation.                                                           *)
(***************************************************************************)
\* CoreInstallProtocolInterface: the handle does not have the protocol, or the
\* caller asks for a new handle, which nobody else can name yet.  The lock is
\* taken afterwards.
InstallCheck(h, p) ==
  /\ Len(prots) < MaxInstalls
  /\ OnHandle(h, p) = {}
  /\ \A k \in DOMAIN stack :
       stack[k].phase = "gap" /\ stack[k].handle = h => stack[k].known
  /\ Push([op |-> "install", phase |-> "gap", handle |-> h, protocol |-> p,
           known |-> Exists(h)])
  /\ UNCHANGED <<db, regs>>

\* CoreInstallProtocolInterfaceNotify.  Notify is FALSE for the loaded image
\* protocol, which CoreLoadImageCommon reinstalls when the image is ready.
InstallProtocolInterface(ptr, Notify) ==
  /\ stack # <<>>
  /\ Top.phase = "gap"
  /\ Top.known => Exists(Top.handle)
  /\ Len(prots) < MaxInstalls
  /\ LET i == Len(prots) + 1 IN
     /\ prots' = Append(prots, [handle |-> Top.handle, protocol |-> Top.protocol,
                                interface |-> ptr])
     /\ live' = live \cup {i}
     /\ byProtocol' = [byProtocol EXCEPT ![Top.protocol] = Append(@, i)]
     /\ openList' = Append(openList, {})
     /\ IF Notify
        THEN Signal(Top.protocol) /\ Owe(Top.protocol, Members(Top.protocol) \cup {i})
        ELSE UNCHANGED <<signalled, due>>
  /\ Pop
  /\ UNCHANGED <<notify, running, seen>>

\* No memory, or the handle was freed in the meantime.
InstallFails ==
  /\ stack # <<>>
  /\ Top.phase = "gap"
  /\ Pop
  /\ UNCHANGED <<db, regs>>

(***************************************************************************)
(* Opening and closing.                                                    *)
(***************************************************************************)
\* What CoreOpenProtocol lets in without disconnecting anybody.
MayOpen(i, o) ==
  CASE o[2] = "driver" -> \A q \in openList[i] : ~ByDriver(q) /\ ~Exclusive(q)
    [] Exclusive(o)    -> \A q \in openList[i] : ~ByDriver(q) /\ ~Exclusive(q)
    [] OTHER           -> TRUE

OpenProtocol(i, o) ==
  /\ IsFirst(i)
  /\ MayOpen(i, o)
  /\ openList' = [openList EXCEPT ![i] = @ \cup {o}]
  /\ UNCHANGED <<prots, live, byProtocol, regs, stack>>

\* An exclusive open first disconnects the driver that manages the interface.
OpenExclusive(i, o) ==
  /\ IsFirst(i)
  /\ Exclusive(o)
  /\ \A q \in openList[i] : ~Exclusive(q)
  /\ \E q \in Drivers(i) : Push(Stopping("open", i, prots[i].interface, q, o))
  /\ UNCHANGED <<db, regs>>

\* Mutant: the open list is not searched again.
OpenStoppedOnce ==
  /\ openList' = [openList EXCEPT ![Top.prot] = @ \cup {Top.want}]
  /\ Pop
  /\ UNCHANGED <<prots, live, byProtocol, regs>>

\* The driver has stopped, another one may have come.
OpenStopped ==
  /\ IF Drivers(Top.prot) = {}
     THEN openList' = [openList EXCEPT ![Top.prot] = @ \cup {Top.want}] /\ Pop
     ELSE /\ UNCHANGED openList
          /\ \E q \in Drivers(Top.prot) : Replace([Top EXCEPT !.driver = q, !.stopped = FALSE])
  /\ UNCHANGED <<prots, live, byProtocol, regs>>

\* CoreCloseProtocol closes whatever the agent has open for the controller.
CloseProtocol(i, agent, controller) ==
  /\ IsFirst(i)
  /\ \E o \in openList[i] : o[1] = agent /\ o[3] = controller
  /\ openList' = [openList EXCEPT ![i] = {o \in @ : o[1] # agent \/ o[3] # controller}]
  /\ UNCHANGED <<prots, live, byProtocol, regs, stack>>

(***************************************************************************)
(* Removal and replacement.                                                *)
(***************************************************************************)
\* The drivers are connected again, and the call fails, or has reinstalled.
Connecting(op, p) == [op |-> op, phase |-> "connect", protocol |-> p]
Connect(under, op, p) ==
  Len(under) < MaxDepth /\ stack' = Append(under, Connecting(op, p))

\* The interface leaves the database and its memory is freed.  open0 is what
\* the open lists are by then.
Remove(i, open0) ==
  LET p == prots[i].protocol IN
  /\ live' = live \ {i}
  /\ byProtocol' = [byProtocol EXCEPT ![p] = Without(@, i)]
  /\ openList' = [open0 EXCEPT ![i] = {}]
  /\ BackUp(p, i)
  /\ seen' = [r \in Regs |-> seen[r] \ {i}]
  /\ due' = [r \in Regs |-> due[r] \ {i}]
  /\ prots' = [prots EXCEPT ![i] = Freed]
  /\ UNCHANGED <<signalled, running>>

\* Mutant: the interface is not taken out of the list first.
MoveToTailTwice(i, ptr, open0) ==
  LET p == prots[i].protocol IN
  /\ prots' = [prots EXCEPT ![i].interface = ptr]
  /\ byProtocol' = [byProtocol EXCEPT ![p] = Append(@, i)]
  /\ openList' = open0
  /\ BackUp(p, i)
  /\ seen' = [r \in Regs |-> seen[r] \ {i}]
  /\ Owe(p, Members(p))
  /\ UNCHANGED <<live, signalled, running>>

\* The interface moves to the end of the list, where every registration finds
\* it again.
MoveToTail(i, ptr, open0) ==
  LET p == prots[i].protocol IN
  /\ prots' = [prots EXCEPT ![i].interface = ptr]
  /\ byProtocol' = [byProtocol EXCEPT ![p] = Append(Without(@, i), i)]
  /\ openList' = open0
  /\ BackUp(p, i)
  /\ seen' = [r \in Regs |-> seen[r] \ {i}]
  /\ Owe(p, Members(p))
  /\ UNCHANGED <<live, signalled, running>>

\* Mutant: an exclusive user does not count.
StillOpenDrivers(i) == Drivers(i)

\* What is left of the open list once the BY_HANDLE_PROTOCOL, GET_PROTOCOL and
\* TEST_PROTOCOL records are dropped.
StillOpen(i) == {o \in openList[i] : o[2] # "get"}

\* CoreDisconnectControllersUsingProtocolInterface from where no driver is
\* left, and what its caller does then, which looks for the interface again.
\* The frames under the call are those left when it returns.
NoDriverLeft(op, i, ptr, want, under) ==
  LET rest == StillOpen(i)
      open0 == [openList EXCEPT ![i] = rest]
      p == prots[i].protocol
  IN  \/ /\ rest # {}
         /\ openList' = open0
         /\ Connect(under, "denied", p)
         /\ UNCHANGED <<prots, live, byProtocol, regs>>
      \/ /\ rest = {}
         /\ Matching(i, ptr) = {}
         /\ openList' = open0
         /\ stack' = under
         /\ UNCHANGED <<prots, live, byProtocol, regs>>
      \/ /\ rest = {}
         /\ Matching(i, ptr) # {}
         /\ op = "uninstall"
         /\ Remove(FindProtocolInterface(i, ptr), open0)
         /\ stack' = under
      \/ /\ rest = {}
         /\ Matching(i, ptr) # {}
         /\ op = "reinstall"
         /\ MoveToTail(FindProtocolInterface(i, ptr), want, open0)
         /\ Connect(under, "reinstall", p)

\* CoreUninstallProtocolInterface and CoreReinstallProtocolInterface up to the
\* first driver to disconnect.
Start(op, i, want) ==
  IF Drivers(i) = {}
  THEN NoDriverLeft(op, i, prots[i].interface, want, stack)
  ELSE /\ \E o \in Drivers(i) :
            Push(Stopping(op, i, prots[i].interface, o, want))
       /\ UNCHANGED <<db, regs>>

\* An interface is removed by the driver that installed it, which does not do
\* so while the core, in a call that driver cannot see, is using it.
UninstallProtocolInterface(i) ==
  IsFound(i) /\ ~Names(i) /\ Start("uninstall", i, prots[i].interface)

ReinstallProtocolInterface(i, ptr) == IsFound(i) /\ Start("reinstall", i, ptr)

\* The driver has stopped: go on with the next one.
RemovalStopped ==
  IF Drivers(Top.prot) = {}
  THEN NoDriverLeft(Top.op, Top.prot, Top.interface, Top.want, Under)
  ELSE /\ \E o \in Drivers(Top.prot) : Replace([Top EXCEPT !.driver = o, !.stopped = FALSE])
       /\ UNCHANGED <<db, regs>>

\* CoreDisconnectController: if the driver manages the handle, its Stop is
\* called, which closes what CoreCloseProtocol finds there.
DriverStops ==
  LET h == prots[Top.prot].handle
      agent == Top.driver[1]
      here == {i \in live : prots[i].handle = h}
  IN  /\ stack # <<>>
      /\ InStop(Top)
      /\ ~Top.stopped
      /\ \E i \in here : \E o \in Drivers(i) : o[1] = agent
      /\ openList' = [i \in DOMAIN openList |->
                        IF i \in here /\ IsFirst(i)
                        THEN {o \in openList[i] : o[1] # agent} ELSE openList[i]]
      /\ Replace([Top EXCEPT !.stopped = TRUE])
      /\ UNCHANGED <<prots, live, byProtocol, regs>>

\* CoreDisconnectController returns success, by when drivers may have come.
StopSucceeds ==
  /\ stack # <<>>
  /\ InStop(Top)
  /\ Top.stopped
  /\ IF Top.op = "open" THEN OpenStopped ELSE RemovalStopped

\* The driver refuses, or is not managing the handle any more: an exclusive
\* open is denied, a removal connects the drivers it has disconnected.
StopFails ==
  /\ stack # <<>>
  /\ InStop(Top)
  /\ IF Top.op = "open" THEN Pop
     ELSE Replace(Connecting("denied", prots[Top.prot].protocol))
  /\ UNCHANGED <<db, regs>>

\* Mutant: the notification comes with the first installation only.
ConnectReturnsQuietly ==
  /\ stack # <<>>
  /\ Top.phase = "connect"
  /\ Pop
  /\ UNCHANGED <<db, regs>>

\* CoreConnectController returns; a reinstallation notifies.
ConnectReturns ==
  /\ stack # <<>>
  /\ Top.phase = "connect"
  /\ IF Top.op = "reinstall" THEN Signal(Top.protocol) ELSE UNCHANGED signalled
  /\ Pop
  /\ UNCHANGED <<db, notify, running, seen, due>>

(***************************************************************************)
(* Specification.                                                          *)
(***************************************************************************)
Init ==
  /\ prots = <<>>
  /\ live = {}
  /\ byProtocol = [p \in Protocols |-> <<>>]
  /\ openList = <<>>
  /\ notify = [r \in Regs |-> None]
  /\ signalled = [r \in Regs |-> FALSE]
  /\ running = [r \in Regs |-> FALSE]
  /\ seen = [r \in Regs |-> {}]
  /\ due = [r \in Regs |-> {}]
  /\ stack = <<>>

Next ==
  \/ \E r \in Regs, p \in Protocols : RegisterProtocolNotify(r, p)
  \/ \E r \in Regs : \/ SignalEvent(r) \/ UnregisterProtocolNotify(r) \/ NotifyStarts(r)
                     \/ LocateByRegisterNotify(r)
  \/ \E h \in Handles, p \in Protocols : InstallCheck(h, p)
  \/ \E ptr \in Interfaces, Notify \in BOOLEAN : InstallProtocolInterface(ptr, Notify)
  \/ InstallFails
  \/ \E i \in live :
       \/ \E o \in Opens : OpenProtocol(i, o) \/ OpenExclusive(i, o)
       \/ \E o \in Opens : CloseProtocol(i, o[1], o[3])
       \/ UninstallProtocolInterface(i)
       \/ \E ptr \in Interfaces : ReinstallProtocolInterface(i, ptr)
  \/ DriverStops \/ StopSucceeds \/ StopFails \/ ConnectReturns

Spec == Init /\ [][Next]_vars

(***************************************************************************)
(* Properties.                                                             *)
(***************************************************************************)
UpTo(p, i) == {byProtocol[p][k] : k \in 1 .. PlaceOf(p, i)}

Injective(s) == \A j, k \in DOMAIN s : s[j] = s[k] => j = k

\* Every interface that is not freed is in the list of its protocol, once, its
\* open list holds ways of opening it, and a registration's Position is in the
\* list it walks.
TypeOK ==
  /\ live \subseteq DOMAIN prots
  /\ \A i \in live :
       /\ prots[i].handle \in Handles
       /\ prots[i].protocol \in Protocols
       /\ prots[i].interface \in Interfaces
  /\ \A p \in Protocols :
       /\ Members(p) = {i \in live : prots[i].protocol = p}
       /\ Injective(byProtocol[p])
  /\ DOMAIN openList = DOMAIN prots
  /\ \A i \in live : openList[i] \subseteq Opens
  /\ \A r \in Regs :
       Registered(r) => notify[r].position \in Members(notify[r].protocol) \cup {Head0}
  /\ Len(stack) <= MaxDepth

\* A registration is given every interface once: what lies up to its Position
\* is what it has been given, through removals and replacements in between.
NoneSkipped ==
  \A r \in Regs :
    Registered(r) => seen[r] = UpTo(notify[r].protocol, notify[r].position)

\* A registration whose event is neither signalled nor being notified has been
\* given every interface there was when one was last installed with Notify or
\* reinstalled, or its event signalled by the library, since it registered,
\* unless a reinstallation is still connecting drivers before it notifies.
\* What was there before, and what is installed without Notify, it need not
\* have been given.
NotifiedOfAll ==
  \A r \in Regs :
    /\ Registered(r)
    /\ ~signalled[r]
    /\ ~running[r]
    /\ \A k \in DOMAIN stack :
         ~(stack[k].op = "reinstall" /\ stack[k].phase = "connect"
             /\ stack[k].protocol = notify[r].protocol)
    => due[r] \subseteq seen[r]

\* One driver manages an interface, and one that shares it does not do so
\* beside an agent with exclusive access, whatever happened while
\* CoreOpenProtocol had the previous driver stopped.
OneManager ==
  \A i \in live :
    /\ Cardinality(Drivers(i)) <= 1
    /\ (\E o \in openList[i] : Exclusive(o)) => \A o \in openList[i] : o[2] # "driver"

\* No handle has two interfaces of a protocol, as two installations at the
\* same time can leave it with: both pass the check before either has the lock.
InstalledOnce ==
  \A i, j \in live :
    prots[i].handle = prots[j].handle /\ prots[i].protocol = prots[j].protocol => i = j

\* An interface is removed or replaced only when no driver, no child controller
\* and no exclusive user has it open, although the drivers were stopped with
\* the lock released.  (Of two interfaces of a protocol on one handle, the one
\* found by its pointer in the end need not be the one whose drivers were
\* stopped.)
RemovedIsClosed ==
  [][\A i \in live :
       (i \notin live' \/ prots'[i].interface # prots[i].interface) /\ InstalledOnce
         => \A o \in openList[i] : o[2] = "get"]_vars

\* Exclusive access is exclusive.
OneExclusive ==
  \A i \in live : Cardinality({o \in openList[i] : Exclusive(o)}) <= 1

=============================================================================
