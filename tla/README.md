# TLA+ models of Project Mu Basecore

Project Mu Basecore is UEFI and PI firmware: it runs from reset to the operating
system's loader, and part of it stays behind as runtime services and as the code of
System Management Mode. This directory holds TLA+ modules for the parts of it
whose correctness rests on ordering, interruption and power failure rather than on
data, TLC instances that check them, and TLAPS proofs of theorems about them.

`PROJECT.json` lists the components, the runs with what each shows, the source
lines every definition stands for, the mutants that show each property can fail,
the hazards the properties are for, the findings, and the theorems.

## Inventory

Paths are relative to the repository.

| Component | State it keeps | Operations | What is hard |
|---|---|---|---|
| Fault tolerant write, `MdeModulePkg/Universal/FaultTolerantWriteDxe` | a log of write headers and records in the working block, the spare block, the chipset's TopSwap bit | Allocate, Write, Restart, Abort, GetLastWrite, initialisation | power loss and flash errors between any two device operations; the log's own block is rewritten through the same spare block |
| DXE events, timers, TPLs, `MdeModulePkg/Core/Dxe/Event` | `gEfiCurrentTpl`, `gEventPending`, one queue per level, the signal list, the timer list, the system time | CreateEvent, SignalEvent, CheckEvent, WaitForEvent, CloseEvent, SetTimer, RaiseTPL, RestoreTPL, the tick | interrupts nested in dispatches nested in interrupts; locks that are a TPL |
| Handle database, `Core/Dxe/Hand` | handles, protocol interfaces, open records, notify lists | install, reinstall, uninstall, open, close, connect, disconnect, register notify | the lock is dropped around drivers' callbacks |
| DXE dispatcher, `Core/Dxe/Dispatcher` | discovered and scheduled queues, depex | schedule, trust, dispatch | drivers that install what other drivers wait for |
| Memory and GCD, `Core/Dxe/Mem`, `Core/Dxe/Gcd` | descriptors of the memory map | allocate, free, convert, set attributes | splitting and merging descriptors while descriptors are allocated |
| PEI core, `Core/Pei` | PPI database, PEIM states | install PPI, dispatch, shadow | re-dispatch, migration to memory |
| SMM core, `Core/PiSmmCore`; `StandaloneMmPkg` | SMI handler lists, SMM handle database | register, unregister, manage SMI | lists changed while they are walked |
| Variable driver, `Universal/Variable/RuntimeDxe` | the records in flash, their copy in memory, last offsets, space totals | GetVariable, SetVariable, QueryVariableInfo, Reclaim | power loss between the state bits of two copies; reclaim through fault tolerant write |
| Variable policy, `Library/VariablePolicyLib` | policy table, locked flag | register, validate, lock | choice of the best match |
| MP services, `UefiCpuPkg/Library/MpInitLib` | per-AP state, wake-up signals | start all, start this, switch BSP, enable and disable | timeouts that race an AP that finishes |
| SMM rendezvous, `UefiCpuPkg/PiSmmCpuDxeSmm/MpService.c` | semaphores, presence flags, BSP index | BSP and AP handlers | late APs, election of the BSP |
| Network stack, FAT, shell, security, drivers, tables, build tools | various | various | large and mostly data; see `PROJECT.json` for why they are left out |

How they interact: everything in DXE runs on the event core, which calls drivers
back at their TPL. The handle database signals events when protocols appear; the
dispatcher runs drivers whose dependency those satisfy. The variable driver
reclaims its store with one fault tolerant write; the fault tolerant write driver
starts when the flash driver's FVB protocol appears (a protocol notification
event), and PEI reads its log before any of this exists.

What makes each component correct: the fault tolerant write driver must make block
updates atomic; the event core must lose no signal, must not run anything at the
wrong level, and must dispatch what is pending; the variable driver must show the
old or the new value and no third; the handle database must not give out a
protocol that somebody still uses, and must tell a registration of every interface
installed with a notification;
the rendezvous must count whom it waits for, carry nothing from one SMI into the
next, and get every processor out of SMM.

## Modules

| Module | What it is |
|---|---|
| `FtwAtomic` | what the fault tolerant write protocol promises: a target changes by whole writes |
| `Ftw` | the driver, the flash under it, its callers and the power supply |
| `FtwProofs` | theorems about the types of `Ftw` and about the Header pointer |
| `FtwAtomicProofs` | that `Ftw` implements `FtwAtomic`, and its other safety properties |
| `MCFtw` | instances of `Ftw` for TLC |
| `DxeEvent` | events, timers, TPLs and the timer interrupt of the DXE core |
| `DxeEventNesting` | how activations nest on the stack of `DxeEvent`: the invariant and that every action keeps it |
| `DxeEventProofs` | the theorems about `DxeEvent` |
| `MCDxeEvent` | instances of `DxeEvent` for TLC |
| `Variable` | the variable driver's non-volatile store, over a fault tolerant write that behaves as `FtwAtomic` says |
| `VariableProofs` | theorems about what readers find in the store, the types and the space totals |
| `MCVariable` | instances of `Variable` for TLC |
| `SmmRendezvous` | BSP and APs in system management mode, and the synchronisation library |
| `SmmRendezvousProofs` | the theorems about `SmmRendezvous` |
| `MCSmmRendezvous` | instances of `SmmRendezvous` for TLC |
| `HandleDb` | protocol interfaces, their users and their registrations, with the windows in which the protocol lock is released |
| `HandleDbProofs` | the theorems about `HandleDb` |
| `ListLemmas` | lemmas about sequences that the proofs about lists share |
| `MCHandleDb` | instances of `HandleDb` for TLC |

Definitions that begin with a comment `Mutant:` are plausible wrong versions of the
definition that follows them. No specification uses them: `PROJECT.json` pairs each
with the property that must fail when it takes the place of the right one.

### Ftw

The driver is sequential; its enemy is the power supply. A step is one device
operation (an erase, a block write, a bit or a record programmed) with the reading
and deciding before it. Erasing and rewriting a block is two steps: after the
first, its cells are torn, a workspace header in the block may be the old one, none
or already the new one, and the log may be gone.

* `flash` maps each block to its contents: `DU` cells of data, the state of a
  workspace header (`none`, `signed`, `valid`, `invalid`: the signature and the
  bits WorkingBlockValid and WorkingBlockInvalid) and the write queue. The block
  `"work"` holds the workspace and data of its own, which callers update too.
* Of the write queue only the end is kept, since every reader walks past completed
  headers: the offset where `FtwGetLastWriteHeader` stops, what is allocated there,
  how many records are done, and the record `FtwGetLastWriteRecord` returns. Offsets
  and sizes are in bytes as in the code, so that "the workspace is full" is the
  code's own arithmetic. A `stray` header is one written where no reader stops.
* `swap` is the TopSwap bit: it exchanges the addresses of the spare and the boot
  block, and survives power loss.
* `pc`, `ret`, `arg`, `save`, `hOff`, `keep` and `booting` are the driver's control
  and locals: where it is, where its procedures return to, the request, the spare
  block's former contents (`SpareBuffer`), the header offset taken before an
  allocation, `PreserveRecord`, and whether `InitFtwProtocol` is still running.
* Each procedure is a group of actions named after it: `Refresh*`
  (WorkSpaceRefresh), `Reclaim*` (FtwReclaimWorkSpace), `Flush*`
  (FlushSpareBlockToWorkingBlock), `Boot*` (FlushSpareBlockToBootBlock), `Record*`
  and `TargetProgram` (FtwWriteRecord, FlushSpareBlockToTargetBlock), `Allocate*`,
  `Write*`, `Restart*`, `Abort`, `GetLastWrite`, `Init*` (InitFtwProtocol).
* The environment: callers make any request when the driver is idle, except that
  they do not abort a write they were told to restart and restart with the FVB the
  write was started with; a flash error ends a request anywhere outside of
  initialisation (there, an ASSERT does); power fails anywhere and comes back.

`Content(t)` is what a reader finds in a target, following
`FaultTolerantWritePei`: while a write is complete in the spare block and not in
its target, the spare block stands for the target. `AtomicWrites` says that `Ftw`
implements `FtwAtomic` under that mapping.

Constants choose the device: `Overwrite` says whether programming replaces bits
(emulated flash) or only clears them; `FvbErrors` whether the device reports
errors; `FvbMissing` whether a target's FVB may be absent at start.

### DxeEvent

One processor, with interrupts. The state is a stack of activations, of which
the first runs: the boot flow at the bottom, notification functions, services,
`CoreRestoreTpl`, `CoreDispatchEventNotifies` and interrupt frames above it. A step
is what the code does between two points where an interrupt could change what it
sees; what runs at `TPL_HIGH_LEVEL`, with interrupts disabled, is one step. So
`CoreSignalEvent` is the locked section followed by an activation of
`CoreRestoreTpl`, and `CoreRestoreTpl` itself is four steps: the test of
`gEventPending`, the second read of it, the dispatch, and the assignment of the
TPL.

* `tpl`, `ints`, `pending`, `queue`, `signalQueue`, `timerList`, `time` are
  `gEfiCurrentTpl`, the interrupt flag, `gEventPending`, `gEventQueue`,
  `gEventSignalQueue`, `mEfiTimerList`, `mEfiSystemTime`. `signalled` holds the
  events whose `SignalCount` is 1, `life` says which have their Signature,
  `trigger` and `period` are the fields of the timer, `timerLock` is
  `mEfiTimerLock`. Queues are sequences; the set `pending` is the bit mask.
* `mEfiCheckTimerEvent` is an event like others, at `TPL_HIGH_LEVEL - 1`, whose
  notification function is `CoreCheckTimers`.
* `CoreTimerTick` is the whole handler up to the release of its lock. It may come
  whenever interrupts are enabled, up to `MaxNesting` deep: the handler returns
  with interrupts enabled before its IRET, so that ticks nest.
* Drivers are sets of service calls (`ServiceCalls`): `Boots` those of the boot flow,
  `Notifies[e]` those of a notification function, which makes at most one. An event
  is created by one call, which no other call for the same event is on top of
  (`MayCall`): the code makes a new event, the model takes one that is not in use.
* An ASSERT that fails stops the processor: `RaiseTplLegal` and `TimerLockLegal`
  guard the steps that begin with `CoreRaiseTpl` and `CoreAcquireLock`.

### Variable

`SetVariable` is sequential; what interferes with it is the power supply, the flash
and, between boots, its own former attempts. A step is one flash operation with the
deciding before it.

* `nv` is the store as a sequence of records, each with a name, a content and a
  state: `erased` (header and data are there, the State byte is not), `added`,
  `inDeletedTransition`, `deleted`. `cache` is `mNvVariableCache`, the end of whose
  last record is `NonVolatileLastVariableOffset`.
* A record without its State is a bare header to the code: NameSizeOfVariable and
  DataSizeOfVariable give 0 for it (VariableParsing.c:124, 193), so that a walk steps
  over the header alone, counts it (`RecordSize`) and ends at the record's name. The
  start then finds a free area that is not erased and reclaims (`FreeAreaIsFree`).
* `Programmed` is what programming a new record at the last offset leaves in flash
  that can only clear bits: the record, if the area was erased; neither of two
  different records (`Torn`), if a failed write had left one there; no header at all,
  if the offset is the name of a bare header, since the first characters of a name do
  not leave a StartId to be programmed. UpdateVariableStore writes block by block
  (Variable.c:249): a write that fails may have programmed nothing or the record.
  A part of a record stands for the whole one, as both occupy the free area and
  neither is found, and a header that spans two blocks is left out.
* `Find` is `FindVariableEx` and `View` what readers of a whole store find.
  `ReclaimedImage` is the buffer that `Reclaim` builds: ADDED records, then records
  in transition of which no other copy was taken, then the new variable.
* `FtwVariableSpaceDone` and `FtwVariableSpaceFailed` are the outcomes of the fault
  tolerant write: done; failed with nothing written; failed with the new image
  complete in the spare block (`pending`), which the next start then writes. That
  the outcome is one of these is what `FtwAtomic` promises and `Ftw` keeps.
* `commonTotal` and `hwTotal` are the two totals the quotas are tested against.
  `TotalSize` sums the sizes of the records at some positions of a store; what
  `Reclaim` keeps is a subset of the positions (`PickRecords`), so that totals before
  and after can be compared.
* `PowerCycle` is a power loss and the next start up to the read services;
  `WriteServiceInitialize`, `ReclaimForOS`, `ExitBootServices` are the phases of a
  boot after that; `SetVariable`, `MarkOld`, `DeleteInDel`, `DeleteCurr`,
  `OutOfSpace`, `ReclaimAndAdd`, `AddStep1`, `AddStep2` are `UpdateVariable`.

Updates are claimed atomic from an `Orderly` store: one ADDED record and one in
transition per variable at most, no record programmed over another, no image
waiting in the spare block. A record that a power loss left without its State is
orderly; what is programmed over one is not, and `MCVariableSuccess.cfg` shows what
becomes of such an update. Each exception is reachable and is one of the findings
or observations below; `AddedStaysOne` says that from an orderly store no step, a
power loss included, makes a second ADDED record of a variable.

### SmmRendezvous

Each processor runs `SmiRendezvous` and then `BSPHandler` or `APHandler`. These are
straight-line code between waits, so `todo[c]` is the sequence of steps that CPU `c`
still has to take; `BspProgram` and `ApProgram` put it together from the build's
configuration as the code's tests of `SyncMode`,
`SmmCpuFeaturesNeedConfigureMtrrs` and `mSmmDebugAgentSupport` do. A
step is one access to shared state.

* `cpuCount` is the arrival count with its locked door, `run` the semaphore of each
  CPU (`SmmCpuSyncLib`); `insideSmm`, `allCpusInSync`, `bspIndex`, `present`, `busy`
  are the fields of `mSmmMpSyncData`; `requested` says that a CPU's Procedure was set.
* Every wait with a timeout may end at any time. SMIs are latched per processor, so
  that one that is in SMM enters again, and the SMI interrupts sent to late
  processors are such latches.
* The handlers on the BSP start procedures on one AP or all of them, waiting for
  them or not. In the step `tasks`, after the drain, `PerformRemainingTasks` starts
  procedures too: FlushTlbForAll broadcasts and waits, ConfigSmmCodeAccessCheck goes
  from AP to AP and waits for a lock that the procedure releases (`ran`). The AP may
  then still hold its Busy lock, which nothing waits for: an AP can be between the end
  of its procedure and `ReleaseBusy` when the BSP is already telling the APs to leave.
* In the relaxed flow `SmmCpuRendezvous` may be called by both: it sends an SMI to
  those who are not there and waits, with a timeout.

`Spec` is the code. It relies on timing in two places and enforces neither; the two
assumptions are conjuncts of a specification's next-state relation and part of no
action:

* `Timely` (`PromptSpec`): no processor is still between its last look at `InsideSmm`
  and its check-out, or between the reset of the context and `AllCpusInSync = FALSE`,
  when the next BSP has read and cleared the SMI status. The timeouts are long against
  a few instructions.
* `NobodySlipsIn` (`RelySpec`, with `Timely`): no AP sets its Present flag between the
  loops of a broadcast, which each look at the Present flags. Where the APs are gathered
  first this is a theorem; in the relaxed flow nothing ensures it, and the run `smm_broadcast`
  shows what happens without it.

The comments in BSPHandler at #3 and #5 (MpService.c:539-541, 559-561) say that
`SmmCpuSyncWaitForAPs` "may wait for ever if an AP happens to enter SMM at exactly this
point". The model does not bear this out: `smm_live` has the MTRR configuration, lets an
AP enter at that point, and every processor leaves. The door was locked before, so
that the AP is not counted, waits for `AllCpusInSync` to fall and signals nobody; ApCount
does not change. A barrier can
still wait for ever, for another reason: without `Timely` an AP that was counted may
have given up (`MCSmmCheckOut.cfg`).

### HandleDb

Everything is under the protocol lock except the windows in which the core calls
drivers: `CoreDisconnectController` inside a removal, a reinstallation or an
exclusive open, `CoreConnectController` after a failed removal or a
reinstallation, and the gap between the check and the lock of an installation. A
call in a window is a frame of `stack`; any other call may be made on top of it, to
completion, as a driver's Stop or a notification function would.

* `prots` are the `PROTOCOL_INTERFACE`s, numbered in the order of installation,
  `live` those not freed, `byProtocol` the list of a `PROTOCOL_ENTRY`, `openList`
  who has an interface open and how, `notify` a registration and its Position,
  `seen` what that registration has been given and `due` what somebody has
  undertaken to tell it of (history).
* `RegisterProtocolNotify` tells a registration of nothing. `SignalEvent` is the call
  with which `EfiCreateProtocolNotifyEvent` follows it; the DXE core registers without
  it (DxeProtocolNotify.c:234). An installation signals only with `Notify`, which
  CoreLoadImageCommon leaves out (Image.c:1401). `NotifiedOfAll` is about the rest:
  what an installation with `Notify`, a reinstallation or the library's signal
  undertakes to tell. Notification functions ask for interfaces until there is none;
  one that asks once per signal, as GenericProtocolNotify does, catches up only as
  signals come.
* `Start`, `RemovalStopped` and `NoDriverLeft` are
  `CoreDisconnectControllersUsingProtocolInterface` inside uninstall and reinstall:
  the open list is searched again after each driver, and the interface is looked up
  again at the end. `OpenExclusive` and `OpenStopped` are the same for an exclusive
  `CoreOpenProtocol`.
* Assumed: nobody uninstalls an interface that a call in the Stop window is about.
  The code keeps a pointer to it across the window and would read freed memory.
* `TypeOK` is the consistency of the database: every interface that is not freed is
  in the list of its protocol, once, and nothing else is.
* `RemovedIsClosed` is claimed while no handle has two interfaces of one protocol
  (`InstalledOnce`). The gap between the check and the lock of
  `CoreInstallProtocolInterface` can make it have two (see Findings), and then the
  second look-up by handle and protocol in `CoreUninstallProtocolInterface` may find
  the other interface than the one whose drivers were stopped. TLC finds this with
  two protocols, three installations and calls three deep.

## Runs

| Run | Shows |
|---|---|
| `ftw_crash` | One target and the data in the working block, power failing anywhere, implicit and explicit allocations, flash that only clears bits: the spare block is not reused while it is the only copy (`SpareNotReused`), the Header pointer FtwWrite keeps is current (`HeaderPointerCurrent`), success means written (`WrittenOnSuccess`), and the driver implements atomic writes (`AtomicWrites`). If power stops failing, the driver answers (`DriverAnswers`) and what was pending is written (`PendingResolved`). |
| `ftw_errors` | Two targets, the data in the working block and the boot block with its TopSwap, flash errors in every request, allocations of two writes: writes stay atomic, the workspace is never lost (`WorkSpaceSurvives`) and an allocation is there afterwards (`AllocateVisible`). |
| `event` | Timers of two TPLs, set, set again, cancelled, expiring at once and periodically; a group that gains and loses a member while it is signalled; code that raises its TPL; interrupts nested two deep. Lists stay well formed (`LinkedOnce`), notifications nest by priority (`PriorityNesting`), the timer lock is free when it is taken (`TimerLockFree`), no queued event is overlooked (`QueuedIsPending`) and no signal swallowed (`SignalledIsQueued`), a closed event is in no list (`ClosedUnlinked`). |
| `event_live` | WaitForEvent on a timer and on a polled event: pending notifications are dispatched, timers fire, and a wait for an event that is signalled comes to an end (`WaitReturns`). |
| `variable` | Power loss at every flash operation, one flash error anywhere, reclaims at boot, at runtime and before the operating system: updates are atomic (`UpdatesAtomic`), success is stored (`SuccessIsStored`), one ADDED record per variable (`AddedStaysOne`), totals that agree with the records (`SpaceAccounted`), and nothing is programmed over what a power loss left (`FreeAreaErased`). |
| `smm` | Three processors, two SMIs, under `RelySpec`: one BSP (`OneBsp`), the counted APs are those that take part (`CountedTakePart`), nothing is left for the next SMI (`NothingCarriedOver`), APs run what was asked for (`RunsWhatWasAsked`), MTRRs change together (`MtrrsInStep`), in the traditional flow nobody runs outside SMM (`NobodyOutside`), no deadlock. |
| `smm_live` | Two processors, three SMIs, all four flows: everyone leaves SMM (`EveryoneLeaves`), and every SMI is served (`SmiServed`). |
| `handle` | Calls nested two deep in every window: a registration is given every interface once (`NoneSkipped`), and whenever it is to be told of one it gets all there are (`NotifiedOfAll`), one driver manages an interface (`OneManager`), and an interface that is removed or replaced is closed (`RemovedIsClosed`). |
| `ftw_alloc_reclaim`, `event_range`, `variable_delete`, `smm_broadcast` | Properties the repository states and the code does not have; see Findings. |

Further configurations are kept beside these. TLC finds the named property violated
in each (`tlc -config <file> <module>`), which is why the runs above make the
assumption it lacks:

| Configuration | Module | Violates | Because |
|---|---|---|---|
| `MCFtwSticky.cfg` | `MCFtw` | `AtomicWrites` | two writes of one allocation to two targets, on flash that only clears bits: FtwWrite programs a record over that of an earlier, failed attempt (FaultTolerantWrite.c:454) |
| `MCFtwNoFvb.cfg` | `MCFtw` | `NothingTorn` | InitFtwProtocol aborts a write that is complete in the spare block when the target's FVB is not installed yet (FtwMisc.c:1421) |
| `MCDxeEventClosed.cfg` | `MCDxeEvent` | `NotifiesOpenEvents` | a notification function of a higher TPL closes an event between its being taken off the queue and being notified (Event.c:181) |
| `MCDxeEventWait.cfg` | `MCDxeEvent` | `SleepsUntilSignalled` | `CoreWaitForEventInternal` looks at its events (Event.c:707) before it disables interrupts (Event.c:725), and at `gEventPending` after: an interrupt in between that signals the event and has its notifications dispatched leaves nothing pending, and the code sleeps until the next interrupt. `WaitReturns` says that the next tick makes up for it |
| `MCVariableSuccess.cfg` | `MCVariable` | `StoredOnSuccess` | what a failed write has programmed stays behind the last offset (Variable.c:2312); the next `SetVariable` of the same boot programs its record over it, returns EFI_SUCCESS, "The firmware has successfully stored the variable and its data" (UefiSpec.h:771), and the next boot does not find the content |
| `MCVariableBound.cfg` | `MCVariable` | `StoreBounded` | the recount after a failed Reclaim charges deleted hardware error records to the wrong quota (Variable.c:846), against "This sum should not exceed the PcdFlashNvStorageVariableSize" (Variable.c:324) |
| `MCVariableStub.cfg` | `MCVariable` | `StoredAfterFailedReclaim` | if the Reclaim of a start fails, the offset lies behind the header of a record without its State, and the next record is programmed over its name: success is returned, the old record deleted and the new one not found (VariableParsing.c:124, Variable.c:3576) |
| `MCSmmCheckOut.cfg` | `MCSmmRendezvous` | `CountedTakePart` | without `Timely` an AP gives up behind a door that was locked after its last look (MpService.c:801) |
| `MCHandleDbExclusive.cfg` | `MCHandleDb` | `OneExclusive` | CoreOpenProtocol tests for exclusive access before it disconnects the driver and not again (Handle.c:1240) |

The bounds and why they are enough. `Ftw`: two cells are the least that can be
torn in the middle and that tell a write of part of a block from one of all of it;
two data values tell the old contents from the new; a workspace of 160 bytes
(`ftw_crash`) holds a header and one single write, the next one fitting only in part,
and 312 bytes (`ftw_errors`) two allocations of two writes, the second behind the
first, and a header but no record behind that, so that every request soon meets a
full workspace, and reclaims happen in every position; `ftw_alloc_reclaim` has 232,
a single write and one of two records.
Nothing bounds the number of requests or power losses: the log starts again at
each reclaim, so that the state space is finite by itself. `DxeEvent`: two or
three events at two levels plus the core's own at a third, so that a dispatch can
be interrupted by one of a higher level and followed by one of a lower; two nested
interrupts, since an interrupt inside the end of an interrupt is the least that
makes a dispatch inside a dispatch inside an interrupt; the clock saturates at 2,
after which timers still expire. Nothing bounds the number of service calls.
`Variable`: a header is 1, a small record 2 and the common part 6, so that it
holds three small records or a large one, and a bare header is told from a record;
an update soon needs a Reclaim and some do not fit even then; at runtime there is
room for two; there is room for one hardware error record. The contents of a
variable are symmetric, and the large variable has one. One flash error suffices to
put the store, the cache and the totals apart; power may fail any number of times. `SmmRendezvous`: three processors
are the least with an AP that is on time and one that is late; two SMIs show what
one leaves to the next, and with two processors three are within reach for
liveness; two procedures per SMI, one of which may still run when the next is
started. With three processors three of the four flows are checked: the fourth,
traditional with election and without MTRRs, has the barriers of one and the
election of the other, and is among the four of `smm_live`. `HandleDb`: two handles and two installations, calls two deep, so that a
window opens inside a window; two drivers that may follow each other and an agent
with exclusive access. Handles and interface pointers are symmetric.

`DxeEvent` runs do not check deadlock: an ASSERT stops the processor, and does so
in the reachable states that `event_range` shows.

Fairness. `Ftw`: a powered driver takes its next step (it is straight-line code
without waiting) and power comes back; liveness is stated only of behaviours in
which power eventually stops failing. `DxeEvent`: the timer keeps ticking, and code
that is interrupted gets on at whatever depth it is (strong fairness of the steps
at each depth): a tick's work takes less time than the period between ticks,
without which no firmware would boot. Drivers need not call anything. Its liveness
properties hold of behaviours in which no ASSERT of `CoreRaiseTpl` fails. `SmmRendezvous`: each
processor takes its next step when it can (weak fairness), a latched SMI is
delivered to a processor outside SMM, and a wait with a timeout ends; the chipset
need not raise SMIs.

## Theorems

Every theorem is proved for every value of the constants that the modules' named
assumptions allow.

### Ftw

`TypeCorrect` (`FtwProofs`): `Spec => []TypeOK`, for every set of targets, block and
workspace size, set of allocations and kind of device. `TypeOK` is not inductive:
the block that FtwWrite programs is built from the request's target, which is a
target only while a write request is in progress, and what a procedure returns to
is a label of the right kind only if it was called. The strengthening `CallOK` says
so: which procedures may be running for which callers, that initialisation labels
appear only while booting, and that the request has data exactly while a write is
in progress. `CallNext` proves it kept by every action, one step per action; the
lemmas `Type...` prove the types, one lemma per procedure.

`HeaderStaysCurrent` (`FtwProofs`): `Spec => []HeaderPointerCurrent`, again with no
condition. The pointer survives because WorkSpaceRefresh has made room for one write
before FtwWrite takes it, so that the FtwAllocate inside FtwWrite never reclaims; the
invariant `HeaderKept` says that while FtwWrite is in that allocation the workspace is
refreshed and the pointer is the end of the log.

`FtwAtomicProofs` proves `WritesAreAtomic` (`AtomicWrites`, the refinement of
`FtwAtomic`), `SpareIsReserved` (`SpareNotReused`), `SuccessMeansWritten`
(`WrittenOnSuccess`), `WorkSpaceIsNeverLost` (`WorkSpaceSurvives`) and
`NoBlockIsTorn` (`NothingTorn`), each as
`OnlyWholeRecords /\ Spec /\ []AllocationFits => ...`, for any targets, with or without
data in the working block and a boot block, any number of cells, any workspace and any
number of power losses. The conditions are those the code needs, and TLC shows for each
that the result fails without it:

* `OnlyWholeRecords` is about the constants: a target's FVB is there when the driver
  starts (else `MCFtwNoFvb.cfg`), and the device replaces bits, or it reports no errors
  and an allocation is of one write (else a record may be programmed over another one
  and read as neither: `MCFtwSticky.cfg`).
* `AllocationFits` is about the callers: what FtwAllocate is asked for fits behind the
  log or does not fit in an empty workspace either, so that FtwAllocate does not reclaim
  after it has computed its offset (else the finding `ftw_alloc_reclaim`). It holds in
  the instances of `ftw_crash` and `ftw_errors`. `SingleAllocationsFit` proves it of
  `Spec` where every allocation is of one write without private data.

`SingleWritesAreAtomic` puts these together for such callers: the variable driver
passes no PrivateData and lets FtwWrite allocate (Reclaim.c:146), and for it writes are
atomic if the FVB is there at the start and the device replaces bits or reports no
errors, with nothing assumed of the callers. `AllocationsAreVisible` (`AllocateVisible`)
is stated for the same callers only: where FtwAllocate reclaims it is false, and that it
does not reclaim for them is the content of `SingleAllocationsFit`.

The inductive invariant is `Sound`: the types, `CallOK` and `HeaderKept` from
`FtwProofs`, and

* `ControlOK`: who may be called by whom, and what the request then holds;
* `LogsOK`: no stray header, an allocated header lies inside the workspace, a record
  that is written names a target and its blocks;
* `FlashOK`: between any two steps the working block is whole or the spare block stands
  for it; a plain target is whole but for the cells that the spare block holds while the
  record says so; the machine boots from a whole block, and TopSwap is set only while a
  boot block update is pending;
* `Phases`: for each label what of this holds in particular. It is where the order of
  the device operations enters: for instance, at `Flush.erase` the working block's
  header is invalid and the spare block's valid, at `Record.dest` the target has all
  that the spare block holds of it, and before `Reclaim` nothing is pending;
* `Unwritten`: where bits cannot be replaced, a record that a power loss has left behind
  is aborted by InitFtwProtocol before any other request.

None of the properties is inductive without all of these: `SpareNotReused` at a reclaim
depends on how the request that caused it was reached, `WrittenOnSuccess` on what was in
the spare block four operations earlier, and the refinement on both. For the refinement,
`Seen` says what readers find in terms of `FlashOK` alone, `ContentIsSeen` that
FaultTolerantWritePei finds the same, and one lemma per action that the step leaves it
unchanged (`Same`) or is one whole write (`OneWrite`): the latter happens at `WriteSpare`,
and for the boot block when TopSwap is set, at no other step. `Lasting` says in the same
lemmas that a valid workspace remains.

### DxeEvent

`NothingOverlooked`: `Spec => []QueuedIsPending`. The inductive invariant adds that the
queues are a function of the levels. The two places that matter are the clearing of
the bit, which happens in the same locked section that found the queue empty, and
`CoreNotifyEvent`, which sets the bit with the insertion.

`EventTypes`, `NothingLinkedTwice`, `NotificationsNest`, `TimerLockIsFree`,
`NoSignalLost` and `ClosedIsUnlinked` rest on one inductive
invariant, `EventInv`, of six parts:

* `StackOK` (in `DxeEventNesting`): there are levels, one per activation, that start
  with `gEfiCurrentTpl` and such that each activation fits its level (`Fits`: a
  notification function runs at its event's TPL, code that holds `mEfiTimerLock` at
  the lock's), that what an activation returns to has the level it has saved, and
  that of any two the upper may be above the lower (`Above`): a notification function
  is of a higher level than everything it interrupts that is not itself lowering the
  TPL, and above code that holds `mEfiTimerLock` there is only the core's own. Levels
  are needed because `gEfiCurrentTpl` says nothing of the activations below the
  running one. One case escapes: the TPL `(UINTN)-1` of the finding `event_range` can
  be dispatched on top of a holder of the lock. Nothing runs after it, since
  `CoreRaiseTpl` asserts, and `Above` allows exactly that.
* `QueueTypes`, `ListTypes`: every list has an event once, and a queue those of its
  level; `gEventSignalQueue` has open events.
* `AllRely`: what an activation found out before it was interrupted is still so. A
  timer that CoreSetTimer or CoreCheckTimers is about to insert is not linked, an event
  that is being created is new, one that CoreCloseEvent has unlinked stays unlinked.
  Only the absence of a holder below the running activation makes this inductive.
* `DataTypes` and `Control`: the remaining types; `mEfiTimerLock` is held by an
  activation, and the list is walked with interrupts disabled.

`NoSignalLost` adds that an event that is new is not signalled, and speaks of the walk
of the list by positions, which a new head of the list cannot shift because a walk
that is interrupted has not begun.

`ClosedIsUnlinked` is `Spec /\ []NotSetWhileClosing => []ClosedUnlinked`. CoreCloseEvent
cancels the timer and then takes the lock under which it unlinks the event. A
notification function that sets the timer of that event in between leaves a freed
event on `mEfiTimerList`; nothing in the code prevents it, so this is what
CoreCloseEvent relies on of its callers, and the theorem has it as a hypothesis. It
holds of the instance of `event`, where the boot flow alone sets the timer of the
event that is closed. The invariant `CloseInv` says that an event that is closed while
its timer is armed has the cancellation of its timer above it on the stack.

### HandleDb

`DatabaseConsistent` (`TypeOK`), `NothingSkipped` (`NoneSkipped`), `EveryoneNotified`
(`NotifiedOfAll`), `SingleManager` (`OneManager`) and `RemovalsAreClosed` (the action
property `RemovedIsClosed`), for any number of handles, protocols, agents,
registrations and any depth of calls in the windows. The invariant says that a
registration's Position is the head or a link of the list it walks, that the links up
to it are what the registration was given, in order, and what each frame of the stack
still has to do: a registration may lack something it is due (`CaughtUp`) only if its
event is signalled or being notified, or a reinstallation below has yet to notify; and
it is due nothing that is not in the list (`Owed`), which is why a walk to the end of
the list is enough. An open record that excludes
others is alone with the frames above the one that is stopping its predecessor.
Removal of a link is a `SubSeq` with a hole; the lemmas of `ListLemmas` say what it does
to positions and to the set of links. Assumed of the constants: `"none"` is neither a
handle nor a protocol.

### Variable

`VariableTypes` (`TypeOK`) and `SpaceIsAccounted` (`SpaceAccounted`): the totals are the
sizes of the records, and within the quotas, after every update, deletion, reclaim,
flash error and power loss. The lemmas are about sums over positions: they split over
disjoint sets of positions, change by one record when one is added, and are the same
for the records a `Reclaim` picks, in whatever order. `TotalSize` is a recursive
function, whose step is enough for these; no induction over stores is needed. The
invariant has a part for what the next start will count and this one does not:
`Reserved` says that there is room for the bare header of a record that is being
programmed or that a failed write left.

`FreeAreaIsErased` (`FreeAreaErased`): while no write has failed in this boot, a request
begins with erased flash behind the last record. The invariant `Inv` says for each label
of an update which record, if any, is without its State. Its part `Stored` relates
flash and cache: the cache is the walk's beginning of the store, but for contents that
were torn; behind it the walk ends, or there is one record without its State, the
last (`Rest`); and behind a bare header there is no header (`Flash`).

`UpdatesAreAtomic`, `SuccessStored` and `OneAddedRecord` are the action properties
`UpdatesAtomic`, `SuccessIsStored` and `AddedStaysOne`: every step from an orderly store
shows the old or the new content, the start that steps over a bare header included. That
a store is orderly is a condition of each
property and not an invariant: two updates cut short by power loss leave two records
of a variable in transition, which is the finding `variable_delete`, and a record
programmed over what a failed write left is what `MCVariableSuccess.cfg` shows.

### SmmRendezvous

`TypeCorrect` (`TypeOK`), `OneBspAtATime` (`OneBsp`), `TheCountedTakePart`
(`CountedTakePart`), `AllBackToZero` (`NothingCarriedOver`), `ProceduresAreAskedFor`
(`RunsWhatWasAsked`), `MtrrsChangeInStep` (`MtrrsInStep`) and `NobodyOutsideSmm`
(`NobodyOutside`), for any number of processors from two on, any set of
configurations, any number of SMIs and of procedures. Each is of the form
`RelySpec => []P`, with the two timing assumptions above; `MCSmmCheckOut.cfg` and the run
`smm_broadcast` show what fails without them. `GatheredFlows` is
`PromptSpec => [](Gather => ...)` for all the properties but the types: in the
traditional flow, or with MTRRs to configure, `Timely` alone is enough, because an AP
that comes late finds the door locked and never sets its Present flag.

All rest on one inductive invariant, `IndInv`: there are a configuration `g` and a
place `w[c]` for every processor such that `Inv(g, w)` holds.

* `Where`: `todo[c]` is `Rest(g, w[c])`, the program at that place. A processor's
  future is a function of its place (0 is outside SMM, 20 to 39 are APHandler, 50 to 95
  BSPHandler), and from here on the proof is about numbers: a step that starts at
  `StepAt(p)` leads to `NextAt(g, p)` or to the place of the program it jumps to.
* `Leader`: at most one processor is at a place of the BSP; with election `bspIndex` is
  that one or nobody, without it always the boot processor; `insideSmm` is set while
  that processor is between the status read and the release of the APs.
* `Counts`: `cpuCount` is the number of processors at places between check-in and
  check-out until the door is locked; then `apCount` is the number of APs among them.
  The BSP's semaphore is the number of APs behind the signal of the barrier
  that comes next. This is why the proof needs cardinalities: a step of one
  processor moves it into or out of one set, and a count that has reached its bound
  says that a set is everybody.
* `Members`, with `Match`: at which places an AP may be, with what in its semaphore,
  Busy lock and Procedure, when its BSP is at place `p`. The barriers are most of it:
  an AP is at most one barrier ahead of its BSP or one behind. In the handlers an AP
  is `Idle`, `Working` or `Finishing` (its procedure done, its Busy lock not released);
  between the loops of a broadcast all are alike, which is where `NobodySlipsIn` enters.
* `Flags`, with `Own`: a processor's Present flag, Busy lock, Procedure and MTRRs are
  a function of its place as far as `Match` leaves them open.
* `Quiesced`: once a BSP has read the SMI status nobody is giving up or still clearing
  AllCpusInSync for the SMI before (`Timely` enters here); once it has locked the door and
  waited for all nobody is between check-in and APHandler; at its end nobody is an AP.
* `Reached`: in a configuration that gathers the APs, from SmmWaitForApArrival on a
  processor outside SMM has an SMI latched.

No property is inductive alone. `OneBsp` needs that everybody the last BSP counted has
gone (`Quiesced`, from `Counts` at the last barrier), `CountedTakePart` that the count was
right before the door was locked, `RunsWhatWasAsked` that a released AP was not
already on its way. The lemmas, in the order of the file: the programs and their
places; counting; what holds of a place; for every step that it keeps each part of
`Inv`, first for entry, then for APs, then for the BSP; that `Inv` implies the
properties.

### What TLC alone checks

All liveness, for which the proof system has no rules: the invariants and action
properties of every run are theorems, except those of the violations and of the
further configurations above, which do not hold.
No module uses recursive operators; `TotalSize` is a recursive function.

## Findings

Four runs expect a violation; `PROJECT.json` quotes the lines.

1. `ftw_alloc_reclaim`: `FtwAllocate` uses an offset it computed before reclaiming
   the workspace. An allocation that needs the reclaim reports success and is not
   there.
2. `event_range`: `CoreRestoreTpl` can lower the TPL below a notification that an
   interrupt queued after its last test of `gEventPending`. When a later
   `CoreRestoreTpl` finds it, an interrupt between its two reads of `gEventPending`
   makes `gEfiCurrentTpl` `(UINTN)-1`. If that interrupt does not come, the
   notification is dispatched in the end (`event_live`).
3. `variable_delete`: two updates of a variable cut short by power loss leave two of
   its records in transition. A deletion deletes one, reports success, and the older
   content is the variable again.
4. `smm_broadcast`: `InternalSmmStartupAllAPs` looks at the Present flags in each of its
   three loops. In the relaxed flow an AP that arrives between them is released without
   its Busy lock or without a procedure.

Observations made while modelling, that the configurations above or the text of the
modules record: the gap between check and lock of an installation
(Handle.c:466-476) lets a handle have one protocol twice; ConfigSmmCodeAccessCheck
waits for ever if an AP it counts on is not there (PiSmmCpuCommon.c:1536); a Reclaim whose fault tolerant write fails after the spare block is complete is
finished by the next boot, which undoes the updates made in between; the variable
write protocol is installed even if the Reclaim at start failed (VariableDxe.c).

## What is left out

In the modelled parts: a header or record that is itself torn inside (a log write
is one step); requests of zero writes; a working block that spans several blocks;
the HOB that PEI builds; the runtime event list, the idle event and protocol
notifications in CloseEvent; waiting for several events at once; list links as
data (an insertion is one step); a caller that closes an event another one is
signalling. The drivers of the model do not signal an ungrouped event while it is
being closed. In `Variable`: the volatile store and variables in a HOB, appending,
authenticated variables and policies, the quota for user variables, VarErrorFlag,
the emulated store, a header torn inside or spanning two blocks. In `SmmRendezvous`: hot-plug, switching of
the BSP and its election by the platform, tokens and the status procedures return,
an AP that ConfigSmmCodeAccessCheck does not find, what the first SMI initialises. In `HandleDb`: which drivers
`CoreConnectController` starts (any driver may open), the wrappers for several
protocols, device paths, the queries.

Components that are not modelled, with the reasons, are in `PROJECT.json`.

## Plan

Done: `Ftw`, `DxeEvent`, `Variable` (composed with `FtwAtomic` by assumption),
`SmmRendezvous`, `HandleDb`, and their safety theorems. Next:

1. `MpServices`: AP states, wake-up, timeout against late completion.
2. `Dispatcher` with the depex evaluator against a reference definition; `HandleDb`
   composed with `DxeEvent`, so that a registration is notified at its TPL.
3. `VariablePolicy`, `MemoryMap`: operators against reference definitions.
