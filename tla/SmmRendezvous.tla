--------------------------- MODULE SmmRendezvous ---------------------------
(***************************************************************************)
(* The rendezvous of the processors in system management mode              *)
(* (UefiCpuPkg/PiSmmCpuDxeSmm/MpService.c over Library/SmmCpuSyncLib).     *)
(*                                                                         *)
(* An SMI brings every processor into SmiRendezvous, each in its own time. *)
(* They check in, one of them becomes the BSP, and the BSP and the APs go  *)
(* through a sequence of numbered barriers (#1 to #13 in the code) made of *)
(* one counting semaphore per processor.  Between the barriers the BSP     *)
(* runs the SMI handlers, which may start procedures on the APs.           *)
(*                                                                         *)
(* The straight-line code of a processor is the sequence todo[c] of the    *)
(* steps it still has to take; it is empty outside SMM.  A step is one     *)
(* access to the shared state, or several that no other processor can tell *)
(* apart.  A timeout may expire at any time.                               *)
(***************************************************************************)
EXTENDS Integers, Sequences, FiniteSets

CONSTANTS
  N,             \* mNumberOfCpus
  Configs,       \* the builds and platforms considered: see ConfigType
  MaxSmis,       \* bound: SMIs raised by the chipset
  MaxCalls       \* bound: procedures started on APs in one SMI

(***************************************************************************)
(* sync: the sync mode is MmCpuSyncModeTradition; mtrrs:                   *)
(* SmmCpuFeaturesNeedConfigureMtrrs; debug: mSmmDebugAgentSupport;         *)
(* election: PcdCpuSmmEnableBspElection.                                   *)
(***************************************************************************)
ConfigType ==
  [sync : BOOLEAN, mtrrs : BOOLEAN, debug : BOOLEAN, election : BOOLEAN]

ASSUME SmmAssumption ==
  /\ N \in Nat \ {0, 1}
  /\ Configs \subseteq ConfigType
  /\ MaxSmis \in Nat
  /\ MaxCalls \in Nat

Cpu == 1 .. N
Locked == -1     \* MAX_UINT32 in CpuCount: the door is locked
NoBsp == 0       \* MAX_UINT32 in BspIndex
BootBsp == 1     \* the BSP outside SMM, used when there is no election

VARIABLES
  config,        \* what the build and the platform fixed
  cpuCount,      \* SMM_CPU_SYNC_CONTEXT.CpuCount
  run,           \* SMM_CPU_SYNC_CONTEXT.CpuSem[c].Run
  insideSmm,     \* *mSmmMpSyncData->InsideSmm
  allCpusInSync, \* *mSmmMpSyncData->AllCpusInSync
  bspIndex,      \* mSmmMpSyncData->BspIndex
  present,       \* *CpuData[c].Present
  busy,          \* *CpuData[c].Busy is acquired
  requested,     \* CpuData[c].Procedure was set and has not been run since
  mtrr,          \* whose memory types the CPU's MTRRs hold
  smiStatus,     \* the platform's top level SMI status bit
  smiPending,    \* an SMI is latched for the CPU
  smis,          \* SMIs raised so far
  todo,          \* the steps the CPU still has to take in SMM
  validSmi,      \* SmiRendezvous's ValidSmi
  bsp,           \* APHandler's BspIndex
  apCount,       \* BSPHandler's ApCount
  calls,         \* procedures started in this SMI
  waitFor        \* the AP a blocking SmmStartupThisAp waits for

shared == <<cpuCount, insideSmm, allCpusInSync, bspIndex>>
cpuData == <<present, busy, requested, mtrr>>
smi == <<smiStatus, smiPending, smis>>
local == <<validSmi, bsp, apCount, calls, waitFor>>
vars == <<config, shared, run, cpuData, smi, todo, local>>

(***************************************************************************)
(* Programs.                                                               *)
(***************************************************************************)
If(cond, steps) == IF cond THEN steps ELSE <<>>

\* The APs are gathered before the handlers run.
Gather == config.sync \/ config.mtrrs

\* Mutant: the BSP programs its MTRRs before the APs have saved theirs (#3).
ProgramMtrrsEarly ==
  <<"backup", "program", "waitAPs", "release", "waitAPs", "release">>

\* BSPHandler, #3 to #6.
ProgramMtrrs ==
  <<"backup", "waitAPs", "release", "program", "waitAPs", "release">>

\* Mutant: the BSP ends the SMI without waiting for the APs (#13).
EndSmiAlone == <<"absent", "unelect", "reset", "unsync", "spin">>

\* BSPHandler, #13 and after, and the end of SmiRendezvous.
EndSmi == <<"absent", "waitAPs", "unelect", "reset", "unsync", "spin">>

\* BSPHandler.
BspProgram ==
     <<"inside", "status">>
  \o If(Gather, <<"arrive", "arrive2", "sync", "lock", "waitAPs", "release">>)
  \o If(config.mtrrs, ProgramMtrrs)
  \o If(Gather, <<"waitAPs">>)
  \o <<"own", "handler", "drain", "tasks">>
  \o If(~Gather, <<"sync", "lock", "gather">>)
  \o <<"leave", "release">>
  \o If(config.mtrrs, <<"waitAPs", "release", "restore">>)
  \o If(config.mtrrs \/ config.debug, <<"waitAPs", "release">>)
  \o EndSmi

\* APHandler once the BSP is there, then the end of SmiRendezvous.
ApProgram ==
     <<"present">>
  \o If(Gather, <<"signal", "waitBsp">>)
  \o If(config.mtrrs, <<"backup", "signal", "waitBsp",
                        "program", "signal", "waitBsp">>)
  \o If(Gather, <<"signal">>)
  \o <<"loop">>
  \o If(config.mtrrs, <<"signal", "waitBsp", "restore">>)
  \o If(config.mtrrs \/ config.debug, <<"signal", "waitBsp">>)
  \o <<"absent", "signal", "spin">>

At(c, step) == todo[c] # <<>> /\ Head(todo[c]) = step
Continue(c) == todo' = [todo EXCEPT ![c] = Tail(@)]
Goto(c, steps) == todo' = [todo EXCEPT ![c] = steps]
Call(c, steps) == todo' = [todo EXCEPT ![c] = steps \o @]

\* IsPresentAp, asked by the BSP b.
PresentAps(b) == {c \in Cpu \ {b} : present[c]}

(***************************************************************************)
(* SmiRendezvous.                                                          *)
(***************************************************************************)
\* The chipset raises an SMI, which is latched for every CPU.
RaiseSmi ==
  /\ smis < MaxSmis
  /\ smis' = smis + 1
  /\ smiStatus' = TRUE
  /\ smiPending' = [c \in Cpu |-> TRUE]
  /\ UNCHANGED <<config, shared, run, cpuData, todo, local>>

EnterSmm(c) ==
  /\ todo[c] = <<>>
  /\ smiPending[c]
  /\ smiPending' = [smiPending EXCEPT ![c] = FALSE]
  /\ Goto(c, <<"valid", "look">>)
  /\ UNCHANGED <<config, shared, run, cpuData, smiStatus, smis, local>>

PlatformValidSmi(c) ==
  /\ At(c, "valid")
  /\ validSmi' = [validSmi EXCEPT ![c] = smiStatus]
  /\ Continue(c)
  /\ UNCHANGED <<config, shared, run, cpuData, smi, bsp, apCount, calls, waitFor>>

\* BspInProgress is sampled after ValidSmi; with neither the CPU leaves.
SampleInsideSmm(c) ==
  /\ At(c, "look")
  /\ Goto(c, IF insideSmm THEN <<"checkin", "await", "spin">>
             ELSE If(validSmi[c], <<"checkin", "elect", "await", "spin">>))
  /\ validSmi' = [validSmi EXCEPT ![c] = FALSE]
  /\ UNCHANGED <<config, shared, run, cpuData, smi, bsp, apCount, calls, waitFor>>

\* SmmCpuSyncCheckInCpu; a CPU that finds the door locked only waits for the
\* others to leave.
CheckIn(c) ==
  /\ At(c, "checkin")
  /\ IF cpuCount = Locked
     THEN Goto(c, <<"spin">>) /\ UNCHANGED <<cpuCount, busy>>
     ELSE /\ cpuCount' = cpuCount + 1
          /\ busy' = [busy EXCEPT ![c] = FALSE]
          /\ Continue(c)
  /\ UNCHANGED <<config, run, insideSmm, allCpusInSync, bspIndex, present,
                 requested, mtrr, smi, local>>

\* The platform hook does not decide, so that the first CPU to exchange
\* BspIndex is the BSP.
Elect(c) ==
  /\ At(c, "elect")
  /\ bspIndex' = IF config.election /\ bspIndex = NoBsp THEN c ELSE bspIndex
  /\ IF bspIndex' = c THEN Goto(c, BspProgram) ELSE Continue(c)
  /\ UNCHANGED <<config, cpuCount, insideSmm, allCpusInSync, run, cpuData, smi,
                 local>>

\* The last wait of SmiRendezvous, for the BSP to end this SMI.
LeaveSmm(c) ==
  /\ At(c, "spin")
  /\ ~allCpusInSync
  /\ Continue(c)
  /\ bsp' = [bsp EXCEPT ![c] = NoBsp]
  /\ UNCHANGED <<config, shared, run, cpuData, smi, validSmi, apCount, calls,
                 waitFor>>

(***************************************************************************)
(* APHandler.                                                              *)
(***************************************************************************)
\* InsideSmm is seen in one of the two waits, or after them.
BspArrived(c) ==
  /\ At(c, "await") \/ At(c, "await2")
  /\ insideSmm
  /\ bsp' = [bsp EXCEPT ![c] = bspIndex]
  /\ Goto(c, ApProgram)
  /\ UNCHANGED <<config, shared, run, cpuData, smi, validSmi, apCount, calls,
                 waitFor>>

FirstTimeout(c) ==
  /\ At(c, "await")
  /\ ~insideSmm
  /\ Goto(c, <<"who", "spin">>)
  /\ UNCHANGED <<config, shared, run, cpuData, smi, local>>

\* Send an SMI to the BSP when it is known, else give up.
CallBsp(c) ==
  /\ At(c, "who")
  /\ IF bspIndex = NoBsp
     THEN Goto(c, <<"giveup", "spin">>) /\ UNCHANGED smiPending
     ELSE /\ smiPending' = [smiPending EXCEPT ![bspIndex] = TRUE]
          /\ Goto(c, <<"await2", "spin">>)
  /\ UNCHANGED <<config, shared, run, cpuData, smiStatus, smis, local>>

SecondTimeout(c) ==
  /\ At(c, "await2")
  /\ ~insideSmm
  /\ Goto(c, <<"giveup", "spin">>)
  /\ UNCHANGED <<config, shared, run, cpuData, smi, local>>

\* Mutant: an AP that gives up stays in the count.
CheckOutForgotten(c) ==
  /\ At(c, "giveup")
  /\ Continue(c)
  /\ UNCHANGED <<config, shared, run, cpuData, smi, local>>

\* SmmCpuSyncCheckOutCpu, whose status is not looked at: behind a locked door
\* it changes nothing, and with no CPU counted it waits.
CheckOut(c) ==
  /\ At(c, "giveup")
  /\ cpuCount # 0
  /\ cpuCount' = IF cpuCount = Locked THEN Locked ELSE cpuCount - 1
  /\ Continue(c)
  /\ UNCHANGED <<config, run, insideSmm, allCpusInSync, bspIndex, cpuData, smi,
                 local>>

SetPresent(c) ==
  /\ At(c, "present")
  /\ present' = [present EXCEPT ![c] = TRUE]
  /\ Continue(c)
  /\ UNCHANGED <<config, shared, run, busy, requested, mtrr, smi, local>>

\* SmmCpuSyncReleaseBsp.
ReleaseBsp(c) ==
  /\ At(c, "signal")
  /\ run' = [run EXCEPT ![bsp[c]] = @ + 1]
  /\ Continue(c)
  /\ UNCHANGED <<config, shared, cpuData, smi, local>>

\* SmmCpuSyncWaitForBsp.
WaitForBsp(c) ==
  /\ At(c, "waitBsp")
  /\ run[c] > 0
  /\ run' = [run EXCEPT ![c] = @ - 1]
  /\ Continue(c)
  /\ UNCHANGED <<config, shared, cpuData, smi, local>>

\* #8: wait for something to happen.
WaitForWork(c) ==
  /\ At(c, "loop")
  /\ run[c] > 0
  /\ run' = [run EXCEPT ![c] = @ - 1]
  /\ Call(c, <<"check">>)
  /\ UNCHANGED <<config, shared, cpuData, smi, local>>

\* The BSP wants to leave SMM, or the AP runs the scheduled procedure.
CheckExit(c) ==
  /\ At(c, "check")
  /\ Goto(c, IF insideSmm THEN <<"procedure">> \o Tail(todo[c])
             ELSE Tail(Tail(todo[c])))
  /\ UNCHANGED <<config, shared, run, cpuData, smi, local>>

ProcedureReturns(c) ==
  /\ At(c, "procedure")
  /\ requested[c]
  /\ requested' = [requested EXCEPT ![c] = FALSE]
  /\ UNCHANGED <<config, shared, run, present, busy, mtrr, smi, todo, local>>

ReleaseBusy(c) ==
  /\ At(c, "procedure")
  /\ ~requested[c]
  /\ busy' = [busy EXCEPT ![c] = FALSE]
  /\ Continue(c)
  /\ UNCHANGED <<config, shared, run, present, requested, mtrr, smi, local>>

(***************************************************************************)
(* Steps of the BSP and of the APs.                                        *)
(***************************************************************************)
BackupMtrrs(c) ==
  /\ At(c, "backup")
  /\ Continue(c)
  /\ UNCHANGED <<config, shared, run, cpuData, smi, local>>

\* ReplaceOSMtrrs, and the restoring of what was saved.
SetMtrrs(c) ==
  /\ At(c, "program") \/ At(c, "restore")
  /\ mtrr' = [mtrr EXCEPT ![c] = IF At(c, "program") THEN "smm" ELSE "os"]
  /\ Continue(c)
  /\ UNCHANGED <<config, shared, run, present, busy, requested, smi, local>>

\* Mutant: Present is left set.
ClearPresentForgotten(c) ==
  /\ At(c, "absent")
  /\ Continue(c)
  /\ UNCHANGED <<config, shared, run, cpuData, smi, local>>

ClearPresent(c) ==
  /\ At(c, "absent")
  /\ present' = [present EXCEPT ![c] = FALSE]
  /\ Continue(c)
  /\ UNCHANGED <<config, shared, run, busy, requested, mtrr, smi, local>>

(***************************************************************************)
(* BSPHandler.                                                             *)
(***************************************************************************)
FlagInsideSmm(b) ==
  /\ At(b, "inside")
  /\ insideSmm' = TRUE
  /\ Continue(b)
  /\ UNCHANGED <<config, cpuCount, allCpusInSync, bspIndex, run, cpuData, smi,
                 local>>

\* Present, and ClearTopLevelSmiStatus, an access to the chipset.
ClearSmiStatus(b) ==
  /\ At(b, "status")
  /\ present' = [present EXCEPT ![b] = TRUE]
  /\ smiStatus' = FALSE
  /\ calls' = 0
  /\ Continue(b)
  /\ UNCHANGED <<config, shared, run, busy, requested, mtrr, smiPending, smis,
                 validSmi, bsp, apCount, waitFor>>

\* Mutant: the missing CPUs are not sent an SMI.
FirstArrivalWaitEndsQuietly(b) ==
  /\ At(b, "arrive")
  /\ Goto(b, If(cpuCount < N, <<"arrive2">>) \o Tail(Tail(todo[b])))
  /\ UNCHANGED <<config, shared, run, cpuData, smi, local>>

\* SmmWaitForApArrival: the first wait ends, and CPUs that are not there are
\* sent an SMI.  A wait ends because all have arrived, because the others are
\* blocked or disabled, because of a local machine check, or by its timeout.
FirstArrivalWaitEnds(b) ==
  /\ At(b, "arrive")
  /\ IF cpuCount < N
     THEN /\ smiPending' = [c \in Cpu |-> smiPending[c] \/ ~present[c]]
          /\ Continue(b)
     ELSE UNCHANGED smiPending /\ Goto(b, Tail(Tail(todo[b])))
  /\ UNCHANGED <<config, shared, run, cpuData, smiStatus, smis, local>>

SecondArrivalWaitEnds(b) ==
  /\ At(b, "arrive2")
  /\ Continue(b)
  /\ UNCHANGED <<config, shared, run, cpuData, smi, local>>

FlagAllCpusInSync(b) ==
  /\ At(b, "sync")
  /\ allCpusInSync' = TRUE
  /\ Continue(b)
  /\ UNCHANGED <<config, cpuCount, insideSmm, bspIndex, run, cpuData, smi, local>>

\* Mutant: the BSP counts itself among the APs.
LockDoorOffByOne(b) ==
  /\ At(b, "lock")
  /\ apCount' = cpuCount
  /\ cpuCount' = Locked
  /\ Continue(b)
  /\ UNCHANGED <<config, insideSmm, allCpusInSync, bspIndex, run, cpuData, smi,
                 validSmi, bsp, calls, waitFor>>

\* SmmCpuSyncLockDoor.
LockDoor(b) ==
  /\ At(b, "lock")
  /\ apCount' = cpuCount - 1
  /\ cpuCount' = Locked
  /\ Continue(b)
  /\ UNCHANGED <<config, insideSmm, allCpusInSync, bspIndex, run, cpuData, smi,
                 validSmi, bsp, calls, waitFor>>

\* SmmCpuSyncWaitForAPs.
WaitForAPs(b) ==
  /\ At(b, "waitAPs")
  /\ run[b] >= apCount
  /\ run' = [run EXCEPT ![b] = @ - apCount]
  /\ Continue(b)
  /\ UNCHANGED <<config, shared, cpuData, smi, local>>

ReleaseAllAPs(b) ==
  /\ At(b, "release")
  /\ run' = [c \in Cpu |-> IF c \in PresentAps(b) THEN run[c] + 1 ELSE run[c]]
  /\ Continue(b)
  /\ UNCHANGED <<config, shared, cpuData, smi, local>>

\* Mutant: the BSP does not wait for the Present flags.
AllPresentSkipped(b) ==
  /\ At(b, "gather")
  /\ Continue(b)
  /\ UNCHANGED <<config, shared, run, cpuData, smi, local>>

\* Relaxed flow: every AP that has checked in has its Present flag set.
AllPresent(b) ==
  /\ At(b, "gather")
  /\ Cardinality({c \in Cpu : present[c]}) > apCount
  /\ Continue(b)
  /\ UNCHANGED <<config, shared, run, cpuData, smi, local>>

FlagLeaveSmm(b) ==
  /\ At(b, "leave")
  /\ insideSmm' = FALSE
  /\ Continue(b)
  /\ UNCHANGED <<config, cpuCount, allCpusInSync, bspIndex, run, cpuData, smi,
                 local>>

ResetBspIndex(b) ==
  /\ At(b, "unelect")
  /\ bspIndex' = IF config.election THEN NoBsp ELSE bspIndex
  /\ Continue(b)
  /\ UNCHANGED <<config, cpuCount, insideSmm, allCpusInSync, run, cpuData, smi,
                 local>>

\* Mutant: the door stays locked.
ContextResetForgotten(b) ==
  /\ At(b, "reset")
  /\ apCount' = 0
  /\ Continue(b)
  /\ UNCHANGED <<config, shared, run, cpuData, smi, validSmi, bsp, calls, waitFor>>

\* SmmCpuSyncContextReset: CPUs may check in from here on.
ContextReset(b) ==
  /\ At(b, "reset")
  /\ cpuCount' = 0
  /\ apCount' = 0
  /\ Continue(b)
  /\ UNCHANGED <<config, insideSmm, allCpusInSync, bspIndex, run, cpuData, smi,
                 validSmi, bsp, calls, waitFor>>

ClearAllCpusInSync(b) ==
  /\ At(b, "unsync")
  /\ allCpusInSync' = FALSE
  /\ Continue(b)
  /\ UNCHANGED <<config, cpuCount, insideSmm, bspIndex, run, cpuData, smi, local>>

(***************************************************************************)
(* The SMI handlers and PerformRemainingTasks, run by the BSP, start       *)
(* procedures on APs.                                                      *)
(***************************************************************************)
\* The BSP acquires its own Busy lock before the handlers run.
AcquireOwnBusy(b) ==
  /\ At(b, "own")
  /\ ~busy[b]
  /\ busy' = [busy EXCEPT ![b] = TRUE]
  /\ Continue(b)
  /\ UNCHANGED <<config, shared, run, present, requested, mtrr, smi, local>>

\* InternalSmmStartupThisAp, up to the release of the AP.
Schedule(b, ap) ==
  /\ calls < MaxCalls
  /\ ap \in PresentAps(b)
  /\ ~busy[ap]
  /\ busy' = [busy EXCEPT ![ap] = TRUE]
  /\ requested' = [requested EXCEPT ![ap] = TRUE]
  /\ run' = [run EXCEPT ![ap] = @ + 1]
  /\ calls' = calls + 1
  /\ UNCHANGED <<config, shared, present, mtrr, smi, validSmi, bsp, apCount>>

\* With no token it waits for the procedure to end.  ConfigSmmCodeAccessCheck,
\* which PerformPreTasks calls after a resume, is a call without the wait.
StartupThisAp(b, ap, block) ==
  /\ At(b, "handler")
  /\ Schedule(b, ap)
  /\ IF block THEN waitFor' = ap /\ Call(b, <<"notbusy">>)
     ELSE UNCHANGED <<waitFor, todo>>

ProcedureDone(b) ==
  /\ At(b, "notbusy")
  /\ ~busy[waitFor]
  /\ waitFor' = NoBsp
  /\ Continue(b)
  /\ UNCHANGED <<config, shared, run, cpuData, smi, validSmi, bsp, apCount, calls>>

\* InternalSmmStartupAllAPs looks at Present in each of its loops.  The
\* broadcasts of PerformRemainingTasks (FlushTlbForAll) wait.
StartupAllAPs(b, block) ==
  /\ At(b, "handler") \/ (At(b, "tasks") /\ block)
  /\ calls < MaxCalls
  /\ PresentAps(b) # {}
  /\ \A ap \in PresentAps(b) : ~busy[ap]
  /\ calls' = calls + 1
  /\ Call(b, <<"acquire", "assign", "release">> \o If(block, <<"drain">>))
  /\ UNCHANGED <<config, shared, run, cpuData, smi, validSmi, bsp, apCount, waitFor>>

AcquireAllBusy(b) ==
  /\ At(b, "acquire")
  /\ \A ap \in PresentAps(b) : ~busy[ap]
  /\ busy' = [c \in Cpu |-> busy[c] \/ c \in PresentAps(b)]
  /\ Continue(b)
  /\ UNCHANGED <<config, shared, run, present, requested, mtrr, smi, local>>

AssignProcedures(b) ==
  /\ At(b, "assign")
  /\ requested' = [c \in Cpu |-> requested[c] \/ c \in PresentAps(b)]
  /\ Continue(b)
  /\ UNCHANGED <<config, shared, run, present, busy, mtrr, smi, local>>

\* SmmCpuRendezvous of a BSP that has not gathered the APs: the waits of
\* SmmWaitForApArrival, which end at any time, and the SMI between them.
SmmCpuRendezvous(b) ==
  /\ At(b, "handler") \/ At(b, "tasks")
  /\ ~Gather
  /\ cpuCount < N
  /\ smiPending' = [c \in Cpu |-> smiPending[c] \/ ~present[c]]
  /\ UNCHANGED <<config, shared, run, cpuData, smiStatus, smis, todo, local>>

\* The SMI handlers, or the remaining tasks, return.
HandlersReturn(b) ==
  /\ At(b, "handler") \/ At(b, "tasks")
  /\ Continue(b)
  /\ UNCHANGED <<config, shared, run, cpuData, smi, local>>

\* ConfigSmmCodeAccessCheck on an AP, with mConfigSmmCodeAccessCheckLock held.
ConfigSmmCodeAccessCheck(b, ap) ==
  /\ At(b, "tasks")
  /\ Schedule(b, ap)
  /\ Call(b, <<"ran">>)
  /\ UNCHANGED waitFor

\* The procedure, the only one asked for, has released that lock; the AP may
\* still hold its Busy lock.
CodeAccessChecked(b) ==
  /\ At(b, "ran")
  /\ \A ap \in Cpu : ~requested[ap]
  /\ Continue(b)
  /\ UNCHANGED <<config, shared, run, cpuData, smi, local>>

\* Mutant: the BSP does not wait for the procedures it left running.
WaitForAllAPsNotBusySkipped(b) ==
  /\ At(b, "drain")
  /\ Continue(b)
  /\ UNCHANGED <<config, shared, run, cpuData, smi, local>>

\* WaitForAllAPsNotBusy in block mode.
WaitForAllAPsNotBusy(b) ==
  /\ At(b, "drain")
  /\ \A ap \in PresentAps(b) : ~busy[ap]
  /\ Continue(b)
  /\ UNCHANGED <<config, shared, run, cpuData, smi, local>>

(***************************************************************************)
(* Specification.                                                          *)
(***************************************************************************)
Init ==
  /\ config \in Configs
  /\ cpuCount = 0
  /\ run = [c \in Cpu |-> 0]
  /\ insideSmm = FALSE
  /\ allCpusInSync = FALSE
  /\ bspIndex = IF config.election THEN NoBsp ELSE BootBsp
  /\ present = [c \in Cpu |-> FALSE]
  /\ busy = [c \in Cpu |-> FALSE]
  /\ requested = [c \in Cpu |-> FALSE]
  /\ mtrr = [c \in Cpu |-> "os"]
  /\ smiStatus = FALSE
  /\ smiPending = [c \in Cpu |-> FALSE]
  /\ smis = 0
  /\ todo = [c \in Cpu |-> <<>>]
  /\ validSmi = [c \in Cpu |-> FALSE]
  /\ bsp = [c \in Cpu |-> NoBsp]
  /\ apCount = 0
  /\ calls = 0
  /\ waitFor = NoBsp

Rendezvous(c) ==
  \/ EnterSmm(c) \/ PlatformValidSmi(c) \/ SampleInsideSmm(c) \/ CheckIn(c)
  \/ Elect(c) \/ LeaveSmm(c)

ApStep(c) ==
  \/ BspArrived(c) \/ FirstTimeout(c) \/ CallBsp(c) \/ SecondTimeout(c)
  \/ CheckOut(c) \/ SetPresent(c) \/ ReleaseBsp(c) \/ WaitForBsp(c)
  \/ WaitForWork(c) \/ CheckExit(c) \/ ProcedureReturns(c) \/ ReleaseBusy(c)

CommonStep(c) == BackupMtrrs(c) \/ SetMtrrs(c) \/ ClearPresent(c)

BspStep(b) ==
  \/ FlagInsideSmm(b) \/ ClearSmiStatus(b)
  \/ FirstArrivalWaitEnds(b) \/ SecondArrivalWaitEnds(b)
  \/ FlagAllCpusInSync(b) \/ LockDoor(b) \/ WaitForAPs(b) \/ ReleaseAllAPs(b)
  \/ AllPresent(b) \/ FlagLeaveSmm(b)
  \/ ResetBspIndex(b) \/ ContextReset(b) \/ ClearAllCpusInSync(b)

HandlerStep(b) ==
  \/ AcquireOwnBusy(b)
  \/ \E ap \in Cpu, block \in BOOLEAN : StartupThisAp(b, ap, block)
  \/ \E block \in BOOLEAN : StartupAllAPs(b, block)
  \/ ProcedureDone(b) \/ AcquireAllBusy(b) \/ AssignProcedures(b)
  \/ HandlersReturn(b) \/ WaitForAllAPsNotBusy(b) \/ SmmCpuRendezvous(b)
  \/ \E ap \in Cpu : ConfigSmmCodeAccessCheck(b, ap)
  \/ CodeAccessChecked(b)

Step(c) ==
  Rendezvous(c) \/ ApStep(c) \/ CommonStep(c) \/ BspStep(c) \/ HandlerStep(c)

\* No further SMI comes and every CPU is back in the operating system.
Quiet ==
  /\ smis = MaxSmis
  /\ \A c \in Cpu : todo[c] = <<>> /\ ~smiPending[c]
  /\ UNCHANGED vars

Next == RaiseSmi \/ (\E c \in Cpu : Step(c)) \/ Quiet

Spec == Init /\ [][Next]_vars

Has(c, step) == \E i \in DOMAIN todo[c] : todo[c][i] = step

\* In BSPHandler, up to the reset of the context.
InBspHandler(c) == Has(c, "reset")

\* In the SMI handlers or the remaining tasks.
InHandlers(b) == InBspHandler(b) /\ Has(b, "tasks") /\ ~Has(b, "own")

(***************************************************************************)
(* Two things that the code does not enforce and leaves to timing.         *)
(***************************************************************************)
\* The CPU is in the straight-line code between its last look at InsideSmm and
\* its check-out, or between the reset of the context and AllCpusInSync.
BetweenTwoStores(c) == At(c, "giveup") \/ At(c, "unsync")

\* That code does not outlast the way of a BSP from the entry into SMM to the
\* clearing of the SMI status.
Timely ==
  \A b \in Cpu : At(b, "status") /\ todo'[b] # todo[b] =>
    \A c \in Cpu : ~BetweenTwoStores(c)

\* No AP sets its Present flag between the loops of InternalSmmStartupAllAPs:
\* those that are assigned a procedure and released are those whose Busy lock
\* was acquired.
NobodySlipsIn ==
  \A b \in Cpu : InHandlers(b) /\ (At(b, "assign") \/ At(b, "release")) =>
    \A ap \in PresentAps(b) : busy[ap]

PromptSpec == Init /\ [][Next /\ Timely]_vars
RelySpec == Init /\ [][Next /\ Timely /\ NobodySlipsIn']_vars

\* A CPU with work to do in SMM does it, a latched SMI is delivered, a wait
\* with a timeout ends.
FairSpec == RelySpec /\ \A c \in Cpu : WF_vars(Step(c))

(***************************************************************************)
(* Properties.                                                             *)
(***************************************************************************)
StepNames ==
  {"valid", "look", "checkin", "elect", "spin", "await", "who", "await2",
   "giveup", "present", "signal", "waitBsp", "loop", "check", "procedure",
   "backup", "program", "restore", "absent", "inside", "status", "arrive",
   "arrive2", "sync", "lock", "waitAPs", "release", "gather", "leave",
   "unelect", "reset", "unsync", "own", "handler", "drain", "notbusy",
   "acquire", "assign", "tasks", "ran"}

\* The variables keep their types; a semaphore never counts more signals than
\* there are CPUs to send them.
TypeOK ==
  /\ config \in Configs
  /\ cpuCount \in {Locked} \cup 0 .. N
  /\ run \in [Cpu -> 0 .. N]
  /\ insideSmm \in BOOLEAN /\ allCpusInSync \in BOOLEAN
  /\ bspIndex \in Cpu \cup {NoBsp}
  /\ present \in [Cpu -> BOOLEAN] /\ busy \in [Cpu -> BOOLEAN]
  /\ requested \in [Cpu -> BOOLEAN]
  /\ mtrr \in [Cpu -> {"os", "smm"}]
  /\ smiStatus \in BOOLEAN /\ smiPending \in [Cpu -> BOOLEAN]
  /\ smis \in 0 .. MaxSmis
  /\ DOMAIN todo = Cpu
  /\ \A c \in Cpu : \A i \in DOMAIN todo[c] : todo[c][i] \in StepNames
  /\ validSmi \in [Cpu -> BOOLEAN] /\ bsp \in [Cpu -> Cpu \cup {NoBsp}]
  /\ apCount \in 0 .. N - 1 /\ calls \in 0 .. MaxCalls
  /\ waitFor \in Cpu \cup {NoBsp}

\* Checked in and on its way through APHandler, or about to find out that it
\* is an AP.
InApHandler(c) ==
  /\ ~InBspHandler(c)
  /\ \/ Has(c, "absent")
     \/ /\ todo[c] # <<>>
        /\ Head(todo[c]) \in {"elect", "await", "who", "await2"}

\* At most one CPU is in BSPHandler, and the APs that signal a BSP signal that
\* one: a CPU is elected only once everyone the last BSP counted has gone.
OneBsp ==
  \A b \in Cpu : InBspHandler(b) =>
    /\ \A c \in Cpu \ {b} : ~InBspHandler(c)
    /\ \A c \in Cpu : Has(c, "signal") => bsp[c] = b

\* From the locking of the door to the end of the handlers, the APs the BSP
\* counted are exactly the CPUs in APHandler: one that has given up has left
\* the count, and so the BSP waits for nobody who does not come.
CountedTakePart ==
  cpuCount = Locked /\ insideSmm =>
    apCount = Cardinality({c \in Cpu : InApHandler(c)})

\* When the BSP ends an SMI every semaphore is back to zero, no CPU is flagged
\* present and none is left in APHandler: nothing is carried into the next SMI,
\* where a left-over count would let a CPU through a barrier.
NothingCarriedOver ==
  \A b \in Cpu : At(b, "unelect") \/ At(b, "reset") =>
    \A c \in Cpu : run[c] = 0 /\ ~present[c] /\ ~InApHandler(c) /\ ~requested[c]

\* APHandler's assertion: the Busy lock of an AP that is released from its loop
\* and not told to leave was acquired by the BSP, and there is a procedure it
\* was asked to run; the BSP does not tell the APs to leave while one runs.
RunsWhatWasAsked ==
  \A c \in Cpu :
    /\ At(c, "check") /\ insideSmm => busy[c] /\ requested[c]
    /\ At(c, "procedure") => busy[c] /\ (requested[c] => insideSmm)

\* MTRRs, which the threads of a core share, are saved by everybody before
\* anybody changes them; handlers and procedures run with SMM's; nobody
\* restores them while a procedure or a handler still runs.
MtrrsInStep ==
  config.mtrrs =>
    /\ (\E c \in Cpu : At(c, "backup")) => \A d \in Cpu : mtrr[d] = "os"
    /\ \A b \in Cpu : InHandlers(b) =>
         \A c \in Cpu : (c = b \/ present[c]) => mtrr[c] = "smm"
    /\ \A c \in Cpu : todo[c] = <<>> => mtrr[c] = "os"

\* Traditional flow: while the handlers run no CPU executes code outside SMM
\* (SmmWaitForApArrival): it is in SMM or has an SMI latched.
NobodyOutside ==
  Gather => \A b \in Cpu : InHandlers(b) =>
    \A c \in Cpu : todo[c] # <<>> \/ smiPending[c]

\* Every CPU that enters SMM leaves it: no barrier waits for ever.  BSPHandler's
\* comments at #3 and #5 fear that a barrier "may wait for ever if an AP
\* happens to enter SMM at exactly this point"; such an AP finds the door
\* locked, is not counted and takes no part.
EveryoneLeaves == \A c \in Cpu : todo[c] # <<>> ~> todo[c] = <<>>

\* An SMI raised at any moment is noticed by a BSP, which clears its status.
SmiServed == smiStatus ~> ~smiStatus

=============================================================================
