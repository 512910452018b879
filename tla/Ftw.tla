-------------------------------- MODULE Ftw --------------------------------
(***************************************************************************)
(* The fault tolerant write driver                                         *)
(* (MdeModulePkg/Universal/FaultTolerantWriteDxe) and the flash under it.  *)
(*                                                                         *)
(* A target block is updated by way of a spare block; a log of write       *)
(* headers and records in the working block says how far an update has     *)
(* come, and InitFtwProtocol reads that log after a power loss.  The       *)
(* driver is sequential: what makes it hard is that power can fail, or the *)
(* flash can report an error, between any two device operations.  So a     *)
(* step of this model is one device operation, with the reading and        *)
(* deciding the code does before it.                                       *)
(*                                                                         *)
(* "Between two device operations" includes the inside of a long one:      *)
(* erasing and reprogramming a block is a step that leaves its cells       *)
(* torn and a later step that gives them their new contents.               *)
(***************************************************************************)
EXTENDS Integers, FiniteSets

CONSTANTS
  Targets,     (* blocks written through the protocol; "work" is the data  *)
               (* that shares the working block, "boot" the boot block     *)
  DU,          (* cells of a block                                         *)
  Data,        (* what a programmed cell can hold                          *)
  Torn,        (* a cell that is erased or only partly programmed          *)
  WsSize,      (* FtwWorkSpaceSize, in bytes                               *)
  Allocs,      (* <<NumberOfWrites, PrivateDataSize>> callers may allocate *)
  Implicit,    (* may a caller Write without Allocate (PrivateData = NULL) *)
  Overwrite,   (* does an FVB Write replace bits that are not erased       *)
  FvbErrors,   (* may the flash report errors to a running request         *)
  FvbMissing   (* may a target's FVB be absent when the driver starts      *)

Cells == 1 .. DU
Areas == Targets \cup {"work", "spare", "boot"}

----------------------------------------------------------------------------
(* The layout of the workspace: FaultTolerantWrite.h and the Guid header.  *)

WorkHeaderSize  == 32
WriteHeaderSize == 40
RecordSize      == 40

\* FTW_WRITE_TOTAL_SIZE
WriteTotalSize(n, p) == WriteHeaderSize + n * (RecordSize + p)

ASSUME DUAssumption     == DU \in Nat \ {0}
ASSUME WsSizeAssumption ==
  WsSize \in Nat /\ WsSize >= WorkHeaderSize + WriteTotalSize(1, 0)
ASSUME AllocsAssumption == Allocs \subseteq (Nat \ {0}) \X Nat
ASSUME AreasAssumption  == "spare" \notin Targets /\ Torn \notin Data
ASSUME FlagsAssumption  == {Implicit, Overwrite, FvbErrors, FvbMissing} \subseteq BOOLEAN

NoRec    == [st |-> "erased", t |-> "none", hi |-> 0]
NoHeader == [off |-> 0, n |-> 0, p |-> 0]

(***************************************************************************)
(* The write queue.  Completed headers are passed over by every reader, so *)
(* only the end of the log is kept: off is where FtwGetLastWriteHeader     *)
(* stops, alloc says whether the header there is erased, written, or       *)
(* marked WritesAllocated, done counts its records with                    *)
(* DestinationComplete, and rec is the record FtwGetLastWriteRecord        *)
(* returns.  stray is a header further on that no reader has reached.      *)
(***************************************************************************)
Record == [st : {"erased", "written", "spare"},
           t  : Targets \cup {"none", "boot"},
           hi : 0 .. DU]

Queue == [off : Nat, alloc : {"none", "header", "writes"},
          n : Nat, p : Nat, done : Nat, rec : Record,
          stray : [off : Nat, n : Nat, p : Nat]]

EmptyQueue == [off |-> WorkHeaderSize, alloc |-> "none", n |-> 0, p |-> 0,
               done |-> 0, rec |-> NoRec, stray |-> NoHeader]

\* WorkingBlockValid/WorkingBlockInvalid and the signature: "none" is a
\* block without a workspace header, "signed" one with neither bit set.
HdrState == {"none", "signed", "valid", "invalid"}

Image == [data : [Cells -> Data \cup {Torn}], hdr : HdrState, q : Queue]

BlankImage == [data |-> [u \in Cells |-> Torn], hdr |-> "none", q |-> EmptyQueue]

SetValid(h)   == IF h = "signed" THEN "valid" ELSE h
SetInvalid(h) == IF h = "none" THEN "none" ELSE "invalid"

IsValidWorkSpace(img) == img.hdr = "valid"

\* A stray header that lies where a record is expected is read as a record:
\* HeaderAllocated is BootBlockUpdate, WritesAllocated is SpareComplete.
RecordAt(q, off) ==
  IF q.stray.off = off /\ off # 0 THEN [st |-> "spare", t |-> "boot", hi |-> DU]
                                  ELSE NoRec

CurrentRecordOffset(q) ==
  q.off + WriteHeaderSize + q.done * (RecordSize + q.p)

\* Setting WRITES_COMPLETED: every later reader walks past this header ...
CompleteHeader(q) ==
  [EmptyQueue EXCEPT !.off = q.off + WriteTotalSize(q.n, q.p), !.stray = q.stray]

\* ... and finds the stray header if it lies exactly there.
FtwGetLastWriteHeader(q) ==
  IF q.alloc = "none" /\ q.stray.off = q.off
  THEN [EmptyQueue EXCEPT !.off = q.off, !.alloc = "writes",
                          !.n = q.stray.n, !.p = q.stray.p]
  ELSE q

\* Setting DEST_COMPLETED: the next record becomes the last write record.
CompleteRecord(q) ==
  LET r == [q EXCEPT !.done = @ + 1, !.rec = NoRec]
  IN  IF r.done = r.n THEN r
      ELSE [r EXCEPT !.rec = RecordAt(r, CurrentRecordOffset(r))]

\* Mutant: the log stays where it is.
ReclaimedInPlace(q, preserve) == q

\* The queue FtwReclaimWorkSpace copies to the start of the new workspace.
ReclaimedQueue(q, preserve) ==
  IF preserve /\ q.alloc # "none"
  THEN [q EXCEPT !.off = WorkHeaderSize, !.stray = NoHeader]
  ELSE EmptyQueue

----------------------------------------------------------------------------
VARIABLES
  flash,     (* [Areas -> Image], survives power loss                      *)
  swap,      (* the chipset's TopSwap bit, survives power loss             *)
  pc,        (* where the driver is                                        *)
  ret,       (* where its procedures return to                             *)
  arg,       (* the request it executes                                    *)
  save,      (* SpareBuffer: the spare block's contents, to be restored    *)
  hOff,      (* offset of the Header pointer taken before an allocation    *)
  keep,      (* PreserveRecord                                             *)
  booting    (* InitFtwProtocol has not installed the protocol yet         *)

vars   == <<flash, swap, pc, ret, arg, save, hOff, keep, booting>>
locals == <<ret, arg, save, hOff, keep, booting>>

NoRet == [reclaim |-> "Idle", flush |-> "Idle", boot |-> "Idle", record |-> "Idle",
          alloc |-> "Idle", abort |-> "Idle", restart |-> "Idle"]
NoArg == [t |-> "none", lo |-> 1, hi |-> 1, d |-> Torn, priv |-> FALSE,
          n |-> 0, p |-> 0]

\* TopSwap exchanges the addresses of the spare and the boot block.
SpareArea == IF swap THEN "boot" ELSE "spare"
BootArea  == IF swap THEN "spare" ELSE "boot"
AreaOf(t) == IF t = "boot" THEN BootArea ELSE t

Work  == flash["work"]
Spare == flash[SpareArea]
LastWrite == FtwGetLastWriteHeader(Work.q)

----------------------------------------------------------------------------
(* Device operations.                                                      *)

\* FtwUpdateFvState, WriteWorkSpaceData: one bit or one record changes.
Update(a, img) == flash' = [flash EXCEPT ![a] = img]

\* A block write has begun: the cells 1..hi are torn; a workspace header in the
\* block is still the old one, erased, or already the new one, and the log
\* behind it may be gone whichever it is.
BeginRewrite(a, hi, newHdr) ==
  \E h \in {flash[a].hdr, "none", newHdr}, log \in {flash[a].q, EmptyQueue} :
    flash' = [flash EXCEPT ![a] =
               [data |-> [u \in Cells |-> IF u <= hi THEN Torn ELSE @.data[u]],
                hdr  |-> h,
                q    |-> log]]

(* Control.                                                                *)

Step(from, to) == pc = from /\ pc' = to /\ UNCHANGED locals

\* The request is answered, or the driver is up: nothing volatile matters.
Return ==
  /\ pc' = "Idle"
  /\ ret' = NoRet /\ arg' = NoArg /\ save' = BlankImage
  /\ hOff' = 0 /\ keep' = TRUE /\ booting' = FALSE

Continue(l) == IF l = "Idle" THEN Return ELSE pc' = l /\ UNCHANGED locals

----------------------------------------------------------------------------
(* WorkSpaceRefresh, at the start of every request.                        *)

\* Mutant: room for a header is taken for room for a write.
NeedsReclaimHeaderOnly == WsSize - Work.q.off < WriteHeaderSize

NeedsReclaim == WsSize - Work.q.off < WriteTotalSize(1, 0)

Refreshed == IsValidWorkSpace(Work) /\ ~NeedsReclaim

\* The workspace is full: reclaim it, then read it again.
RefreshReclaims ==
  /\ pc \in {"Init", "Allocate", "Write", "Restart", "Abort", "GetLastWrite"}
  /\ IsValidWorkSpace(Work) /\ NeedsReclaim
  /\ pc' = "Reclaim"
  /\ ret' = [ret EXCEPT !.reclaim = pc] /\ keep' = TRUE
  /\ UNCHANGED <<flash, swap, arg, save, hOff, booting>>

\* The workspace is not valid: the request fails with EFI_ABORTED.
RefreshAborts ==
  /\ ~IsValidWorkSpace(Work)
  /\ \/ pc \in {"Allocate", "Write", "GetLastWrite"} /\ Return
     \/ pc = "Restart" /\ Continue(ret.restart)
     \/ pc = "Abort" /\ Continue(ret.abort)
  /\ UNCHANGED <<flash, swap>>

----------------------------------------------------------------------------
(* FtwReclaimWorkSpace.                                                    *)

ReclaimErase ==
  /\ pc = "Reclaim" /\ pc' = "Reclaim.program"
  /\ save' = Spare
  /\ BeginRewrite(SpareArea, DU, "signed")
  /\ UNCHANGED <<swap, ret, arg, hOff, keep, booting>>

ReclaimProgram ==
  /\ Step("Reclaim.program", "Reclaim.valid")
  /\ Update(SpareArea, [data |-> Work.data, hdr |-> "signed",
                        q |-> ReclaimedQueue(LastWrite, keep)])
  /\ UNCHANGED swap

\* Mutant: the valid bit is left for later.
ReclaimValidSkipped ==
  /\ Step("Reclaim.valid", "Reclaim.invalid")
  /\ UNCHANGED <<flash, swap>>

ReclaimValid ==
  /\ Step("Reclaim.valid", "Reclaim.invalid")
  /\ Update(SpareArea, [Spare EXCEPT !.hdr = SetValid(@)])
  /\ UNCHANGED swap

ReclaimInvalid ==
  /\ pc = "Reclaim.invalid" /\ pc' = "Flush"
  /\ Update("work", [Work EXCEPT !.hdr = SetInvalid(@)])
  /\ ret' = [ret EXCEPT !.flush = "Reclaim.restore"]
  /\ UNCHANGED <<swap, arg, save, hOff, keep, booting>>

\* The spare block gets its former contents back.
ReclaimRestore ==
  /\ Step("Reclaim.restore", "Reclaim.restored")
  /\ BeginRewrite(SpareArea, DU, save.hdr)
  /\ UNCHANGED swap

ReclaimRestored ==
  /\ pc = "Reclaim.restored"
  /\ Update(SpareArea, save)
  /\ Continue(ret.reclaim)
  /\ UNCHANGED swap

----------------------------------------------------------------------------
(* FlushSpareBlockToWorkingBlock.                                          *)

\* The status of this update is ignored.
FlushValid ==
  /\ Step("Flush", "Flush.invalid")
  /\ \/ Update(SpareArea, [Spare EXCEPT !.hdr = SetValid(@)])
     \/ FvbErrors /\ ~booting /\ UNCHANGED flash
  /\ UNCHANGED swap

FlushInvalid ==
  /\ Step("Flush.invalid", "Flush.erase")
  /\ Update("work", [Work EXCEPT !.hdr = SetInvalid(@)])
  /\ UNCHANGED swap

FlushErase ==
  /\ Step("Flush.erase", "Flush.program")
  /\ BeginRewrite("work", DU, "signed")
  /\ UNCHANGED swap

FlushProgram ==
  /\ Step("Flush.program", "Flush.done")
  /\ Update("work", [Spare EXCEPT !.hdr = "signed"])
  /\ UNCHANGED swap

FlushDone ==
  /\ pc = "Flush.done"
  /\ Update("work", [Work EXCEPT !.hdr = SetValid(@)])
  /\ Continue(ret.flush)
  /\ UNCHANGED swap

----------------------------------------------------------------------------
(* FlushSpareBlockToBootBlock.  With TopSwap set the code's spare block is *)
(* the boot block and the machine would boot from the spare block.         *)

BootSwap ==
  /\ Step("Boot", "Boot.erase")
  /\ swap' = TRUE
  /\ UNCHANGED flash

\* Mutant: the block the machine would boot from is rewritten.
BootEraseInPlace ==
  /\ Step("Boot.erase", "Boot.program")
  /\ BeginRewrite(BootArea, DU, "none")
  /\ UNCHANGED swap

BootErase ==
  /\ Step("Boot.erase", "Boot.program")
  /\ BeginRewrite(SpareArea, DU, "none")
  /\ UNCHANGED swap

BootProgram ==
  /\ Step("Boot.program", "Boot.unswap")
  /\ Update(SpareArea, flash[BootArea])
  /\ UNCHANGED swap

BootUnswap ==
  /\ pc = "Boot.unswap"
  /\ swap' = FALSE
  /\ Continue(ret.boot)
  /\ UNCHANGED flash

----------------------------------------------------------------------------
(* FtwWriteRecord: the spare block is complete; bring the target up to it. *)

RecordFlush ==
  /\ pc = "Record"
  /\ \/ /\ arg.t = "work" /\ pc' = "Flush"
        /\ Update(SpareArea, [Spare EXCEPT !.q.rec.st = "spare"])
        /\ ret' = [ret EXCEPT !.flush = "Record.dest"]
     \/ /\ arg.t = "boot" /\ pc' = "Boot"
        /\ ret' = [ret EXCEPT !.boot = "Record.dest"]
        /\ UNCHANGED flash
     \/ /\ arg.t \notin {"work", "boot"} /\ pc' = "Target.program"
        /\ BeginRewrite(arg.t, arg.hi, "none")
        /\ UNCHANGED ret
  /\ UNCHANGED <<swap, arg, save, hOff, keep, booting>>

\* FlushSpareBlockToTargetBlock
TargetProgram ==
  /\ Step("Target.program", "Record.dest")
  /\ flash' = [flash EXCEPT ![arg.t].data =
                 [u \in Cells |-> IF u <= arg.hi THEN Spare.data[u] ELSE @[u]]]
  /\ UNCHANGED swap

\* Mutant: DEST_COMPLETED is not recorded.
RecordDestSkipped ==
  /\ pc = "Record.dest"
  /\ Continue(ret.record)
  /\ UNCHANGED <<flash, swap>>

RecordDest ==
  /\ pc = "Record.dest"
  /\ Update("work", [Work EXCEPT !.q = CompleteRecord(LastWrite)])
  /\ IF LastWrite.done + 1 = LastWrite.n
     THEN pc' = "Record.complete" /\ UNCHANGED locals
     ELSE Continue(ret.record)
  /\ UNCHANGED swap

RecordComplete ==
  /\ pc = "Record.complete"
  /\ Update("work", [Work EXCEPT !.q = CompleteHeader(LastWrite)])
  /\ Continue(ret.record)
  /\ UNCHANGED swap

----------------------------------------------------------------------------
(* FtwAllocate.  Offset is computed before the workspace may be reclaimed. *)

Allocate ==
  /\ pc = "Allocate" /\ Refreshed
  /\ \/ /\ \/ WriteTotalSize(arg.n, arg.p) > WsSize - WorkHeaderSize
           \/ LastWrite.alloc # "none"
        /\ Return
     \/ /\ WriteTotalSize(arg.n, arg.p) <= WsSize - WorkHeaderSize
        /\ LastWrite.alloc = "none"
        /\ hOff' = LastWrite.off
        /\ IF LastWrite.off + WriteTotalSize(arg.n, arg.p) > WsSize
           THEN /\ pc' = "Reclaim" /\ keep' = TRUE
                /\ ret' = [ret EXCEPT !.reclaim = "Allocate.header"]
           ELSE pc' = "Allocate.header" /\ UNCHANGED <<keep, ret>>
        /\ UNCHANGED <<arg, save, booting>>
  /\ UNCHANGED <<flash, swap>>

\* The header is written at that Offset, wherever the log now ends.
HeaderAt(q, off, n, p) ==
  LET r == [EmptyQueue EXCEPT !.off = q.off, !.alloc = "header",
                              !.n = n, !.p = p, !.stray = q.stray]
  IN  IF off = q.off
      THEN [r EXCEPT !.rec = RecordAt(r, CurrentRecordOffset(r))]
      ELSE [q EXCEPT !.stray = [off |-> off, n |-> n, p |-> p]]

AllocateHeader ==
  /\ Step("Allocate.header", "Allocate.writes")
  /\ Update("work", [Work EXCEPT !.q = HeaderAt(@, hOff, arg.n, arg.p)])
  /\ UNCHANGED swap

AllocateWrites ==
  /\ pc = "Allocate.writes"
  /\ Update("work", [Work EXCEPT !.q.alloc = IF @ = "header" THEN "writes" ELSE @])
  /\ Continue(ret.alloc)
  /\ UNCHANGED swap

----------------------------------------------------------------------------
(* FtwWrite.                                                               *)

WriteStart ==
  /\ pc = "Write" /\ Refreshed
  /\ \/ LastWrite.alloc = "none" /\ arg.priv /\ Return
     \/ /\ LastWrite.alloc = "none" /\ ~arg.priv
        /\ pc' = "Allocate"
        /\ arg' = [arg EXCEPT !.n = 1, !.p = 0]
        /\ ret' = [ret EXCEPT !.alloc = "Write.record"]
        /\ hOff' = LastWrite.off
        /\ UNCHANGED <<save, keep, booting>>
     \/ /\ LastWrite.alloc # "none"
        /\ pc' = "Write.record"
        /\ hOff' = LastWrite.off
        /\ UNCHANGED <<ret, arg, save, keep, booting>>
  /\ UNCHANGED <<flash, swap>>

\* Programming a record that is not erased merges the bits of both.
ProgramRecord(old, new) ==
  IF Overwrite \/ old.st = "erased" \/ old = new THEN {new}
  ELSE [st : {"written"}, t : Targets, hi : Cells]

\* Mutant: one block too many.
WriteBlocksRoundedUp(t, hi) == hi + 1

\* NumberOfWriteBlocks; the working block is one block.
WriteBlocks(t, hi) == IF t = "work" THEN DU ELSE hi

WriteRecord ==
  /\ pc = "Write.record" /\ hOff = LastWrite.off
  /\ \/ /\ LastWrite.done = LastWrite.n \/ LastWrite.rec.st = "spare"
        /\ Return
        /\ UNCHANGED flash
     \/ /\ LastWrite.done # LastWrite.n /\ LastWrite.rec.st # "spare"
        /\ \E r \in ProgramRecord(LastWrite.rec,
                       [st |-> "written", t |-> arg.t, hi |-> WriteBlocks(arg.t, arg.hi)]) :
             Update("work", [Work EXCEPT !.q = [LastWrite EXCEPT !.rec = r]])
        /\ pc' = "Write.erase" /\ UNCHANGED locals
  /\ UNCHANGED swap

WriteErase ==
  /\ pc = "Write.erase" /\ pc' = "Write.program"
  /\ save' = Spare
  /\ BeginRewrite(SpareArea, DU, IF arg.t = "work" THEN Work.hdr ELSE "none")
  /\ UNCHANGED <<swap, ret, arg, hOff, keep, booting>>

\* A buffer is programmed into the spare block; with the working block comes
\* its workspace.
WriteBuffer(new) ==
  /\ Step("Write.program", "Write.spare")
  /\ Update(SpareArea, IF arg.t = "work" THEN [Work EXCEPT !.data = new]
                                         ELSE [BlankImage EXCEPT !.data = new])
  /\ UNCHANGED swap

\* Mutants: the caller's last cell is left out; the blocks are read backwards.
WriteProgramShort ==
  WriteBuffer([u \in Cells |->
    IF u \in arg.lo .. arg.hi - 1 THEN arg.d
    ELSE IF u <= WriteBlocks(arg.t, arg.hi) THEN flash[AreaOf(arg.t)].data[u]
    ELSE Torn])
WriteProgramBackwards ==
  WriteBuffer([u \in Cells |->
    IF u \in arg.lo .. arg.hi THEN arg.d
    ELSE IF u <= WriteBlocks(arg.t, arg.hi) THEN flash[AreaOf(arg.t)].data[DU + 1 - u]
    ELSE Torn])

\* MyBuffer: the target's blocks with the caller's data over them.
WriteProgram ==
  WriteBuffer([u \in Cells |->
    IF u \in arg.lo .. arg.hi THEN arg.d
    ELSE IF u <= WriteBlocks(arg.t, arg.hi) THEN flash[AreaOf(arg.t)].data[u]
    ELSE Torn])

WriteSpare ==
  /\ pc = "Write.spare" /\ pc' = "Record"
  /\ Update("work", [Work EXCEPT !.q.rec.st = "spare"])
  /\ ret' = [ret EXCEPT !.record = "Write.restore"]
  /\ UNCHANGED <<swap, arg, save, hOff, keep, booting>>

WriteRestore ==
  /\ Step("Write.restore", "Write.restored")
  /\ BeginRewrite(SpareArea, DU, save.hdr)
  /\ UNCHANGED swap

WriteRestored ==
  /\ pc = "Write.restored"
  /\ Update(SpareArea, save)
  /\ Return
  /\ UNCHANGED swap

----------------------------------------------------------------------------
(* FtwRestart, FtwAbort, FtwGetLastWrite.                                  *)

Restart ==
  /\ pc = "Restart" /\ Refreshed
  /\ \/ LastWrite.rec.st # "spare" /\ Continue(ret.restart)
     \/ /\ LastWrite.rec.st = "spare"
        /\ pc' = "Record"
        /\ arg' = [NoArg EXCEPT !.t = LastWrite.rec.t, !.hi = LastWrite.rec.hi]
        /\ ret' = [ret EXCEPT !.record = "Restart.erase"]
        /\ UNCHANGED <<save, hOff, keep, booting>>
  /\ UNCHANGED <<flash, swap>>

RestartErase ==
  /\ Step("Restart.erase", "Restart.erased")
  /\ BeginRewrite(SpareArea, DU, "none")
  /\ UNCHANGED swap

RestartErased ==
  /\ pc = "Restart.erased"
  /\ Update(SpareArea, BlankImage)
  /\ Continue(ret.restart)
  /\ UNCHANGED swap

Abort ==
  /\ pc = "Abort" /\ Refreshed
  /\ IF LastWrite.alloc = "none" THEN UNCHANGED flash
     ELSE Update("work", [Work EXCEPT !.q = CompleteHeader(LastWrite)])
  /\ Continue(ret.abort)
  /\ UNCHANGED swap

\* The last record is done but the header is not marked Complete.
LastRecordDone == LastWrite.alloc # "none" /\ LastWrite.done = LastWrite.n

\* The first record never got as far as SpareComplete.
FirstRecordUnsaved ==
  LastWrite.alloc # "none" /\ LastWrite.done = 0 /\ LastWrite.rec.st # "spare"

GetLastWrite ==
  /\ pc = "GetLastWrite" /\ Refreshed
  /\ IF LastRecordDone \/ FirstRecordUnsaved
     THEN pc' = "Abort" /\ UNCHANGED locals
     ELSE Return
  /\ UNCHANGED <<flash, swap>>

----------------------------------------------------------------------------
(* InitFtwProtocol.                                                        *)

InitWorkSpace ==
  /\ pc = "Init"
  /\ \/ Refreshed /\ pc' = "Init.first" /\ UNCHANGED <<ret, keep>>
     \/ /\ ~IsValidWorkSpace(Work) /\ IsValidWorkSpace(Spare)
        /\ pc' = "Flush" /\ ret' = [ret EXCEPT !.flush = "Abort", !.abort = "Init"]
        /\ UNCHANGED keep
     \/ /\ ~IsValidWorkSpace(Work) /\ ~IsValidWorkSpace(Spare)
        /\ pc' = "Reclaim" /\ ret' = [ret EXCEPT !.reclaim = "Init.first"]
        /\ keep' = FALSE
  /\ UNCHANGED <<flash, swap, arg, save, hOff, booting>>

InitAbort(from, to, cond) ==
  /\ pc = from
  /\ IF cond THEN pc' = "Abort" /\ ret' = [ret EXCEPT !.abort = to]
             ELSE pc' = to /\ UNCHANGED ret
  /\ UNCHANGED <<flash, swap, arg, save, hOff, keep, booting>>

InitFirst == InitAbort("Init.first", "Init.last", FirstRecordUnsaved)
InitLast  == InitAbort("Init.last", "Init.trail", LastRecordDone)

\* Is anything written in the workspace behind the last header's records?
TrailingNotErased ==
  LET q == Work.q
      end == IF q.alloc = "none" THEN q.off ELSE q.off + WriteTotalSize(q.n, q.p)
  IN  q.stray.off # 0 /\ q.stray.off >= end

InitTrail ==
  /\ pc = "Init.trail"
  /\ IF TrailingNotErased
     THEN /\ pc' = "Reclaim" /\ keep' = TRUE
          /\ ret' = [ret EXCEPT !.reclaim = "Init.restart"]
     ELSE pc' = "Init.restart" /\ UNCHANGED <<keep, ret>>
  /\ UNCHANGED <<flash, swap, arg, save, hOff, booting>>

\* Mutant: only a boot block update is restarted.
InitRestartBootOnly ==
  /\ pc = "Init.restart" /\ Return
  /\ UNCHANGED <<flash, swap>>

\* A write that is complete in the spare block is brought to its end.
InitRestart ==
  /\ pc = "Init.restart"
  /\ \/ LastWrite.rec.st # "spare" /\ Return
     \/ /\ LastWrite.rec.st = "spare"
        /\ ret' = [ret EXCEPT !.boot = "Abort", !.restart = "Abort", !.abort = "Idle"]
        /\ pc' \in IF LastWrite.rec.t = "boot"
                   THEN {IF "boot" \in Targets THEN "Boot" ELSE "Abort"}
                   ELSE {"Restart"} \cup IF FvbMissing THEN {"Abort"} ELSE {}
        /\ UNCHANGED <<arg, save, hOff, keep, booting>>
  /\ UNCHANGED <<flash, swap>>

----------------------------------------------------------------------------
(* The environment: callers, the flash device and the power supply.        *)

Call(l, a) ==
  /\ pc = "Idle" /\ pc' = l
  /\ arg' = a
  /\ UNCHANGED <<flash, swap, ret, save, hOff, keep, booting>>

CallAllocate ==
  \E a \in Allocs : Call("Allocate", [NoArg EXCEPT !.n = a[1], !.p = a[2]])

\* A write to the boot block covers all of it (an ASSERT in FtwWrite).
CallWrite ==
  \E t \in Targets, lo \in Cells, d \in Data, priv \in {TRUE, ~Implicit} :
    \E hi \in lo .. DU :
      /\ t = "boot" => hi = DU
      /\ Call("Write", [t |-> t, lo |-> lo, hi |-> hi, d |-> d, priv |-> priv,
                        n |-> 0, p |-> 0])

\* The caller passes the FVB the pending write was started with.
CallRestart ==
  LastWrite.rec.t \in Targets \cup {"none"} /\ Call("Restart", NoArg)

CallGetLastWrite == Call("GetLastWrite", NoArg)

\* A caller does not abort a write that it was told to Restart.
CallAbort == LastWrite.rec.st # "spare" /\ Call("Abort", NoArg)

FvbError ==
  /\ FvbErrors /\ ~booting /\ pc \notin {"Idle", "Off"}
  /\ Return
  /\ UNCHANGED <<flash, swap>>

PowerLoss ==
  /\ pc # "Off" /\ pc' = "Off"
  /\ ret' = NoRet /\ arg' = NoArg /\ save' = BlankImage
  /\ hOff' = 0 /\ keep' = TRUE /\ booting' = FALSE
  /\ UNCHANGED <<flash, swap>>

PowerOn ==
  /\ pc = "Off" /\ pc' = "Init"
  /\ booting' = TRUE
  /\ UNCHANGED <<flash, swap, ret, arg, save, hOff, keep>>

----------------------------------------------------------------------------
\* Flash as it left the factory: every target programmed, the workspace
\* empty or never initialised.
Init ==
  /\ \E c \in [Targets \cup {"work"} -> [Cells -> Data]], h \in {"none", "valid"} :
       flash = [a \in Areas |->
                 IF a \notin Targets \cup {"work"} THEN BlankImage
                 ELSE [data |-> c[a], q |-> EmptyQueue,
                       hdr |-> IF a = "work" THEN h ELSE "none"]]
  /\ swap = FALSE
  /\ pc = "Off" /\ ret = NoRet /\ arg = NoArg /\ save = BlankImage
  /\ hOff = 0 /\ keep = TRUE /\ booting = FALSE

\* One device operation, or one decision, of the driver.
DriverStep ==
  \/ RefreshReclaims \/ RefreshAborts
  \/ ReclaimErase \/ ReclaimProgram \/ ReclaimValid \/ ReclaimInvalid
  \/ ReclaimRestore \/ ReclaimRestored
  \/ FlushValid \/ FlushInvalid \/ FlushErase \/ FlushProgram \/ FlushDone
  \/ BootSwap \/ BootErase \/ BootProgram \/ BootUnswap
  \/ RecordFlush \/ TargetProgram \/ RecordDest \/ RecordComplete
  \/ Allocate \/ AllocateHeader \/ AllocateWrites
  \/ WriteStart \/ WriteRecord \/ WriteErase \/ WriteProgram \/ WriteSpare
  \/ WriteRestore \/ WriteRestored
  \/ Restart \/ RestartErase \/ RestartErased
  \/ Abort \/ GetLastWrite
  \/ InitWorkSpace \/ InitFirst \/ InitLast \/ InitTrail \/ InitRestart

Request == CallAllocate \/ CallWrite \/ CallRestart \/ CallAbort \/ CallGetLastWrite

Next == DriverStep \/ Request \/ FvbError \/ PowerLoss \/ PowerOn

Spec == Init /\ [][Next]_vars

\* A driver that is powered takes its next step, and power comes back.
FairSpec == Spec /\ WF_vars(DriverStep) /\ WF_vars(PowerOn)

----------------------------------------------------------------------------
(* What a reader of the flash finds (FaultTolerantWritePei does it this    *)
(* way before the driver has run): while a write is complete in the spare  *)
(* block but not in its target, and while the working block is being       *)
(* rewritten, the spare block stands for the target.                       *)

Pending == IsValidWorkSpace(Work) /\ LastWrite.rec.st = "spare"

WorkInSpare == ~IsValidWorkSpace(Work) /\ IsValidWorkSpace(Spare)

Content(t) ==
  IF t = "boot" THEN flash[BootArea].data
  ELSE IF t = "work" /\ WorkInSpare THEN Spare.data
  ELSE IF Pending /\ LastWrite.rec.t = t
       THEN [u \in Cells |-> IF u <= LastWrite.rec.hi THEN Spare.data[u]
                                                     ELSE flash[t].data[u]]
  ELSE flash[t].data

----------------------------------------------------------------------------
(* Properties.                                                             *)

Labels ==
  {"Off", "Idle",
   "Init", "Init.first", "Init.last", "Init.trail", "Init.restart",
   "Reclaim", "Reclaim.program", "Reclaim.valid", "Reclaim.invalid",
   "Reclaim.restore", "Reclaim.restored",
   "Flush", "Flush.invalid", "Flush.erase", "Flush.program", "Flush.done",
   "Boot", "Boot.erase", "Boot.program", "Boot.unswap",
   "Record", "Target.program", "Record.dest", "Record.complete",
   "Allocate", "Allocate.header", "Allocate.writes",
   "Write", "Write.record", "Write.erase", "Write.program", "Write.spare",
   "Write.restore", "Write.restored",
   "Restart", "Restart.erase", "Restart.erased", "Abort", "GetLastWrite"}

Returns ==
  [reclaim : {"Idle", "Init", "Init.first", "Init.restart", "Allocate",
              "Allocate.header", "Write", "Restart", "Abort", "GetLastWrite"},
   flush   : {"Idle", "Abort", "Reclaim.restore", "Record.dest"},
   boot    : {"Idle", "Abort", "Record.dest"},
   record  : {"Idle", "Write.restore", "Restart.erase"},
   alloc   : {"Idle", "Write.record"},
   abort   : {"Idle", "Init", "Init.last", "Init.trail"},
   restart : {"Idle", "Abort"}]

Arguments ==
  [t : Targets \cup {"none", "boot"}, lo : Cells, hi : 0 .. DU,
   d : Data \cup {Torn}, priv : BOOLEAN, n : Nat, p : Nat]

FlashType == flash \in [Areas -> Image] /\ swap \in BOOLEAN

ControlType ==
  /\ pc \in Labels
  /\ ret \in Returns
  /\ arg \in Arguments
  /\ save \in Image
  /\ hOff \in Nat
  /\ keep \in BOOLEAN
  /\ booting \in BOOLEAN

\* Types of the flash contents, the driver's locals and its control state.
TypeOK == FlashType /\ ControlType

\* FtwWrite: at all times, power loss included, the original or the modified
\* contents of every target can be read: no reader meets a torn cell.
NothingTorn == \A t \in Targets : Content(t) \in [Cells -> Data]

\* FtwReclaimWorkSpace and FtwWrite share one spare block: it is never reused
\* for something else while it is the only complete copy of a target.
SpareNotReused ==
  pc \in {"Reclaim", "Reclaim.program", "Write.erase", "Write.program",
          "Write.restore", "Write.restored", "Restart.erase", "Restart.erased"}
     => ~Pending

\* FtwWrite keeps using the Header pointer it took before FtwAllocate, which
\* may reclaim the workspace: it still points to the last write header.
HeaderPointerCurrent == pc = "Write.record" => hOff = LastWrite.off

\* FtwWrite returns EFI_SUCCESS only when the caller's data is in the target
\* itself and the log no longer asks for a restart.
WrittenOnSuccess ==
  pc \in {"Write.restore", "Write.restored"} =>
    /\ ~Pending
    /\ \A u \in arg.lo .. arg.hi : flash[AreaOf(arg.t)].data[u] = arg.d

\* Once there is a valid workspace there always is one, in the working block
\* or in the spare block, through every reclaim and every power loss.
WorkSpaceSurvives ==
  [][IsValidWorkSpace(Work) \/ IsValidWorkSpace(Spare)
       => (IsValidWorkSpace(Work) \/ IsValidWorkSpace(Spare))']_vars

\* FtwAllocate: after it succeeds, the writes it allocated are there for
\* FtwWrite, and a second allocation is refused.
AllocateVisible ==
  [][pc = "Allocate.writes" /\ AllocateWrites => LastWrite'.alloc = "writes"]_vars

\* The driver implements atomic block writes.
Atomic == INSTANCE FtwAtomic WITH content <- [t \in Targets |-> Content(t)]

AtomicWrites == Atomic!Spec

\* If power stops failing, the driver comes up and answers every request.
PowerFails == pc # "Off" /\ pc' = "Off"

DriverAnswers == <>[][~PowerFails]_vars => []<>(pc = "Idle")

\* ... and a write that was pending when power came back is in its target.
PendingResolved ==
  <>[][~PowerFails]_vars => (pc = "Init" ~> (pc = "Idle" /\ ~Pending))
=============================================================================
