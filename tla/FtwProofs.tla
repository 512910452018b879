----------------------------- MODULE FtwProofs -----------------------------
(* Theorems about the fault tolerant write driver. *)
EXTENDS Ftw, TLAPS

\* FTW_WRITE_TOTAL_SIZE of a write with at least one record.
LEMMA WriteTotalSizeType ==
  ASSUME NEW n \in Nat, NEW p \in Nat
  PROVE  WriteTotalSize(n, p) \in Nat
<1>1. n * (RecordSize + p) \in Nat
  BY SMT DEF RecordSize
<1> QED
  BY <1>1 DEF WriteTotalSize, WriteHeaderSize

\* What erased flash reads as, and the driver's locals between requests.
LEMMA ConstantTypes ==
  /\ NoRec \in Record
  /\ EmptyQueue \in Queue
  /\ BlankImage \in Image
  /\ NoRet \in Returns
  /\ NoArg \in Arguments
<1>1. NoRec \in Record
  BY DUAssumption DEF NoRec, Record
<1>2. EmptyQueue \in Queue
  BY <1>1 DEF EmptyQueue, Queue, NoHeader, WorkHeaderSize
<1>3. BlankImage \in Image
  BY <1>2 DEF BlankImage, Image, HdrState
<1>4. NoRet \in Returns
  BY DEF NoRet, Returns
<1>5. NoArg \in Arguments
  BY DUAssumption DEF NoArg, Arguments, Cells
<1> QED
  BY <1>1, <1>2, <1>3, <1>4, <1>5

\* Reading and changing the log of writes gives a log of writes.
LEMMA QueueTypes ==
  ASSUME NEW q \in Queue
  PROVE  /\ CompleteHeader(q) \in Queue
         /\ FtwGetLastWriteHeader(q) \in Queue
         /\ CompleteRecord(q) \in Queue
         /\ \A b \in BOOLEAN : ReclaimedQueue(q, b) \in Queue
         /\ \A off, n, p \in Nat : HeaderAt(q, off, n, p) \in Queue
<1>1. \A x : RecordAt(q, x) \in Record
  BY ConstantTypes, DUAssumption DEF RecordAt, Record
<1>2. CompleteHeader(q) \in Queue
  <2>1. q.off \in Nat /\ q.n \in Nat /\ q.p \in Nat
        /\ q.stray \in [off : Nat, n : Nat, p : Nat]
    BY DEF Queue
  <2>2. WriteTotalSize(q.n, q.p) \in Nat
    BY <2>1, WriteTotalSizeType
  <2>3. q.off + WriteTotalSize(q.n, q.p) \in Nat
    BY <2>1, <2>2
  <2> QED
    BY <2>1, <2>3, ConstantTypes DEF CompleteHeader, Queue
<1>3. FtwGetLastWriteHeader(q) \in Queue
  BY ConstantTypes DEF FtwGetLastWriteHeader, Queue
<1>4. CompleteRecord(q) \in Queue
  <2> DEFINE r == [q EXCEPT !.done = @ + 1, !.rec = NoRec]
  <2>0. q.done + 1 \in Nat
    BY DEF Queue
  <2>1. r \in Queue
    BY <2>0, ConstantTypes DEF Queue
  <2>2. \A x : RecordAt(r, x) \in Record
    BY ConstantTypes, DUAssumption DEF RecordAt, Record
  <2>3. [r EXCEPT !.rec = RecordAt(r, CurrentRecordOffset(r))] \in Queue
    BY <2>1, <2>2 DEF Queue
  <2> QED
    BY <2>1, <2>3 DEF CompleteRecord
<1>5. \A b \in BOOLEAN : ReclaimedQueue(q, b) \in Queue
  BY ConstantTypes DEF ReclaimedQueue, Queue, WorkHeaderSize, NoHeader
<1>6. ASSUME NEW off \in Nat, NEW n \in Nat, NEW p \in Nat
      PROVE  HeaderAt(q, off, n, p) \in Queue
  <2> DEFINE r == [EmptyQueue EXCEPT !.off = q.off, !.alloc = "header",
                              !.n = n, !.p = p, !.stray = q.stray]
  <2>1. r \in Queue
    BY ConstantTypes DEF Queue
  <2>2. \A x : RecordAt(r, x) \in Record
    BY ConstantTypes, DUAssumption DEF RecordAt, Record
  <2>3. [r EXCEPT !.rec = RecordAt(r, CurrentRecordOffset(r))] \in Queue
    BY <2>1, <2>2 DEF Queue
  <2>4. [q EXCEPT !.stray = [off |-> off, n |-> n, p |-> p]] \in Queue
    BY DEF Queue
  <2> QED
    BY <2>3, <2>4 DEF HeaderAt
<1> QED
  BY <1>2, <1>3, <1>4, <1>5, <1>6

\* The blocks the driver addresses exist and hold images.
LEMMA AreaTypes ==
  ASSUME FlashType
  PROVE  /\ SpareArea \in Areas /\ BootArea \in Areas /\ "work" \in Areas
         /\ Work \in Image /\ Spare \in Image /\ flash[BootArea] \in Image
         /\ Work.q \in Queue /\ LastWrite \in Queue
<1>1. SpareArea \in Areas /\ BootArea \in Areas /\ "work" \in Areas
  BY DEF SpareArea, BootArea, Areas
<1>2. Work \in Image /\ Spare \in Image /\ flash[BootArea] \in Image
  BY <1>1 DEF FlashType, Work, Spare
<1>3. Work.q \in Queue
  BY <1>2 DEF Image
<1> QED
  BY <1>1, <1>2, <1>3, QueueTypes DEF LastWrite

\* A device operation leaves images in every block.
LEMMA UpdateType ==
  ASSUME FlashType, NEW a \in Areas, NEW img \in Image, Update(a, img)
  PROVE  flash' \in [Areas -> Image]
BY DEF FlashType, Update

\* A block write that has begun leaves images, with some cells torn.
LEMMA BeginRewriteType ==
  ASSUME FlashType, NEW a \in Areas, NEW hi \in Int, NEW h \in HdrState,
         BeginRewrite(a, hi, h)
  PROVE  flash' \in [Areas -> Image]
<1>1. PICK g \in {flash[a].hdr, "none", h}, log \in {flash[a].q, EmptyQueue} :
        flash' = [flash EXCEPT ![a] =
               [data |-> [u \in Cells |-> IF u <= hi THEN Torn ELSE @.data[u]],
                hdr  |-> g,
                q    |-> log]]
  BY DEF BeginRewrite
<1>2. flash[a] \in Image
  BY DEF FlashType
<1>3. g \in HdrState /\ log \in Queue
  BY <1>2, ConstantTypes DEF Image, HdrState
<1>4. [u \in Cells |-> IF u <= hi THEN Torn ELSE flash[a].data[u]]
        \in [Cells -> Data \cup {Torn}]
  BY <1>2 DEF Image
<1> QED
  BY <1>1, <1>3, <1>4 DEF FlashType, Image

\* Answering a request leaves the locals with their types.
LEMMA ReturnType ==
  ASSUME Return
  PROVE  ControlType'
BY ConstantTypes DEF Return, ControlType, Labels

\* Going on where a procedure was called from keeps the locals' types.
LEMMA ContinueType ==
  ASSUME ControlType, NEW l \in Labels, Continue(l)
  PROVE  ControlType'
BY ReturnType DEF Continue, ControlType, locals

\* A step that only moves on keeps the locals' types.
LEMMA StepType ==
  ASSUME ControlType, NEW from, NEW to \in Labels, Step(from, to)
  PROVE  ControlType'
BY DEF Step, ControlType, locals

\* A record or header of the driver's log that is changed in place.
LEMMA ImageTypes ==
  ASSUME NEW img \in Image
  PROVE  /\ [img EXCEPT !.hdr = SetValid(@)] \in Image
         /\ [img EXCEPT !.hdr = SetInvalid(@)] \in Image
         /\ [img EXCEPT !.hdr = "signed"] \in Image
         /\ [img EXCEPT !.q.rec.st = "spare"] \in Image
         /\ [img EXCEPT !.q.alloc = IF @ = "header" THEN "writes" ELSE @] \in Image
         /\ \A q \in Queue : [img EXCEPT !.q = q] \in Image
         /\ \A d \in [Cells -> Data \cup {Torn}] : [img EXCEPT !.data = d] \in Image
<1>1. SetValid(img.hdr) \in HdrState /\ SetInvalid(img.hdr) \in HdrState
  BY DEF SetValid, SetInvalid, Image, HdrState
<1>2. [img.q EXCEPT !.rec.st = "spare"] \in Queue
  BY DEF Image, Queue, Record
<1>3. [img.q EXCEPT !.alloc = IF @ = "header" THEN "writes" ELSE @] \in Queue
  BY DEF Image, Queue
<1>4. \A q \in Queue : [img EXCEPT !.q = q] \in Image
  BY DEF Image
<1>5. [img EXCEPT !.q.rec.st = "spare"] \in Image
  BY <1>2 DEF Image
<1>6. [img EXCEPT !.q.alloc = IF @ = "header" THEN "writes" ELSE @] \in Image
  BY <1>3 DEF Image
<1> QED
  BY <1>1, <1>4, <1>5, <1>6 DEF Image, HdrState

\* The factory image and a driver that is off have their types.
LEMMA TypeInit == Init => TypeOK
<1> SUFFICES ASSUME Init PROVE TypeOK
  OBVIOUS
<1>1. PICK c \in [Targets \cup {"work"} -> [Cells -> Data]], h \in {"none", "valid"} :
       flash = [a \in Areas |->
                 IF a \notin Targets \cup {"work"} THEN BlankImage
                 ELSE [data |-> c[a], q |-> EmptyQueue,
                       hdr |-> IF a = "work" THEN h ELSE "none"]]
  BY DEF Init
<1>2. ASSUME NEW a \in Areas PROVE flash[a] \in Image
  <2>1. CASE a \notin Targets \cup {"work"}
    BY <1>1, <2>1, ConstantTypes
  <2>2. CASE a \in Targets \cup {"work"}
    BY <1>1, <2>2, ConstantTypes DEF Image, HdrState
  <2> QED
    BY <2>1, <2>2
<1>3. flash \in [Areas -> Image]
  BY <1>1, <1>2
<1> QED
  BY <1>3, ConstantTypes DEF Init, TypeOK, FlashType, ControlType, Labels

\* A device operation of FtwReclaimWorkSpace keeps the types.
LEMMA TypeReclaim ==
  ASSUME TypeOK,
         ReclaimErase \/ ReclaimProgram \/ ReclaimValid \/ ReclaimInvalid
           \/ ReclaimRestore \/ ReclaimRestored
  PROVE  TypeOK'
<1> USE DEF TypeOK
<1>0. FlashType /\ ControlType
  OBVIOUS
<1>1. CASE ReclaimErase
  <2>1. flash' \in [Areas -> Image]
    BY <1>0, <1>1, AreaTypes, BeginRewriteType, DUAssumption DEF ReclaimErase, HdrState
  <2> QED
    BY <1>0, <1>1, <2>1, AreaTypes DEF ReclaimErase, FlashType, ControlType, Labels
<1>2. CASE ReclaimProgram
  <2>1. [data |-> Work.data, hdr |-> "signed", q |-> ReclaimedQueue(LastWrite, keep)] \in Image
    BY <1>0, AreaTypes, QueueTypes DEF Image, HdrState, ControlType
  <2>2. flash' \in [Areas -> Image]
    BY <1>0, <1>2, <2>1, AreaTypes, UpdateType DEF ReclaimProgram
  <2>3. ControlType'
    BY <1>0, <1>2, StepType DEF ReclaimProgram, Labels
  <2> QED
    BY <1>0, <1>2, <2>2, <2>3 DEF ReclaimProgram, FlashType
<1>3. CASE ReclaimValid
  <2>1. flash' \in [Areas -> Image]
    BY <1>0, <1>3, AreaTypes, ImageTypes, UpdateType DEF ReclaimValid
  <2>2. ControlType'
    BY <1>0, <1>3, StepType DEF ReclaimValid, Labels
  <2> QED
    BY <1>0, <1>3, <2>1, <2>2 DEF ReclaimValid, FlashType
<1>4. CASE ReclaimInvalid
  <2>1. flash' \in [Areas -> Image]
    BY <1>0, <1>4, AreaTypes, ImageTypes, UpdateType DEF ReclaimInvalid
  <2> QED
    BY <1>0, <1>4, <2>1 DEF ReclaimInvalid, FlashType, ControlType, Labels, Returns
<1>5. CASE ReclaimRestore
  <2>1. flash' \in [Areas -> Image]
    BY <1>0, <1>5, AreaTypes, BeginRewriteType, DUAssumption
    DEF ReclaimRestore, ControlType, Image
  <2>2. ControlType'
    BY <1>0, <1>5, StepType DEF ReclaimRestore, Labels
  <2> QED
    BY <1>0, <1>5, <2>1, <2>2 DEF ReclaimRestore, FlashType
<1>6. CASE ReclaimRestored
  <2>1. flash' \in [Areas -> Image]
    BY <1>0, <1>6, AreaTypes, UpdateType DEF ReclaimRestored, ControlType
  <2>2. ret.reclaim \in Labels
    BY <1>0 DEF ControlType, Returns, Labels
  <2>3. ControlType'
    BY <1>0, <1>6, <2>2, ContinueType DEF ReclaimRestored
  <2> QED
    BY <1>0, <1>6, <2>1, <2>3 DEF ReclaimRestored, FlashType
<1> QED
  BY <1>1, <1>2, <1>3, <1>4, <1>5, <1>6

\* A device operation of FlushSpareBlockToWorkingBlock keeps the types.
LEMMA TypeFlush ==
  ASSUME TypeOK,
         FlushValid \/ FlushInvalid \/ FlushErase \/ FlushProgram \/ FlushDone
  PROVE  TypeOK'
<1> USE DEF TypeOK
<1>0. FlashType /\ ControlType
  OBVIOUS
<1>1. CASE FlushValid
  <2>1. flash' \in [Areas -> Image]
    <3>1. CASE Update(SpareArea, [Spare EXCEPT !.hdr = SetValid(@)])
      BY <1>0, <3>1, AreaTypes, ImageTypes, UpdateType
    <3>2. CASE UNCHANGED flash
      BY <1>0, <3>2 DEF FlashType
    <3> QED
      BY <1>1, <3>1, <3>2 DEF FlushValid
  <2>2. ControlType'
    BY <1>0, <1>1, StepType DEF FlushValid, Labels
  <2> QED
    BY <1>0, <1>1, <2>1, <2>2 DEF FlushValid, FlashType
<1>2. CASE FlushInvalid
  <2>1. flash' \in [Areas -> Image]
    BY <1>0, <1>2, AreaTypes, ImageTypes, UpdateType DEF FlushInvalid
  <2>2. ControlType'
    BY <1>0, <1>2, StepType DEF FlushInvalid, Labels
  <2> QED
    BY <1>0, <1>2, <2>1, <2>2 DEF FlushInvalid, FlashType
<1>3. CASE FlushErase
  <2>1. flash' \in [Areas -> Image]
    BY <1>0, <1>3, AreaTypes, BeginRewriteType, DUAssumption DEF FlushErase, HdrState
  <2>2. ControlType'
    BY <1>0, <1>3, StepType DEF FlushErase, Labels
  <2> QED
    BY <1>0, <1>3, <2>1, <2>2 DEF FlushErase, FlashType
<1>4. CASE FlushProgram
  <2>1. flash' \in [Areas -> Image]
    BY <1>0, <1>4, AreaTypes, ImageTypes, UpdateType DEF FlushProgram
  <2>2. ControlType'
    BY <1>0, <1>4, StepType DEF FlushProgram, Labels
  <2> QED
    BY <1>0, <1>4, <2>1, <2>2 DEF FlushProgram, FlashType
<1>5. CASE FlushDone
  <2>1. flash' \in [Areas -> Image]
    BY <1>0, <1>5, AreaTypes, ImageTypes, UpdateType DEF FlushDone
  <2>2. ret.flush \in Labels
    BY <1>0 DEF ControlType, Returns, Labels
  <2>3. ControlType'
    BY <1>0, <1>5, <2>2, ContinueType DEF FlushDone
  <2> QED
    BY <1>0, <1>5, <2>1, <2>3 DEF FlushDone, FlashType
<1> QED
  BY <1>1, <1>2, <1>3, <1>4, <1>5

\* A device operation of FlushSpareBlockToBootBlock keeps the types.
LEMMA TypeBoot ==
  ASSUME TypeOK, BootSwap \/ BootErase \/ BootProgram \/ BootUnswap
  PROVE  TypeOK'
<1> USE DEF TypeOK
<1>0. FlashType /\ ControlType
  OBVIOUS
<1>1. CASE BootSwap
  <2>1. ControlType'
    BY <1>0, <1>1, StepType DEF BootSwap, Labels
  <2> QED
    BY <1>0, <1>1, <2>1 DEF BootSwap, FlashType
<1>2. CASE BootErase
  <2>1. flash' \in [Areas -> Image]
    BY <1>0, <1>2, AreaTypes, BeginRewriteType, DUAssumption DEF BootErase, HdrState
  <2>2. ControlType'
    BY <1>0, <1>2, StepType DEF BootErase, Labels
  <2> QED
    BY <1>0, <1>2, <2>1, <2>2 DEF BootErase, FlashType
<1>3. CASE BootProgram
  <2>1. flash' \in [Areas -> Image]
    BY <1>0, <1>3, AreaTypes, UpdateType DEF BootProgram
  <2>2. ControlType'
    BY <1>0, <1>3, StepType DEF BootProgram, Labels
  <2> QED
    BY <1>0, <1>3, <2>1, <2>2 DEF BootProgram, FlashType
<1>4. CASE BootUnswap
  <2>1. ret.boot \in Labels
    BY <1>0 DEF ControlType, Returns, Labels
  <2>2. ControlType'
    BY <1>0, <1>4, <2>1, ContinueType DEF BootUnswap
  <2> QED
    BY <1>0, <1>4, <2>2 DEF BootUnswap, FlashType
<1> QED
  BY <1>1, <1>2, <1>3, <1>4

\* FtwWriteRecord keeps the types: what it completes is a record or a header.
LEMMA TypeRecord ==
  ASSUME TypeOK, RecordFlush \/ TargetProgram \/ RecordDest \/ RecordComplete
  PROVE  TypeOK'
<1> USE DEF TypeOK
<1>0. FlashType /\ ControlType
  OBVIOUS
<1>1. CASE RecordFlush
  <2>1. CASE /\ arg.t = "work" /\ pc' = "Flush"
             /\ Update(SpareArea, [Spare EXCEPT !.q.rec.st = "spare"])
             /\ ret' = [ret EXCEPT !.flush = "Record.dest"]
    <3>1. flash' \in [Areas -> Image]
      BY <1>0, <2>1, AreaTypes, ImageTypes, UpdateType
    <3> QED
      BY <1>0, <1>1, <2>1, <3>1 DEF RecordFlush, FlashType, ControlType, Labels, Returns
  <2>2. CASE /\ arg.t = "boot" /\ pc' = "Boot"
             /\ ret' = [ret EXCEPT !.boot = "Record.dest"]
             /\ UNCHANGED flash
    BY <1>0, <1>1, <2>2 DEF RecordFlush, FlashType, ControlType, Labels, Returns
  <2>3. CASE /\ arg.t \notin {"work", "boot"} /\ pc' = "Target.program"
             /\ BeginRewrite(arg.t, arg.hi, "none")
             /\ UNCHANGED ret
    <3>1. flash' \in [Areas -> Image]
      <4>1. CASE arg.t \in Areas
        BY <1>0, <2>3, <4>1, BeginRewriteType, DUAssumption
        DEF ControlType, Arguments, HdrState
      <4>2. CASE arg.t \notin Areas
        BY <1>0, <2>3, <4>2 DEF BeginRewrite, FlashType
      <4> QED
        BY <4>1, <4>2
    <3> QED
      BY <1>0, <1>1, <2>3, <3>1 DEF RecordFlush, FlashType, ControlType, Labels
  <2> QED
    BY <1>1, <2>1, <2>2, <2>3 DEF RecordFlush
<1>2. CASE TargetProgram
  <2>1. flash' \in [Areas -> Image]
    <3>1. CASE arg.t \in Areas
      <4> DEFINE d == [u \in Cells |-> IF u <= arg.hi THEN Spare.data[u]
                                                     ELSE flash[arg.t].data[u]]
      <4>1. Spare.data \in [Cells -> Data \cup {Torn}]
        BY <1>0, AreaTypes DEF Image
      <4>2. flash[arg.t].data \in [Cells -> Data \cup {Torn}]
        BY <1>0, <3>1 DEF FlashType, Image
      <4>3. d \in [Cells -> Data \cup {Torn}]
        BY <4>1, <4>2
      <4>4. [flash[arg.t] EXCEPT !.data = d] \in Image
        BY <1>0, <3>1, <4>3 DEF FlashType, Image
      <4>5. flash' = [flash EXCEPT ![arg.t] = [flash[arg.t] EXCEPT !.data = d]]
        BY <1>2 DEF TargetProgram
      <4> QED
        BY <1>0, <4>4, <4>5 DEF FlashType
    <3>2. CASE arg.t \notin Areas
      BY <1>0, <1>2, <3>2 DEF TargetProgram, FlashType
    <3> QED
      BY <3>1, <3>2
  <2>2. ControlType'
    BY <1>0, <1>2, StepType DEF TargetProgram, Labels
  <2> QED
    BY <1>0, <1>2, <2>1, <2>2 DEF TargetProgram, FlashType
<1>3. ret.record \in Labels
  BY <1>0 DEF ControlType, Returns, Labels
<1>4. CASE RecordDest
  <2>1. flash' \in [Areas -> Image]
    BY <1>0, <1>4, AreaTypes, QueueTypes, ImageTypes, UpdateType DEF RecordDest
  <2>2. ControlType'
    <3>1. CASE pc' = "Record.complete" /\ UNCHANGED locals
      BY <1>0, <3>1 DEF ControlType, locals, Labels
    <3>2. CASE Continue(ret.record)
      BY <1>0, <1>3, <3>2, ContinueType
    <3> QED
      BY <1>4, <3>1, <3>2 DEF RecordDest
  <2> QED
    BY <1>0, <1>4, <2>1, <2>2 DEF RecordDest, FlashType
<1>5. CASE RecordComplete
  <2>1. flash' \in [Areas -> Image]
    BY <1>0, <1>5, AreaTypes, QueueTypes, ImageTypes, UpdateType DEF RecordComplete
  <2>2. ControlType'
    BY <1>0, <1>3, <1>5, ContinueType DEF RecordComplete
  <2> QED
    BY <1>0, <1>5, <2>1, <2>2 DEF RecordComplete, FlashType
<1> QED
  BY <1>1, <1>2, <1>4, <1>5

\* FtwAllocate keeps the types, wherever in the log it writes its header.
LEMMA TypeAllocate ==
  ASSUME TypeOK, Allocate \/ AllocateHeader \/ AllocateWrites
  PROVE  TypeOK'
<1> USE DEF TypeOK
<1>0. FlashType /\ ControlType
  OBVIOUS
<1>1. CASE Allocate
  <2>1. FlashType'
    BY <1>0, <1>1 DEF Allocate, FlashType
  <2>2. CASE Return
    BY <2>1, <2>2, ReturnType
  <2>3. CASE /\ hOff' = LastWrite.off
             /\ \/ /\ pc' = "Reclaim" /\ keep' = TRUE
                   /\ ret' = [ret EXCEPT !.reclaim = "Allocate.header"]
                \/ pc' = "Allocate.header" /\ UNCHANGED <<keep, ret>>
             /\ UNCHANGED <<arg, save, booting>>
    <3>1. LastWrite.off \in Nat
      BY <1>0, AreaTypes DEF Queue
    <3> QED
      BY <1>0, <2>1, <2>3, <3>1 DEF ControlType, Labels, Returns
  <2> QED
    BY <1>1, <2>2, <2>3 DEF Allocate
<1>2. CASE AllocateHeader
  <2>1. hOff \in Nat /\ arg.n \in Nat /\ arg.p \in Nat
    BY <1>0 DEF ControlType, Arguments
  <2>2. HeaderAt(Work.q, hOff, arg.n, arg.p) \in Queue
    BY <1>0, <2>1, AreaTypes, QueueTypes
  <2>3. flash' \in [Areas -> Image]
    BY <1>0, <1>2, <2>2, AreaTypes, ImageTypes, UpdateType DEF AllocateHeader
  <2>4. ControlType'
    BY <1>0, <1>2, StepType DEF AllocateHeader, Labels
  <2> QED
    BY <1>0, <1>2, <2>3, <2>4 DEF AllocateHeader, FlashType
<1>3. CASE AllocateWrites
  <2>1. flash' \in [Areas -> Image]
    BY <1>0, <1>3, AreaTypes, ImageTypes, UpdateType DEF AllocateWrites
  <2>2. ret.alloc \in Labels
    BY <1>0 DEF ControlType, Returns, Labels
  <2>3. ControlType'
    BY <1>0, <1>3, <2>2, ContinueType DEF AllocateWrites
  <2> QED
    BY <1>0, <1>3, <2>1, <2>3 DEF AllocateWrites, FlashType
<1> QED
  BY <1>1, <1>2, <1>3

----------------------------------------------------------------------------
(* TypeOK is not inductive: that the buffer FtwWrite programs consists of  *)
(* cells depends on its request naming a target, and the request outlives  *)
(* the calls of FtwAllocate, FtwReclaimWorkSpace and FtwWriteRecord.       *)

InitLabels  == {"Init", "Init.first", "Init.last", "Init.trail", "Init.restart"}
WriteLabels == {"Write", "Write.record", "Write.erase", "Write.program",
                "Write.spare", "Write.restore", "Write.restored"}

\* Who may return to whom: a write request is in progress exactly while
\* arg holds its data, and only InitFtwProtocol is returned to while booting.
CallOK ==
  /\ arg.d # Torn => arg.t \in Targets
  /\ pc \in WriteLabels => arg.d # Torn
  /\ ret.reclaim = "Write" => arg.d # Torn
  /\ ret.alloc = "Write.record" => arg.d # Torn
  /\ ret.record = "Write.restore" => arg.d # Torn
  /\ pc = "Restart" \/ ret.reclaim = "Restart" \/ booting => arg.d = Torn
  /\ pc \in InitLabels => booting
  /\ ret.reclaim \in InitLabels \/ ret.abort \in InitLabels => booting
  /\ pc \in {"Idle", "Off"} => ret = NoRet /\ arg = NoArg /\ ~booting

\* FtwWrite keeps the types: what it programs into the spare block is a block.
LEMMA TypeWrite ==
  ASSUME TypeOK, CallOK,
         WriteStart \/ WriteRecord \/ WriteErase \/ WriteProgram \/ WriteSpare
           \/ WriteRestore \/ WriteRestored
  PROVE  TypeOK'
<1> USE DEF TypeOK
<1>0. FlashType /\ ControlType
  OBVIOUS
<1>1. CASE WriteStart
  <2>1. FlashType'
    BY <1>0, <1>1 DEF WriteStart, FlashType
  <2>2. LastWrite.off \in Nat
    BY <1>0, AreaTypes DEF Queue
  <2>3. CASE Return
    BY <2>1, <2>3, ReturnType
  <2>4. CASE /\ pc' = "Allocate"
             /\ arg' = [arg EXCEPT !.n = 1, !.p = 0]
             /\ ret' = [ret EXCEPT !.alloc = "Write.record"]
             /\ hOff' = LastWrite.off
             /\ UNCHANGED <<save, keep, booting>>
    BY <1>0, <2>1, <2>2, <2>4 DEF ControlType, Labels, Returns, Arguments
  <2>5. CASE /\ pc' = "Write.record"
             /\ hOff' = LastWrite.off
             /\ UNCHANGED <<ret, arg, save, keep, booting>>
    BY <1>0, <2>1, <2>2, <2>5 DEF ControlType, Labels
  <2> QED
    BY <1>1, <2>3, <2>4, <2>5 DEF WriteStart
<1>2. CASE WriteRecord
  <2>1. CASE Return /\ UNCHANGED flash
    BY <1>0, <1>2, <2>1, ReturnType DEF WriteRecord, FlashType
  <2>2. CASE /\ \E r \in ProgramRecord(LastWrite.rec,
                  [st |-> "written", t |-> arg.t, hi |-> WriteBlocks(arg.t, arg.hi)]) :
                 Update("work", [Work EXCEPT !.q = [LastWrite EXCEPT !.rec = r]])
             /\ pc' = "Write.erase" /\ UNCHANGED locals
    <3>1. PICK r \in ProgramRecord(LastWrite.rec,
                  [st |-> "written", t |-> arg.t, hi |-> WriteBlocks(arg.t, arg.hi)]) :
            Update("work", [Work EXCEPT !.q = [LastWrite EXCEPT !.rec = r]])
      BY <2>2
    <3>2. WriteBlocks(arg.t, arg.hi) \in 0 .. DU
      BY <1>0, DUAssumption DEF WriteBlocks, ControlType, Arguments
    <3>3. r \in Record
      BY <1>0, <3>2, DUAssumption DEF ProgramRecord, Record, ControlType, Arguments, Cells
    <3>4. [LastWrite EXCEPT !.rec = r] \in Queue
      BY <1>0, <3>3, AreaTypes DEF Queue
    <3>5. flash' \in [Areas -> Image]
      BY <1>0, <3>1, <3>4, AreaTypes, ImageTypes, UpdateType
    <3> QED
      BY <1>0, <1>2, <2>2, <3>5 DEF WriteRecord, FlashType, ControlType, locals, Labels
  <2> QED
    BY <1>2, <2>1, <2>2 DEF WriteRecord
<1>3. CASE WriteErase
  <2>1. (IF arg.t = "work" THEN Work.hdr ELSE "none") \in HdrState
    BY <1>0, AreaTypes DEF Image, HdrState
  <2>2. flash' \in [Areas -> Image]
    BY <1>0, <1>3, <2>1, AreaTypes, BeginRewriteType, DUAssumption DEF WriteErase
  <2> QED
    BY <1>0, <1>3, <2>2, AreaTypes DEF WriteErase, FlashType, ControlType, Labels
<1>4. CASE WriteProgram
  <2> DEFINE new == [u \in Cells |->
                IF u \in arg.lo .. arg.hi THEN arg.d
                ELSE IF u <= WriteBlocks(arg.t, arg.hi) THEN flash[AreaOf(arg.t)].data[u]
                ELSE Torn]
  <2>1. arg.t \in Targets
    BY <1>4 DEF CallOK, WriteProgram, WriteBuffer, Step, WriteLabels
  <2>2. AreaOf(arg.t) \in Areas
    BY <1>0, <2>1, AreaTypes DEF AreaOf, Areas
  <2>3. flash[AreaOf(arg.t)].data \in [Cells -> Data \cup {Torn}]
    BY <1>0, <2>2 DEF FlashType, Image
  <2>4. arg.d \in Data \cup {Torn}
    BY <1>0 DEF ControlType, Arguments
  <2>5. new \in [Cells -> Data \cup {Torn}]
    <3> HIDE DEF AreaOf, WriteBlocks, Cells
    <3> QED
      BY <2>3, <2>4
  <2>6. (IF arg.t = "work" THEN [Work EXCEPT !.data = new]
                           ELSE [BlankImage EXCEPT !.data = new]) \in Image
    <3> HIDE DEF new
    <3>1. BlankImage \in Image
      BY ConstantTypes
    <3>2. Work \in Image
      BY <1>0, AreaTypes
    <3>3. [Work EXCEPT !.data = new] \in Image
      BY <2>5, <3>2, ImageTypes
    <3>4. [BlankImage EXCEPT !.data = new] \in Image
      BY <2>5, <3>1, ImageTypes
    <3> QED
      BY <3>3, <3>4
  <2>7. WriteBuffer(new)
    BY <1>4 DEF WriteProgram
  <2>8. flash' \in [Areas -> Image]
    BY <1>0, <2>6, <2>7, AreaTypes, UpdateType DEF WriteBuffer
  <2>9. ControlType'
    BY <1>0, <2>7, StepType DEF WriteBuffer, Labels
  <2> QED
    BY <1>0, <2>7, <2>8, <2>9 DEF WriteBuffer, FlashType
<1>5. CASE WriteSpare
  <2>1. flash' \in [Areas -> Image]
    BY <1>0, <1>5, AreaTypes, ImageTypes, UpdateType DEF WriteSpare
  <2> QED
    BY <1>0, <1>5, <2>1 DEF WriteSpare, FlashType, ControlType, Labels, Returns
<1>6. CASE WriteRestore
  <2>1. flash' \in [Areas -> Image]
    BY <1>0, <1>6, AreaTypes, BeginRewriteType, DUAssumption
    DEF WriteRestore, ControlType, Image
  <2>2. ControlType'
    BY <1>0, <1>6, StepType DEF WriteRestore, Labels
  <2> QED
    BY <1>0, <1>6, <2>1, <2>2 DEF WriteRestore, FlashType
<1>7. CASE WriteRestored
  <2>1. flash' \in [Areas -> Image]
    BY <1>0, <1>7, AreaTypes, UpdateType DEF WriteRestored, ControlType
  <2>2. ControlType'
    BY <1>7, ReturnType DEF WriteRestored
  <2> QED
    BY <1>0, <1>7, <2>1, <2>2 DEF WriteRestored, FlashType
<1> QED
  BY <1>1, <1>2, <1>3, <1>4, <1>5, <1>6, <1>7

\* FtwRestart, FtwAbort and FtwGetLastWrite keep the types.
LEMMA TypeRestart ==
  ASSUME TypeOK, Restart \/ RestartErase \/ RestartErased \/ Abort \/ GetLastWrite
  PROVE  TypeOK'
<1> USE DEF TypeOK
<1>0. FlashType /\ ControlType
  OBVIOUS
<1>1. ret.restart \in Labels /\ ret.abort \in Labels
  BY <1>0 DEF ControlType, Returns, Labels
<1>2. CASE Restart
  <2>1. FlashType'
    BY <1>0, <1>2 DEF Restart, FlashType
  <2>2. CASE Continue(ret.restart)
    BY <1>0, <1>1, <2>1, <2>2, ContinueType
  <2>3. CASE /\ pc' = "Record"
             /\ arg' = [NoArg EXCEPT !.t = LastWrite.rec.t, !.hi = LastWrite.rec.hi]
             /\ ret' = [ret EXCEPT !.record = "Restart.erase"]
             /\ UNCHANGED <<save, hOff, keep, booting>>
    <3>1. LastWrite.rec.t \in Targets \cup {"none", "boot"} /\ LastWrite.rec.hi \in 0 .. DU
      BY <1>0, AreaTypes DEF Queue, Record
    <3>2. arg' \in Arguments
      BY <2>3, <3>1, ConstantTypes DEF Arguments
    <3> QED
      BY <1>0, <2>1, <2>3, <3>2 DEF ControlType, Labels, Returns
  <2> QED
    BY <1>2, <2>2, <2>3 DEF Restart
<1>3. CASE RestartErase
  <2>1. flash' \in [Areas -> Image]
    BY <1>0, <1>3, AreaTypes, BeginRewriteType, DUAssumption DEF RestartErase, HdrState
  <2>2. ControlType'
    BY <1>0, <1>3, StepType DEF RestartErase, Labels
  <2> QED
    BY <1>0, <1>3, <2>1, <2>2 DEF RestartErase, FlashType
<1>4. CASE RestartErased
  <2>1. flash' \in [Areas -> Image]
    BY <1>0, <1>4, AreaTypes, ConstantTypes, UpdateType DEF RestartErased
  <2>2. ControlType'
    BY <1>0, <1>1, <1>4, ContinueType DEF RestartErased
  <2> QED
    BY <1>0, <1>4, <2>1, <2>2 DEF RestartErased, FlashType
<1>5. CASE Abort
  <2>1. flash' \in [Areas -> Image]
    <3>1. CASE UNCHANGED flash
      BY <1>0, <3>1 DEF FlashType
    <3>2. CASE Update("work", [Work EXCEPT !.q = CompleteHeader(LastWrite)])
      BY <1>0, <3>2, AreaTypes, QueueTypes, ImageTypes, UpdateType
    <3> QED
      BY <1>5, <3>1, <3>2 DEF Abort
  <2>2. ControlType'
    BY <1>0, <1>1, <1>5, ContinueType DEF Abort
  <2> QED
    BY <1>0, <1>5, <2>1, <2>2 DEF Abort, FlashType
<1>6. CASE GetLastWrite
  <2>1. FlashType'
    BY <1>0, <1>6 DEF GetLastWrite, FlashType
  <2>2. CASE Return
    BY <2>1, <2>2, ReturnType
  <2>3. CASE pc' = "Abort" /\ UNCHANGED locals
    BY <1>0, <2>1, <2>3 DEF ControlType, locals, Labels
  <2> QED
    BY <1>6, <2>2, <2>3 DEF GetLastWrite
<1> QED
  BY <1>2, <1>3, <1>4, <1>5, <1>6

\* WorkSpaceRefresh only decides, and keeps the types.
LEMMA TypeRefresh ==
  ASSUME TypeOK, RefreshReclaims \/ RefreshAborts
  PROVE  TypeOK'
<1> USE DEF TypeOK
<1>0. FlashType /\ ControlType
  OBVIOUS
<1>1. CASE RefreshReclaims
  BY <1>0, <1>1 DEF RefreshReclaims, FlashType, ControlType, Labels, Returns
<1>2. CASE RefreshAborts
  <2>1. FlashType'
    BY <1>0, <1>2 DEF RefreshAborts, FlashType
  <2>2. ret.restart \in Labels /\ ret.abort \in Labels
    BY <1>0 DEF ControlType, Returns, Labels
  <2>3. Return \/ Continue(ret.restart) \/ Continue(ret.abort)
    BY <1>2 DEF RefreshAborts
  <2> QED
    BY <1>0, <2>1, <2>2, <2>3, ReturnType, ContinueType
<1> QED
  BY <1>1, <1>2

\* InitFtwProtocol only calls the others, and keeps the types.
LEMMA TypeBooting ==
  ASSUME TypeOK,
         InitWorkSpace \/ InitFirst \/ InitLast \/ InitTrail \/ InitRestart
  PROVE  TypeOK'
<1> USE DEF TypeOK
<1>0. FlashType /\ ControlType
  OBVIOUS
<1>1. CASE InitWorkSpace
  <2>1. ret' \in Returns
    <3>1. ret \in Returns
      BY <1>0 DEF ControlType
    <3>2. [ret EXCEPT !.flush = "Abort"] \in Returns
      BY <3>1 DEF Returns
    <3>3. [[ret EXCEPT !.flush = "Abort"] EXCEPT !.abort = "Init"] \in Returns
      BY <3>2 DEF Returns
    <3>4. [ret EXCEPT !.flush = "Abort", !.abort = "Init"] \in Returns
      BY <3>3
    <3>5. [ret EXCEPT !.reclaim = "Init.first"] \in Returns
      BY <3>1 DEF Returns
    <3> QED
      BY <1>1, <3>1, <3>4, <3>5 DEF InitWorkSpace
  <2> QED
    BY <1>0, <1>1, <2>1 DEF InitWorkSpace, FlashType, ControlType, Labels
<1>2. CASE InitFirst
  BY <1>0, <1>2 DEF InitFirst, InitAbort, FlashType, ControlType, Labels, Returns
<1>3. CASE InitLast
  BY <1>0, <1>3 DEF InitLast, InitAbort, FlashType, ControlType, Labels, Returns
<1>4. CASE InitTrail
  BY <1>0, <1>4 DEF InitTrail, FlashType, ControlType, Labels, Returns
<1>5. CASE InitRestart
  <2>1. FlashType'
    BY <1>0, <1>5 DEF InitRestart, FlashType
  <2>2. CASE Return
    BY <2>1, <2>2, ReturnType
  <2>3. CASE /\ ret' = [ret EXCEPT !.boot = "Abort", !.restart = "Abort", !.abort = "Idle"]
             /\ pc' \in {"Boot", "Abort", "Restart"}
             /\ UNCHANGED <<arg, save, hOff, keep, booting>>
    <3>1. ret \in Returns
      BY <1>0 DEF ControlType
    <3>2. [ret EXCEPT !.boot = "Abort"] \in Returns
      BY <3>1 DEF Returns
    <3>3. [[ret EXCEPT !.boot = "Abort"] EXCEPT !.restart = "Abort"] \in Returns
      BY <3>2 DEF Returns
    <3>4. [[[ret EXCEPT !.boot = "Abort"] EXCEPT !.restart = "Abort"]
             EXCEPT !.abort = "Idle"] \in Returns
      BY <3>3 DEF Returns
    <3>5. ret' \in Returns
      BY <2>3, <3>4
    <3> QED
      BY <1>0, <2>1, <2>3, <3>5 DEF ControlType, Labels
  <2> QED
    BY <1>5, <2>2, <2>3 DEF InitRestart
<1> QED
  BY <1>1, <1>2, <1>3, <1>4, <1>5

\* Callers, the flash and the power supply keep the types.
LEMMA TypeEnvironment ==
  ASSUME TypeOK, Request \/ FvbError \/ PowerLoss \/ PowerOn
  PROVE  TypeOK'
<1> USE DEF TypeOK
<1>0. FlashType /\ ControlType
  OBVIOUS
<1>1. ASSUME NEW l \in Labels, NEW a \in Arguments, Call(l, a)
      PROVE  TypeOK'
  BY <1>0, <1>1 DEF Call, FlashType, ControlType
<1>2. NoArg \in Arguments
  BY ConstantTypes
<1>3. {"Allocate", "Write", "Restart", "Abort", "GetLastWrite"} \subseteq Labels
  BY DEF Labels
<1>4. CASE CallAllocate
  <2>1. PICK a \in Allocs : Call("Allocate", [NoArg EXCEPT !.n = a[1], !.p = a[2]])
    BY <1>4 DEF CallAllocate
  <2>2. a[1] \in Nat /\ a[2] \in Nat
    BY AllocsAssumption
  <2>3. [NoArg EXCEPT !.n = a[1], !.p = a[2]] \in Arguments
    BY <1>2, <2>2 DEF Arguments
  <2> QED
    BY <1>1, <1>3, <2>1, <2>3
<1>5. CASE CallWrite
  <2> DEFINE a(t, lo, hi, d, priv) ==
        [t |-> t, lo |-> lo, hi |-> hi, d |-> d, priv |-> priv, n |-> 0, p |-> 0]
  <2>1. PICK t \in Targets, lo \in Cells, d \in Data, priv \in {TRUE, ~Implicit} :
          \E hi \in lo .. DU : Call("Write", a(t, lo, hi, d, priv))
    BY <1>5 DEF CallWrite
  <2>2. PICK hi \in lo .. DU : Call("Write", a(t, lo, hi, d, priv))
    BY <2>1
  <2>3. hi \in 0 .. DU
    BY DUAssumption DEF Cells
  <2>4. priv \in BOOLEAN
    BY FlagsAssumption
  <2>5. a(t, lo, hi, d, priv) \in Arguments
    BY <2>3, <2>4 DEF Arguments
  <2> QED
    BY <1>1, <1>3, <2>2, <2>5
<1>6. CASE CallRestart \/ CallAbort \/ CallGetLastWrite
  BY <1>1, <1>2, <1>3, <1>6 DEF CallRestart, CallAbort, CallGetLastWrite
<1>7. CASE FvbError
  BY <1>0, <1>7, ReturnType DEF FvbError, FlashType
<1>8. CASE PowerLoss
  BY <1>0, <1>8, ConstantTypes DEF PowerLoss, FlashType, ControlType, Labels
<1>9. CASE PowerOn
  BY <1>0, <1>9 DEF PowerOn, FlashType, ControlType, Labels
<1> QED
  BY <1>4, <1>5, <1>6, <1>7, <1>8, <1>9 DEF Request

----------------------------------------------------------------------------
\* Returning leaves nothing that could be returned to.
LEMMA ReturnCalls ==
  ASSUME Return
  PROVE  CallOK'
BY DEF Return, CallOK, NoRet, NoArg, WriteLabels, InitLabels

\* Going on where a procedure was called from keeps CallOK when its caller
\* may be running.
LEMMA ContinueCalls ==
  ASSUME CallOK, NEW l, Continue(l),
         l \in WriteLabels => arg.d # Torn,
         l = "Restart" => arg.d = Torn,
         l \in InitLabels => booting,
         l # "Off"
  PROVE  CallOK'
<1>1. CASE l = "Idle"
  BY <1>1, ReturnCalls DEF Continue
<1>2. CASE l # "Idle"
  BY <1>2 DEF Continue, locals, CallOK, WriteLabels, InitLabels
<1> QED
  BY <1>1, <1>2

\* A driver that is off has no calls in progress.
LEMMA CallInit == Init => CallOK
BY DEF Init, CallOK, NoRet, NoArg, WriteLabels, InitLabels

\* Every step keeps the discipline of the driver's calls: a procedure returns
\* to one that called it, and a write request keeps its data until it ends.
LEMMA CallNext ==
  ASSUME TypeOK, CallOK, Next
  PROVE  CallOK'
<1> USE DEF TypeOK
<1>0. ControlType
  OBVIOUS
<1>1. ASSUME NEW from, NEW to \in Labels, Step(from, to),
             to \notin WriteLabels \cup InitLabels \cup {"Restart", "Idle", "Off"}
      PROVE  CallOK'
  BY <1>1 DEF Step, locals, CallOK
<1>2. CASE ReclaimErase \/ ReclaimProgram \/ ReclaimValid \/ ReclaimInvalid
             \/ ReclaimRestore
  BY <1>0, <1>2 DEF ControlType, Returns, CallOK, ReclaimErase, ReclaimProgram, ReclaimValid, ReclaimInvalid,
     ReclaimRestore, Step, locals, WriteLabels, InitLabels
<1>3. CASE ReclaimRestored
  BY <1>0, <1>3, ContinueCalls DEF ReclaimRestored, CallOK, ControlType, Returns,
     WriteLabels, InitLabels
<1>4. CASE FlushValid \/ FlushInvalid \/ FlushErase \/ FlushProgram
  BY <1>4 DEF CallOK, FlushValid, FlushInvalid, FlushErase, FlushProgram,
     Step, locals, WriteLabels, InitLabels
<1>5. CASE FlushDone
  BY <1>0, <1>5, ContinueCalls DEF FlushDone, ControlType, Returns, WriteLabels, InitLabels
<1>6. CASE BootSwap \/ BootErase \/ BootProgram
  BY <1>6 DEF CallOK, BootSwap, BootErase, BootProgram, Step, locals,
     WriteLabels, InitLabels
<1>7. CASE BootUnswap
  BY <1>0, <1>7, ContinueCalls DEF BootUnswap, ControlType, Returns, WriteLabels, InitLabels
<1>8. CASE RecordFlush \/ TargetProgram
  BY <1>0, <1>8 DEF ControlType, Returns, CallOK, RecordFlush, TargetProgram, Step, locals, WriteLabels, InitLabels
<1>9. CASE RecordDest \/ RecordComplete
  <2>1. CASE Continue(ret.record)
    BY <1>0, <2>1, ContinueCalls DEF CallOK, ControlType, Returns, WriteLabels, InitLabels
  <2>2. CASE pc' = "Record.complete" /\ UNCHANGED locals
    BY <2>2 DEF CallOK, locals, WriteLabels, InitLabels
  <2> QED
    BY <1>9, <2>1, <2>2 DEF RecordDest, RecordComplete
<1>10. CASE Allocate
  <2>1. CASE Return
    BY <2>1, ReturnCalls
  <2>2. CASE ~Return
    BY <1>0, <1>10, <2>2 DEF ControlType, Returns, Arguments, Allocate, CallOK, WriteLabels, InitLabels
  <2> QED
    BY <2>1, <2>2
<1>11. CASE AllocateHeader
  BY <1>11 DEF AllocateHeader, CallOK, Step, locals, WriteLabels, InitLabels
<1>12. CASE AllocateWrites
  BY <1>0, <1>12, ContinueCalls DEF AllocateWrites, CallOK, ControlType, Returns,
     WriteLabels, InitLabels
<1>13. CASE WriteStart \/ WriteRecord \/ WriteRestored
  <2>1. CASE Return
    BY <2>1, ReturnCalls
  <2>2. CASE pc' \in {"Write.record", "Write.erase"} /\ UNCHANGED <<ret, arg, booting>>
    BY <1>13, <2>2 DEF WriteStart, WriteRecord, WriteRestored, CallOK,
       WriteLabels, InitLabels
  <2>3. CASE /\ pc' = "Allocate"
             /\ arg' = [arg EXCEPT !.n = 1, !.p = 0]
             /\ ret' = [ret EXCEPT !.alloc = "Write.record"]
             /\ UNCHANGED booting
    <3>1. arg'.d = arg.d /\ arg'.t = arg.t
      BY <1>0, <2>3 DEF ControlType, Arguments
    <3>2. pc = "Write" \/ pc = "Write.record" \/ pc = "Write.restored"
      BY <1>13 DEF WriteStart, WriteRecord, WriteRestored
    <3>3. ret' = [reclaim |-> ret.reclaim, flush |-> ret.flush, boot |-> ret.boot,
                  record |-> ret.record, alloc |-> "Write.record",
                  abort |-> ret.abort, restart |-> ret.restart]
      BY <1>0, <2>3 DEF ControlType, Returns
    <3> QED
      BY <2>3, <3>1, <3>2, <3>3 DEF CallOK, WriteLabels, InitLabels
  <2> QED
    BY <1>13, <2>1, <2>2, <2>3 DEF WriteStart, WriteRecord, WriteRestored, locals
<1>14. CASE WriteErase \/ WriteProgram \/ WriteSpare \/ WriteRestore
  BY <1>0, <1>14 DEF ControlType, Returns, WriteErase, WriteProgram, WriteBuffer, WriteSpare, WriteRestore,
     CallOK, Step, locals, WriteLabels, InitLabels
<1>15. CASE Restart
  <2>1. CASE Continue(ret.restart)
    BY <1>0, <2>1, ContinueCalls DEF ControlType, Returns, WriteLabels, InitLabels
  <2>2. CASE /\ pc' = "Record"
             /\ arg' = [NoArg EXCEPT !.t = LastWrite.rec.t, !.hi = LastWrite.rec.hi]
             /\ ret' = [ret EXCEPT !.record = "Restart.erase"]
             /\ UNCHANGED booting
    <3>1. arg'.d = Torn
      BY <2>2 DEF NoArg
    <3>2. ret' = [reclaim |-> ret.reclaim, flush |-> ret.flush, boot |-> ret.boot,
                  record |-> "Restart.erase", alloc |-> ret.alloc,
                  abort |-> ret.abort, restart |-> ret.restart]
      BY <1>0, <2>2 DEF ControlType, Returns
    <3> QED
      BY <1>15, <2>2, <3>1, <3>2 DEF Restart, CallOK, WriteLabels, InitLabels
  <2> QED
    BY <1>15, <2>1, <2>2 DEF Restart
<1>16. CASE RestartErase
  BY <1>16 DEF RestartErase, CallOK, Step, locals, WriteLabels, InitLabels
<1>17. CASE RestartErased
  BY <1>0, <1>17, ContinueCalls DEF RestartErased, ControlType, Returns,
     WriteLabels, InitLabels
<1>18. CASE Abort
  BY <1>0, <1>18, ContinueCalls DEF Abort, CallOK, ControlType, Returns,
     WriteLabels, InitLabels
<1>19. CASE GetLastWrite
  BY <1>19, ReturnCalls DEF GetLastWrite, CallOK, locals, WriteLabels, InitLabels
<1>20. CASE RefreshReclaims
  BY <1>0, <1>20 DEF ControlType, Returns, RefreshReclaims, CallOK, WriteLabels, InitLabels
<1>21. CASE RefreshAborts
  <2>1. Return \/ Continue(ret.restart) \/ Continue(ret.abort)
    BY <1>21 DEF RefreshAborts
  <2> QED
    BY <1>0, <2>1, ReturnCalls, ContinueCalls
    DEF CallOK, ControlType, Returns, WriteLabels, InitLabels
<1>22. CASE InitWorkSpace \/ InitFirst \/ InitLast \/ InitTrail
  BY <1>0, <1>22 DEF ControlType, Returns, InitWorkSpace, InitFirst, InitLast, InitAbort, InitTrail, CallOK,
     WriteLabels, InitLabels
<1>23. CASE InitRestart
  <2>1. CASE Return
    BY <2>1, ReturnCalls
  <2>2. CASE ~Return
    <3>1. /\ pc = "Init.restart" /\ pc' \in {"Boot", "Abort", "Restart"}
          /\ ret' = [ret EXCEPT !.boot = "Abort", !.restart = "Abort", !.abort = "Idle"]
          /\ UNCHANGED <<arg, booting>>
      BY <1>23, <2>2 DEF InitRestart
    <3>2. /\ ret'.abort = "Idle"
          /\ UNCHANGED <<ret.reclaim, ret.alloc, ret.record>>
      BY <1>0, <3>1 DEF ControlType, Returns
    <3>3. booting /\ arg.d = Torn
      BY <3>1 DEF CallOK, InitLabels
    <3> QED
      BY <3>1, <3>2, <3>3 DEF CallOK, WriteLabels, InitLabels
  <2> QED
    BY <2>1, <2>2
<1>24. CASE Request
  <2>1. ASSUME NEW l, NEW a, Call(l, a), l \in Labels \ {"Idle", "Off"},
               a.d # Torn => a.t \in Targets, l = "Restart" => a.d = Torn,
               l \in WriteLabels => a.d # Torn, l \notin InitLabels
        PROVE  CallOK'
    BY <2>1 DEF Call, CallOK, NoRet, WriteLabels, InitLabels
  <2>2. NoArg.d = Torn
    BY DEF NoArg
  <2>3. CASE CallAllocate
    <3>1. PICK a \in Allocs : Call("Allocate", [NoArg EXCEPT !.n = a[1], !.p = a[2]])
      BY <2>3 DEF CallAllocate
    <3> DEFINE b == [NoArg EXCEPT !.n = a[1], !.p = a[2]]
    <3>2. b.d = Torn
      BY DEF NoArg
    <3>3. Call("Allocate", b)
      BY <3>1
    <3> HIDE DEF b
    <3> QED
      BY <2>1, <3>2, <3>3 DEF Labels, WriteLabels, InitLabels
  <2>4. CASE CallWrite
    BY <2>1, <2>4, AreasAssumption DEF CallWrite, Labels, WriteLabels, InitLabels
  <2>5. CASE CallRestart \/ CallAbort \/ CallGetLastWrite
    BY <2>1, <2>2, <2>5 DEF CallRestart, CallAbort, CallGetLastWrite,
       Labels, WriteLabels, InitLabels
  <2> QED
    BY <1>24, <2>3, <2>4, <2>5 DEF Request
<1>25. CASE FvbError
  BY <1>25, ReturnCalls DEF FvbError
<1>26. CASE PowerLoss \/ PowerOn
  BY <1>26 DEF PowerLoss, PowerOn, CallOK, NoRet, NoArg, WriteLabels, InitLabels
<1> QED
  BY <1>2, <1>3, <1>4, <1>5, <1>6, <1>7, <1>8, <1>9, <1>10, <1>11, <1>12, <1>13,
     <1>14, <1>15, <1>16, <1>17, <1>18, <1>19, <1>20, <1>21, <1>22, <1>23, <1>24,
     <1>25, <1>26
  DEF Next, DriverStep

\* Every step keeps the types.
LEMMA TypeNext ==
  ASSUME TypeOK, CallOK, Next
  PROVE  TypeOK'
BY TypeReclaim, TypeFlush, TypeBoot, TypeRecord, TypeAllocate, TypeWrite,
   TypeRestart, TypeRefresh, TypeBooting, TypeEnvironment DEF Next, DriverStep

\* Whatever the driver, its callers, the flash and the power supply do, the
\* flash holds images and the driver's locals have their types.
THEOREM TypeCorrect == Spec => []TypeOK
<1> DEFINE TypeInv == TypeOK /\ CallOK
<1>1. Init => TypeInv
  BY TypeInit, CallInit
<1>2. TypeInv /\ [Next]_vars => TypeInv'
  <2> SUFFICES ASSUME TypeOK, CallOK, [Next]_vars PROVE TypeOK' /\ CallOK'
    OBVIOUS
  <2>1. CASE Next
    <3>1. CallOK'
      BY <2>1, CallNext
    <3>2. TypeOK'
      BY <2>1, TypeNext
    <3> QED
      BY <3>1, <3>2
  <2>2. CASE UNCHANGED vars
    BY <2>2 DEF vars, TypeOK, FlashType, ControlType, CallOK
  <2> QED
    BY <2>1, <2>2
<1> QED
  BY <1>1, <1>2, PTL DEF Spec

----------------------------------------------------------------------------
(* FtwWrite's Header pointer.  An implicit allocation happens right after  *)
(* WorkSpaceRefresh has made sure of room for one record, so that          *)
(* FtwAllocate does not reclaim the workspace under the pointer.           *)

HeaderKept ==
  /\ arg.d # Torn => ret.reclaim \notin {"Allocate", "Allocate.header"}
  /\ pc = "Allocate" /\ arg.d # Torn => Refreshed /\ arg.n = 1 /\ arg.p = 0
  /\ pc \in {"Allocate.header", "Allocate.writes"} /\ arg.d # Torn => hOff = Work.q.off
  /\ pc = "Write.record" => hOff = Work.q.off

HeaderLabels == {"Allocate", "Allocate.header", "Allocate.writes", "Write.record"}

\* FtwGetLastWriteHeader stops where the log ends, stray header or not.
LEMMA LastWriteOffset ==
  ASSUME FlashType
  PROVE  LastWrite.off = Work.q.off
<1>1. Work.q \in Queue
  BY AreaTypes
<1>2. EmptyQueue \in Queue
  BY ConstantTypes
<1> QED
  BY <1>1, <1>2 DEF LastWrite, FtwGetLastWriteHeader, Queue

\* A step to a place where the pointer is not in use keeps HeaderKept.
LEMMA HeaderElsewhere ==
  ASSUME HeaderKept, pc' \notin HeaderLabels,
         arg'.d # Torn => arg.d # Torn /\ ret'.reclaim \in {ret.reclaim, "Write", "Idle"}
  PROVE  HeaderKept'
BY DEF HeaderKept, HeaderLabels

\* ... and so does answering the request.
LEMMA HeaderReturn ==
  ASSUME Return
  PROVE  HeaderKept'
BY DEF Return, HeaderKept, NoArg

\* ... and going on anywhere but in FtwAllocate or FtwWrite.
LEMMA HeaderContinue ==
  ASSUME HeaderKept, NEW l, l \notin HeaderLabels, Continue(l)
  PROVE  HeaderKept'
<1>1. CASE l = "Idle"
  BY <1>1, HeaderReturn DEF Continue
<1>2. CASE l # "Idle"
  BY <1>2, HeaderElsewhere DEF Continue, locals
<1> QED
  BY <1>1, <1>2

\* A device operation of a procedure that FtwWrite or another request calls.
LEMMA HeaderStep ==
  ASSUME HeaderKept, NEW from, NEW to, to \notin HeaderLabels, Step(from, to)
  PROVE  HeaderKept'
BY HeaderElsewhere DEF Step, locals

\* The pointer is kept by every step of the driver and around it.
LEMMA HeaderNext ==
  ASSUME TypeOK, CallOK, HeaderKept, Next
  PROVE  HeaderKept'
<1>0. FlashType /\ ControlType
  BY DEF TypeOK
<1>1. ret \in Returns /\ arg \in Arguments
  BY <1>0 DEF ControlType
<1>2. LastWrite.off = Work.q.off
  BY <1>0, LastWriteOffset
<1>3. CASE ReclaimErase \/ ReclaimInvalid
  BY <1>1, <1>3, HeaderElsewhere DEF ReclaimErase, ReclaimInvalid, HeaderLabels, Returns
<1>4. CASE ReclaimProgram \/ ReclaimValid \/ ReclaimRestore
  BY <1>4, HeaderStep DEF ReclaimProgram, ReclaimValid, ReclaimRestore, HeaderLabels
<1>5. CASE ReclaimRestored
  <2>1. CASE ret.reclaim \notin HeaderLabels
    BY <1>5, <2>1, HeaderContinue DEF ReclaimRestored
  <2>2. CASE ret.reclaim \in HeaderLabels
    <3>1. ret.reclaim \in {"Allocate", "Allocate.header"}
      BY <1>1, <2>2 DEF Returns, HeaderLabels
    <3>2. arg.d = Torn
      BY <3>1 DEF HeaderKept
    <3>3. pc' = ret.reclaim /\ arg' = arg /\ ret' = ret
      BY <1>5, <3>1 DEF ReclaimRestored, Continue, locals
    <3> QED
      BY <3>1, <3>2, <3>3 DEF HeaderKept
  <2> QED
    BY <2>1, <2>2
<1>6. CASE FlushValid \/ FlushInvalid \/ FlushErase \/ FlushProgram
  BY <1>6, HeaderStep DEF FlushValid, FlushInvalid, FlushErase, FlushProgram, HeaderLabels
<1>7. CASE FlushDone
  BY <1>1, <1>7, HeaderContinue DEF FlushDone, Returns, HeaderLabels
<1>8. CASE BootSwap \/ BootErase \/ BootProgram
  BY <1>8, HeaderStep DEF BootSwap, BootErase, BootProgram, HeaderLabels
<1>9. CASE BootUnswap
  BY <1>1, <1>9, HeaderContinue DEF BootUnswap, Returns, HeaderLabels
<1>10. CASE RecordFlush
  BY <1>1, <1>10, HeaderElsewhere DEF RecordFlush, HeaderLabels, Returns
<1>11. CASE TargetProgram
  BY <1>11, HeaderStep DEF TargetProgram, HeaderLabels
<1>12. CASE RecordDest \/ RecordComplete
  <2>1. ret.record \notin HeaderLabels
    BY <1>1 DEF Returns, HeaderLabels
  <2>2. CASE Continue(ret.record)
    BY <2>1, <2>2, HeaderContinue
  <2>3. CASE pc' = "Record.complete" /\ UNCHANGED locals
    BY <2>3, HeaderElsewhere DEF locals, HeaderLabels
  <2> QED
    BY <1>12, <2>2, <2>3 DEF RecordDest, RecordComplete
<1>13. CASE Allocate
  <2>1. CASE Return
    BY <2>1, HeaderReturn
  <2>2. CASE ~Return
    <3>1. /\ pc = "Allocate" /\ hOff' = LastWrite.off
          /\ IF LastWrite.off + WriteTotalSize(arg.n, arg.p) > WsSize
             THEN /\ pc' = "Reclaim"
                  /\ ret' = [ret EXCEPT !.reclaim = "Allocate.header"]
             ELSE pc' = "Allocate.header" /\ UNCHANGED ret
          /\ UNCHANGED <<arg, flash>>
      BY <1>13, <2>2 DEF Allocate
    <3>2. CASE arg.d = Torn
      BY <3>1, <3>2 DEF HeaderKept
    <3>3. CASE arg.d # Torn
      <4>1. ~NeedsReclaim /\ arg.n = 1 /\ arg.p = 0
        BY <3>1, <3>3 DEF HeaderKept, Refreshed
      <4>2. Work.q.off \in Nat /\ WriteTotalSize(1, 0) \in Nat /\ WsSize \in Nat
        BY <1>0, AreaTypes, WriteTotalSizeType, WsSizeAssumption DEF Queue
      <4>3. ~(LastWrite.off + WriteTotalSize(arg.n, arg.p) > WsSize)
        BY <1>2, <4>1, <4>2 DEF NeedsReclaim
      <4>4. pc' = "Allocate.header" /\ ret' = ret /\ arg' = arg /\ hOff' = Work.q.off
        BY <1>2, <3>1, <4>3
      <4>5. Work' = Work
        BY <3>1 DEF Work
      <4> QED
        BY <4>4, <4>5 DEF HeaderKept
    <3> QED
      BY <3>2, <3>3
  <2> QED
    BY <2>1, <2>2
<1>14. CASE AllocateHeader
  <2> DEFINE q == HeaderAt(Work.q, hOff, arg.n, arg.p)
  <2>1. Work.q \in Queue /\ EmptyQueue \in Queue
    BY <1>0, AreaTypes, ConstantTypes
  <2>2. q.off = Work.q.off
    BY <2>1 DEF HeaderAt, Queue
  <2>3. Work'.q = q
    BY <1>0, <1>14, AreaTypes DEF AllocateHeader, Update, Work, FlashType, Image
  <2> HIDE DEF q
  <2>4. Work'.q.off = Work.q.off
    BY <2>2, <2>3
  <2> QED
    BY <1>14, <2>4 DEF AllocateHeader, Step, locals, HeaderKept
<1>15. CASE AllocateWrites
  <2>1. Work'.q.off = Work.q.off
    BY <1>0, <1>15, AreaTypes DEF AllocateWrites, Update, Work, FlashType, Image, Queue
  <2>2. CASE ret.alloc = "Idle"
    BY <1>15, <2>2, HeaderReturn DEF AllocateWrites, Continue
  <2>3. CASE ret.alloc = "Write.record"
    BY <1>15, <2>1, <2>3 DEF AllocateWrites, Continue, locals, HeaderKept, CallOK
  <2> QED
    BY <1>1, <2>2, <2>3 DEF Returns
<1>16. CASE WriteStart
  <2>1. CASE Return
    BY <2>1, HeaderReturn
  <2>2. CASE /\ pc' = "Allocate"
             /\ arg' = [arg EXCEPT !.n = 1, !.p = 0]
             /\ ret' = [ret EXCEPT !.alloc = "Write.record"]
    <3>1. arg'.d = arg.d /\ arg'.n = 1 /\ arg'.p = 0 /\ ret'.reclaim = ret.reclaim
      BY <1>1, <2>2 DEF Arguments, Returns
    <3>2. Refreshed'
      BY <1>16 DEF WriteStart, Refreshed, Work, NeedsReclaim
    <3> QED
      BY <2>2, <3>1, <3>2 DEF HeaderKept
  <2>3. CASE pc' = "Write.record" /\ hOff' = LastWrite.off /\ UNCHANGED <<ret, arg>>
    <3>1. hOff' = Work'.q.off
      BY <1>2, <1>16, <2>3 DEF WriteStart, Work
    <3> QED
      BY <2>3, <3>1 DEF HeaderKept
  <2> QED
    BY <1>16, <2>1, <2>2, <2>3 DEF WriteStart
<1>17. CASE WriteRecord \/ WriteRestored
  <2>1. CASE Return
    BY <2>1, HeaderReturn
  <2>2. CASE pc' = "Write.erase" /\ UNCHANGED locals
    BY <2>2, HeaderElsewhere DEF locals, HeaderLabels
  <2> QED
    BY <1>17, <2>1, <2>2 DEF WriteRecord, WriteRestored
<1>18. CASE WriteErase \/ WriteSpare
  BY <1>1, <1>18, HeaderElsewhere DEF WriteErase, WriteSpare, HeaderLabels, Returns
<1>19. CASE WriteProgram \/ WriteRestore \/ RestartErase
  BY <1>19, HeaderStep DEF WriteProgram, WriteBuffer, WriteRestore, RestartErase, HeaderLabels
<1>20. CASE Restart
  <2>1. CASE Continue(ret.restart)
    BY <1>1, <2>1, HeaderContinue DEF Returns, HeaderLabels
  <2>2. CASE pc' = "Record" /\ arg' = [NoArg EXCEPT !.t = LastWrite.rec.t, !.hi = LastWrite.rec.hi]
    <3>1. arg'.d = Torn
      BY <2>2 DEF NoArg
    <3> QED
      BY <2>2, <3>1, HeaderElsewhere DEF HeaderLabels
  <2> QED
    BY <1>20, <2>1, <2>2 DEF Restart
<1>21. CASE RestartErased
  BY <1>1, <1>21, HeaderContinue DEF RestartErased, Returns, HeaderLabels
<1>22. CASE Abort
  BY <1>1, <1>22, HeaderContinue DEF Abort, Returns, HeaderLabels
<1>23. CASE GetLastWrite
  BY <1>23, HeaderReturn, HeaderElsewhere DEF GetLastWrite, locals, HeaderLabels
<1>24. CASE RefreshReclaims
  <2>1. /\ pc' = "Reclaim" /\ ret'.reclaim = pc /\ arg' = arg
    BY <1>1, <1>24 DEF RefreshReclaims, Returns
  <2>2. pc = "Allocate" => arg.d = Torn
    BY <1>24 DEF RefreshReclaims, HeaderKept, Refreshed
  <2>3. pc # "Allocate.header"
    BY <1>24 DEF RefreshReclaims
  <2> QED
    BY <2>1, <2>2, <2>3 DEF HeaderKept
<1>25. CASE RefreshAborts
  <2>1. Return \/ Continue(ret.restart) \/ Continue(ret.abort)
    BY <1>25 DEF RefreshAborts
  <2> QED
    BY <1>1, <2>1, HeaderReturn, HeaderContinue DEF Returns, HeaderLabels
<1>26. CASE InitWorkSpace \/ InitFirst \/ InitLast \/ InitTrail \/ InitRestart
  <2>1. arg.d = Torn
    BY <1>26 DEF CallOK, InitLabels, InitWorkSpace, InitFirst, InitLast, InitAbort, InitTrail,
       InitRestart
  <2>2. CASE Return
    BY <2>2, HeaderReturn
  <2>3. CASE ~Return
    BY <1>26, <2>1, <2>3, HeaderElsewhere DEF HeaderLabels, InitWorkSpace, InitFirst, InitLast,
       InitAbort, InitTrail, InitRestart
  <2> QED
    BY <2>2, <2>3
<1>27. CASE Request
  <2>1. ASSUME NEW l, NEW a, Call(l, a), l # "Write.record", a.d # Torn => l = "Write"
        PROVE  HeaderKept'
    <3>1. pc' = l /\ arg' = a /\ ret' = NoRet
      BY <2>1 DEF Call, CallOK
    <3>2. NoRet.reclaim = "Idle"
      BY DEF NoRet
    <3> QED
      BY <2>1, <3>1, <3>2 DEF HeaderKept
  <2>2. NoArg.d = Torn
    BY DEF NoArg
  <2>3. CASE CallAllocate
    <3>1. PICK a \in Allocs : Call("Allocate", [NoArg EXCEPT !.n = a[1], !.p = a[2]])
      BY <2>3 DEF CallAllocate
    <3> DEFINE b == [NoArg EXCEPT !.n = a[1], !.p = a[2]]
    <3>2. b.d = Torn
      BY DEF NoArg
    <3>3. Call("Allocate", b)
      BY <3>1
    <3> HIDE DEF b
    <3> QED
      BY <2>1, <3>2, <3>3
  <2>4. CASE CallWrite
    BY <2>1, <2>4 DEF CallWrite
  <2>5. CASE CallRestart \/ CallAbort \/ CallGetLastWrite
    BY <2>1, <2>2, <2>5 DEF CallRestart, CallAbort, CallGetLastWrite
  <2> QED
    BY <1>27, <2>3, <2>4, <2>5 DEF Request
<1>28. CASE FvbError
  BY <1>28, HeaderReturn DEF FvbError
<1>29. CASE PowerLoss \/ PowerOn
  <2>1. pc' \in {"Off", "Init"} /\ arg' = NoArg
    BY <1>29 DEF PowerLoss, PowerOn, CallOK
  <2> QED
    BY <2>1, HeaderElsewhere DEF HeaderLabels, NoArg
<1> QED
  BY <1>3, <1>4, <1>5, <1>6, <1>7, <1>8, <1>9, <1>10, <1>11, <1>12, <1>13, <1>14, <1>15, <1>16,
     <1>17, <1>18, <1>19, <1>20, <1>21, <1>22, <1>23, <1>24, <1>25, <1>26, <1>27, <1>28, <1>29
  DEF Next, DriverStep

\* FtwWrite keeps using the Header pointer it took before FtwAllocate: it
\* still points to the last write header, for every workspace and whatever
\* was allocated before.
THEOREM HeaderStaysCurrent == Spec => []HeaderPointerCurrent
<1> DEFINE Kept == TypeOK /\ CallOK /\ HeaderKept
<1>1. Init => Kept
  <2>1. Init => HeaderKept
    BY DEF Init, HeaderKept, NoArg
  <2> QED
    BY <2>1, TypeInit, CallInit
<1>2. Kept /\ [Next]_vars => Kept'
  <2>1. CASE Next
    BY <2>1, HeaderNext, CallNext, TypeNext
  <2>2. CASE UNCHANGED vars
    <3>1. TypeOK /\ CallOK => TypeOK' /\ CallOK'
      BY <2>2 DEF vars, TypeOK, FlashType, ControlType, CallOK
    <3>2. HeaderKept => HeaderKept'
      BY <2>2 DEF vars, HeaderKept, Refreshed, NeedsReclaim, Work
    <3> QED
      BY <3>1, <3>2
  <2> QED
    BY <2>1, <2>2
<1>3. Kept => HeaderPointerCurrent
  BY LastWriteOffset DEF TypeOK, HeaderKept, HeaderPointerCurrent
<1> QED
  BY <1>1, <1>2, <1>3, PTL DEF Spec
=============================================================================
