-------------------------- MODULE FtwAtomicProofs --------------------------
(***************************************************************************)
(* That the fault tolerant write driver makes block writes atomic.  The    *)
(* inductive invariant, Sound, says for each place in the driver what the  *)
(* working block, the spare block and the log hold; the lemmas about       *)
(* actions show that a step keeps it and changes what readers find by at   *)
(* most one whole write; the theorems are at the end.                      *)
(***************************************************************************)
EXTENDS FtwProofs

----------------------------------------------------------------------------
(* What the theorems rely on: the FVB of a pending write's target is there *)
(* when the driver starts, and the device replaces bits, or the record of  *)
(* a write is programmed only once.  Without either, a reader meets a torn *)
(* block (MCFtwNoFvb.cfg, MCFtwSticky.cfg).                                *)

OnlyWholeRecords ==
  /\ ~FvbMissing
  /\ Overwrite \/ (~FvbErrors /\ \A a \in Allocs : a[1] = 1)

\* What callers have to keep to: FtwAllocate is asked for writes that fit
\* behind the log, or that never fit, so that it does not reclaim the
\* workspace between computing its offset and writing its header there.
AllocationFits ==
  /\ pc = "Allocate" /\ Refreshed /\ LastWrite.alloc = "none"
  /\ WriteTotalSize(arg.n, arg.p) <= WsSize - WorkHeaderSize
  => LastWrite.off + WriteTotalSize(arg.n, arg.p) <= WsSize

FlushLabels   == {"Flush", "Flush.invalid", "Flush.erase", "Flush.program", "Flush.done"}
BootLabels    == {"Boot", "Boot.erase", "Boot.program", "Boot.unswap"}
RecordLabels  == {"Record", "Target.program", "Record.dest", "Record.complete"}
AllocLabels   == {"Allocate.header", "Allocate.writes"}
ReclaimLabels == {"Reclaim", "Reclaim.program", "Reclaim.valid", "Reclaim.invalid",
                  "Reclaim.restore", "Reclaim.restored"}
SavingLabels  == {"Write.record", "Write.erase", "Write.program", "Write.spare",
                  "Write.restore", "Write.restored"}
ErasingLabels == {"Restart.erase", "Restart.erased"}
StartedLabels == {"Init.first", "Init.last", "Init.trail", "Init.restart"}

\* Who may return to whom, and what the requests hold.
ControlOK ==
  /\ ret.reclaim # "Allocate.header"
  /\ ret.record = "Write.restore" =>
       /\ pc \in FlushLabels \cup BootLabels \cup RecordLabels
                   \cup {"Write.restore", "Write.restored"}
       /\ pc \in FlushLabels => ret.flush = "Record.dest"
       /\ pc \in BootLabels => ret.boot = "Record.dest"
       /\ arg.d # Torn
  /\ arg.d # Torn => arg.hi \in Cells /\ (arg.t = "boot" => arg.hi = DU)
  /\ ret.reclaim = "Allocate" =>
       /\ pc \in {"Allocate"} \cup AllocLabels \cup ReclaimLabels \cup FlushLabels
       /\ pc \in FlushLabels => ret.flush = "Reclaim.restore"
       /\ arg.d = Torn
  /\ pc \in {"Allocate", "Allocate.header"} \/ ret.reclaim = "Allocate" =>
       arg.n >= 1 /\ (~Overwrite => arg.n = 1)

\* A record that has been written names a target and, where the block is
\* replaced as a whole, all of it.
RecordOK(r) ==
  r.st # "erased" => /\ r.t \in Targets /\ r.hi \in Cells
                     /\ r.t \in {"work", "boot"} => r.hi = DU

\* The log ends with a header that fits in the workspace, or with none.
QueueOK(q) ==
  /\ q.stray = NoHeader
  /\ q.off >= WorkHeaderSize
  /\ RecordOK(q.rec)
  /\ q.alloc = "none" => q.rec = NoRec
  /\ q.alloc # "none" => /\ q.n >= 1 /\ q.done <= q.n
                         /\ q.off + WriteTotalSize(q.n, q.p) <= WsSize
                         /\ ~Overwrite => q.n = 1
  /\ q.done = q.n => q.rec = NoRec

LogsOK == (\A a \in Areas : QueueOK(flash[a].q)) /\ QueueOK(save.q)

Full(d) == d \in [Cells -> Data]
Plain == Targets \ {"work", "boot"}
ByOneWrite(old, new) ==
  \E lo \in Cells, hi \in Cells, d \in Data :
    new = [u \in Cells |-> IF u \in lo .. hi THEN d ELSE old[u]]

\* The workspace is in the working block, or in the spare block only.
InPlace == flash["work"].hdr = "valid"
InCopy  == flash["work"].hdr # "valid" /\ flash["spare"].hdr = "valid"

Rec == flash["work"].q.rec

\* A write of t is complete in the spare block and not known to be in t.
PendingFor(t) == InPlace /\ Rec.st = "spare" /\ Rec.t = t
NothingPending == ~(InPlace /\ Rec.st = "spare")

\* What the log in the spare block may end with while it stands for the
\* working block: nothing, or the write of the working block itself.
CopiedRecord ==
  LET r == flash["spare"].q.rec IN r = NoRec \/ (r.st = "spare" /\ r.t = "work")

\* The working block, or the copy of it that stands for it, is whole.
WorkOK ==
  /\ ~InCopy => Full(flash["work"].data)
  /\ InCopy => /\ Full(flash["spare"].data)
               /\ CopiedRecord
  /\ PendingFor("work") =>
       /\ flash["spare"].hdr = "valid" /\ Full(flash["spare"].data)
       /\ flash["spare"].q \in {flash["work"].q, [flash["work"].q EXCEPT !.rec.st = "written"]}

\* A plain target is whole up to what the spare block holds of it.
PlainOK ==
  \A t \in Plain, u \in Cells :
    /\ PendingFor(t) /\ u <= Rec.hi => flash["spare"].data[u] \in Data
    /\ ~(PendingFor(t) /\ u <= Rec.hi) => flash[t].data[u] \in Data

\* The machine boots from a whole block; TopSwap is set only in between.
BootOK ==
  /\ swap => PendingFor("boot")
  /\ "boot" \in Targets => Full(flash[BootArea].data)
  /\ PendingFor("boot") /\ ~swap => ByOneWrite(flash["boot"].data, flash["spare"].data)

FlashOK == WorkOK /\ PlainOK /\ BootOK

\* The target has all that the spare block holds of it.
Settled(t) ==
  /\ PendingFor(t) /\ ~swap
  /\ \A u \in 1 .. Rec.hi : flash[t].data[u] = flash["spare"].data[u]

\* The caller's data is in block a.
DataIn(a) == \A u \in arg.lo .. arg.hi : flash[a].data[u] = arg.d
SpareHasData == ret.record = "Write.restore" => DataIn("spare")
WorkIdle == InPlace /\ ~swap /\ NothingPending

AllocPhase ==
  /\ pc = "Allocate.header" =>
       /\ InPlace /\ hOff = flash["work"].q.off /\ flash["work"].q.alloc = "none"
       /\ hOff + WriteTotalSize(arg.n, arg.p) <= WsSize
  /\ pc = "Allocate.writes" =>
       /\ InPlace /\ flash["work"].q.alloc = "header" /\ Rec = NoRec

\* FtwWrite, up to the completion of the spare block, and at its end.
SavingPhase ==
  /\ pc = "Write.record" => InPlace /\ flash["work"].q.alloc # "none"
  /\ pc \in {"Write.erase", "Write.program", "Write.spare"} =>
       /\ WorkIdle
       /\ Rec = [st |-> "written", t |-> arg.t, hi |-> WriteBlocks(arg.t, arg.hi)]
       /\ flash["work"].q.alloc # "none" /\ flash["work"].q.done # flash["work"].q.n
  /\ pc = "Write.spare" =>
       /\ DataIn("spare")
       /\ \A u \in 1 .. WriteBlocks(arg.t, arg.hi) :
            u \notin arg.lo .. arg.hi => flash["spare"].data[u] = flash[arg.t].data[u]
       /\ arg.t = "work" =>
            flash["spare"].hdr = "valid" /\ flash["spare"].q = flash["work"].q
  /\ pc \in {"Write.restore", "Write.restored"} => WorkIdle /\ DataIn(arg.t)

ReclaimPhase ==
  /\ pc \in {"Reclaim", "Reclaim.program"} =>
       ~swap /\ NothingPending /\ ~InCopy /\ (keep => InPlace /\ Rec = NoRec)
  /\ pc \in {"Reclaim.valid", "Reclaim.invalid"} =>
       /\ ~swap /\ NothingPending
       /\ flash["spare"].data = flash["work"].data /\ flash["spare"].q.rec = NoRec
  /\ pc = "Reclaim.valid" => flash["spare"].hdr = "signed"
  /\ pc = "Reclaim.invalid" => flash["spare"].hdr = "valid"
  /\ pc \in {"Reclaim.restore", "Reclaim.restored"} => WorkIdle

FlushPhase ==
  pc \in FlushLabels =>
    /\ ~swap /\ flash["spare"].hdr = "valid" /\ CopiedRecord
    /\ InCopy \/ PendingFor("work")
    /\ pc \in {"Flush.erase", "Flush.program", "Flush.done"} => InCopy
    /\ pc = "Flush.done" => /\ flash["work"].hdr = "signed"
                            /\ flash["work"].q = flash["spare"].q
                            /\ flash["work"].data = flash["spare"].data
    /\ ret.flush = "Reclaim.restore" => InCopy /\ flash["spare"].q.rec = NoRec
    /\ ret.flush = "Record.dest" =>
         /\ flash["spare"].q.rec = [st |-> "spare", t |-> "work", hi |-> DU]
         /\ arg.t = "work" /\ SpareHasData

BootPhase ==
  pc \in BootLabels =>
    /\ PendingFor("boot")
    /\ pc # "Boot" => swap
    /\ pc = "Boot.unswap" => flash["boot"].data = flash["spare"].data
    /\ ret.boot = "Record.dest" => arg.t = "boot" /\ arg.hi = DU /\ SpareHasData

RecordPhase ==
  /\ pc \in {"Record", "Target.program", "Record.dest"} =>
       PendingFor(arg.t) /\ Rec.hi = WriteBlocks(arg.t, arg.hi) /\ SpareHasData
  /\ pc = "Target.program" => arg.t \in Plain
  /\ pc = "Record.dest" => Settled(arg.t)
  /\ pc = "Record.complete" =>
       /\ WorkIdle /\ flash["work"].q.alloc # "none"
       /\ ret.record = "Write.restore" => DataIn(arg.t)

ErasingPhase == pc \in ErasingLabels => WorkIdle

AbortPhase ==
  pc = "Abort" => /\ ~swap
                  /\ NothingPending \/ Settled("work") \/ Settled("boot")
                  /\ ret.abort # "Idle" => InPlace

StartedPhase ==
  pc \in StartedLabels \/ (pc = "Restart" /\ ret.restart # "Idle") => InPlace

Phases ==
  /\ AllocPhase /\ SavingPhase /\ ReclaimPhase /\ FlushPhase /\ BootPhase
  /\ RecordPhase /\ ErasingPhase /\ AbortPhase /\ StartedPhase

\* Where bits cannot be written twice, no record that a write has left behind
\* is ever written again: InitFtwProtocol aborts its header first.
Unfinished == ~Overwrite /\ InPlace /\ Rec.st = "written"
UnfinishedLabels == {"Off", "Init", "Init.first", "Write.erase", "Write.program", "Write.spare"}
Unwritten ==
  Unfinished => pc \in UnfinishedLabels \/ (pc = "Abort" /\ ret.abort = "Init.last")

\* What a reader finds, in terms of the blocks.
Seen(t) ==
  IF t = "boot" THEN flash[BootArea].data
  ELSE IF t = "work"
       THEN IF InCopy \/ PendingFor("work") THEN flash["spare"].data ELSE flash["work"].data
  ELSE [u \in Cells |-> IF PendingFor(t) /\ u <= Rec.hi THEN flash["spare"].data[u]
                                                       ELSE flash[t].data[u]]

----------------------------------------------------------------------------
(* The log. *)

\* Room for one record is the least a write needs.
LEMMA TotalAtLeast ==
  ASSUME NEW n \in Nat \ {0}, NEW p \in Nat
  PROVE  WriteTotalSize(n, p) \in Nat /\ WriteTotalSize(n, p) >= WriteTotalSize(1, 0)
<1>1. WriteTotalSize(n, p) \in Nat
  BY WriteTotalSizeType
<1>2. n * (RecordSize + p) >= RecordSize
  <2>1. RecordSize + p \in Nat /\ RecordSize + p >= RecordSize
    BY DEF RecordSize
  <2>2. \A x \in Nat : n * x >= x
    <3>1. \A x \in Nat : n * x = x + (n - 1) * x
      OBVIOUS
    <3>2. \A x \in Nat : (n - 1) * x \in Nat
      <4>1. n - 1 \in Nat
        OBVIOUS
      <4> QED
        BY <4>1
    <3> QED
      BY <3>1, <3>2
  <2> QED
    BY <2>1, <2>2 DEF RecordSize
<1>3. WriteTotalSize(1, 0) = WriteHeaderSize + RecordSize
  BY DEF WriteTotalSize, RecordSize
<1>4. n * (RecordSize + p) \in Nat
  BY DEF RecordSize
<1> QED
  BY <1>1, <1>2, <1>3, <1>4 DEF WriteTotalSize, WriteHeaderSize, RecordSize

\* The fields of a log.
LEMMA QueueFields ==
  ASSUME NEW q \in Queue
  PROVE  /\ q.off \in Nat /\ q.n \in Nat /\ q.p \in Nat /\ q.done \in Nat
         /\ q.rec \in Record /\ q.alloc \in {"none", "header", "writes"}
         /\ q.stray \in [off : Nat, n : Nat, p : Nat]
         /\ WriteTotalSize(q.n, q.p) \in Nat
BY WriteTotalSizeType DEF Queue

\* Erased flash is read as an empty log.
LEMMA EmptyQueueOK ==
  /\ QueueOK(EmptyQueue) /\ EmptyQueue.rec = NoRec /\ EmptyQueue.alloc = "none"
  /\ QueueOK(BlankImage.q) /\ NoRec.st = "erased"
BY DEF QueueOK, EmptyQueue, BlankImage, RecordOK, NoRec, WorkHeaderSize

\* Without a stray header, readers stop at the end of the log.
LEMMA LastIsEnd ==
  ASSUME NEW q \in Queue, QueueOK(q)
  PROVE  FtwGetLastWriteHeader(q) = q
<1>1. q.stray.off = 0
  BY DEF QueueOK, NoHeader
<1>2. q.off # 0
  BY QueueFields DEF QueueOK, WorkHeaderSize
<1> QED
  BY <1>1, <1>2 DEF FtwGetLastWriteHeader

LEMMA RecordAtErased ==
  ASSUME NEW q, q.stray = NoHeader, NEW x
  PROVE  RecordAt(q, x) = NoRec
BY DEF RecordAt, NoHeader

\* Setting DEST_COMPLETED keeps the log in order; nothing is left to restart.
LEMMA CompleteRecordOK ==
  ASSUME NEW q \in Queue, QueueOK(q), q.alloc # "none", q.done # q.n
  PROVE  /\ QueueOK(CompleteRecord(q)) /\ CompleteRecord(q).rec = NoRec
         /\ CompleteRecord(q).alloc = q.alloc
<1> DEFINE r == [q EXCEPT !.done = @ + 1, !.rec = NoRec]
<1>1. /\ r.stray = q.stray /\ r.off = q.off /\ r.alloc = q.alloc /\ r.n = q.n /\ r.p = q.p
      /\ r.done = q.done + 1 /\ r.rec = NoRec
  BY DEF Queue
<1>2. r \in Queue
  <2>1. q.done + 1 \in Nat
    BY DEF Queue
  <2> QED
    BY <2>1, ConstantTypes DEF Queue
<1>3. QueueOK(r)
  <2> HIDE DEF r
  <2>1. q.done + 1 <= q.n
    BY QueueFields DEF QueueOK
  <2> QED
    BY <1>1, <2>1, EmptyQueueOK DEF QueueOK, RecordOK
<1>4. [r EXCEPT !.rec = RecordAt(r, CurrentRecordOffset(r))] = r
  <2> HIDE DEF r
  <2>1. RecordAt(r, CurrentRecordOffset(r)) = NoRec
    BY <1>1, RecordAtErased DEF QueueOK
  <2>2. [r EXCEPT !.rec = NoRec] = r
    BY <1>1, <1>2 DEF Queue
  <2> QED
    BY <2>1, <2>2
<1>5. CompleteRecord(q) = r
  BY <1>4 DEF CompleteRecord
<1> HIDE DEF r
<1> QED
  BY <1>1, <1>3, <1>5

\* Setting WRITES_COMPLETED ends the log behind the header.
LEMMA CompleteHeaderOK ==
  ASSUME NEW q \in Queue, QueueOK(q)
  PROVE  QueueOK(CompleteHeader(q)) /\ CompleteHeader(q).rec = NoRec
<1> DEFINE r == CompleteHeader(q)
<1>1. /\ r.off = q.off + WriteTotalSize(q.n, q.p) /\ r.stray = q.stray
      /\ r.alloc = "none" /\ r.rec = NoRec
  BY DEF CompleteHeader, EmptyQueue
<1> HIDE DEF r
<1>2. r.off >= WorkHeaderSize
  BY <1>1, QueueFields DEF QueueOK, WorkHeaderSize
<1> QED
  BY <1>1, <1>2, EmptyQueueOK DEF QueueOK, RecordOK, r

\* A header written where the log ends is the last write header.
LEMMA HeaderAtEnd ==
  ASSUME NEW q \in Queue, QueueOK(q), NEW n \in Nat \ {0}, NEW p \in Nat,
         q.off + WriteTotalSize(n, p) <= WsSize, ~Overwrite => n = 1
  PROVE  LET r == HeaderAt(q, q.off, n, p)
         IN  QueueOK(r) /\ r.alloc = "header" /\ r.rec = NoRec /\ r.off = q.off
<1> DEFINE r == [EmptyQueue EXCEPT !.off = q.off, !.alloc = "header",
                              !.n = n, !.p = p, !.stray = q.stray]
<1>1. /\ r.off = q.off /\ r.alloc = "header" /\ r.n = n /\ r.p = p /\ r.stray = q.stray
      /\ r.rec = NoRec /\ r.done = 0
  BY DEF EmptyQueue
<1>2. r \in Queue
  BY ConstantTypes DEF Queue
<1>3. QueueOK(r)
  <2> HIDE DEF r
  <2> QED
    BY <1>1, EmptyQueueOK DEF QueueOK, RecordOK
<1>4. [r EXCEPT !.rec = RecordAt(r, CurrentRecordOffset(r))] = r
  <2> HIDE DEF r
  <2>1. RecordAt(r, CurrentRecordOffset(r)) = NoRec
    BY <1>1, RecordAtErased DEF QueueOK
  <2>2. [r EXCEPT !.rec = NoRec] = r
    BY <1>1, <1>2 DEF Queue
  <2> QED
    BY <2>1, <2>2
<1>5. HeaderAt(q, q.off, n, p) = r
  BY <1>4 DEF HeaderAt
<1> HIDE DEF r
<1> QED
  BY <1>1, <1>3, <1>5

\* A record is written into a header that has one left.
LEMMA NewRecordOK ==
  ASSUME NEW q \in Queue, QueueOK(q), NEW r, RecordOK(r), q.alloc # "none", q.done # q.n
  PROVE  QueueOK([q EXCEPT !.rec = r]) /\ [q EXCEPT !.rec = r].rec = r
BY DEF QueueOK, Queue

\* Setting SPARE_COMPLETED.
LEMMA SpareCompleteOK ==
  ASSUME NEW q \in Queue, QueueOK(q), q.rec.st # "erased"
  PROVE  /\ QueueOK([q EXCEPT !.rec.st = "spare"])
         /\ [q EXCEPT !.rec.st = "spare"].rec = [st |-> "spare", t |-> q.rec.t, hi |-> q.rec.hi]
<1>1. q.rec \in Record
  BY QueueFields
<1> DEFINE r == [q.rec EXCEPT !.st = "spare"]
<1>2. r = [st |-> "spare", t |-> q.rec.t, hi |-> q.rec.hi]
  BY <1>1 DEF Record
<1>3. RecordOK(r)
  BY <1>2 DEF QueueOK, RecordOK
<1>4. q.alloc # "none" /\ q.done # q.n
  BY EmptyQueueOK DEF QueueOK
<1>5. [q EXCEPT !.rec.st = "spare"] = [q EXCEPT !.rec = r]
  OBVIOUS
<1> HIDE DEF r
<1> QED
  BY <1>2, <1>3, <1>4, <1>5, NewRecordOK

\* Setting WRITES_ALLOCATED.
LEMMA WritesAllocatedOK ==
  ASSUME NEW q \in Queue, QueueOK(q)
  PROVE  LET r == [q EXCEPT !.alloc = IF @ = "header" THEN "writes" ELSE @]
         IN  QueueOK(r) /\ r.rec = q.rec /\ (q.alloc # "none" => r.alloc # "none")
BY DEF QueueOK, Queue

\* The log that FtwReclaimWorkSpace copies is in order.
LEMMA ReclaimedQueueOK ==
  ASSUME NEW q \in Queue, QueueOK(q), NEW preserve \in BOOLEAN
  PROVE  /\ QueueOK(ReclaimedQueue(q, preserve))
         /\ ReclaimedQueue(q, preserve).rec \in {q.rec, NoRec}
<1>1. CASE ~(preserve /\ q.alloc # "none")
  BY <1>1, EmptyQueueOK DEF ReclaimedQueue
<1>2. CASE preserve /\ q.alloc # "none"
  <2> DEFINE r == [q EXCEPT !.off = WorkHeaderSize, !.stray = NoHeader]
  <2>1. /\ r.off = WorkHeaderSize /\ r.stray = NoHeader /\ r.alloc = q.alloc /\ r.n = q.n
        /\ r.p = q.p /\ r.done = q.done /\ r.rec = q.rec
    BY DEF Queue
  <2>2. ReclaimedQueue(q, preserve) = r
    BY <1>2 DEF ReclaimedQueue
  <2> HIDE DEF r
  <2>3. WorkHeaderSize + WriteTotalSize(q.n, q.p) <= WsSize
    BY <1>2, QueueFields, WsSizeAssumption DEF QueueOK, WorkHeaderSize
  <2>4. WorkHeaderSize >= WorkHeaderSize
    BY DEF WorkHeaderSize
  <2> QED
    BY <1>2, <2>1, <2>2, <2>3, <2>4 DEF QueueOK
<1> QED
  BY <1>1, <1>2

----------------------------------------------------------------------------
(* Device operations, block by block. *)

LEMMA UpdateFrame ==
  ASSUME FlashType, NEW a \in Areas, NEW img, Update(a, img)
  PROVE  flash'[a] = img /\ \A b \in Areas \ {a} : flash'[b] = flash[b]
BY DEF FlashType, Update

LEMMA RewriteFrame ==
  ASSUME FlashType, NEW a \in Areas, NEW hi \in Int, NEW h, BeginRewrite(a, hi, h)
  PROVE  /\ \A b \in Areas \ {a} : flash'[b] = flash[b]
         /\ flash'[a].hdr \in {flash[a].hdr, "none", h}
         /\ flash'[a].q \in {flash[a].q, EmptyQueue}
         /\ \A u \in Cells : ~(u <= hi) => flash'[a].data[u] = flash[a].data[u]
<1>1. PICK g \in {flash[a].hdr, "none", h}, log \in {flash[a].q, EmptyQueue} :
        flash' = [flash EXCEPT ![a] =
               [data |-> [u \in Cells |-> IF u <= hi THEN Torn ELSE @.data[u]],
                hdr  |-> g,
                q    |-> log]]
  BY DEF BeginRewrite
<1>2. flash'[a] = [data |-> [u \in Cells |-> IF u <= hi THEN Torn ELSE flash[a].data[u]],
                   hdr  |-> g, q |-> log]
  BY <1>1 DEF FlashType
<1>3. \A b \in Areas \ {a} : flash'[b] = flash[b]
  BY <1>1 DEF FlashType
<1> QED
  BY <1>2, <1>3

\* The blocks of the driver and those of the targets.
LEMMA Blocks ==
  /\ "work" \in Areas /\ "spare" \in Areas /\ "boot" \in Areas
  /\ Plain \subseteq Areas \ {"work", "spare", "boot"}
  /\ Targets \subseteq Areas /\ "spare" \notin Targets
BY AreasAssumption DEF Areas, Plain

\* What a reader of the log finds.
LEMMA LogReads ==
  ASSUME FlashType, LogsOK
  PROVE  /\ Work = flash["work"] /\ LastWrite = flash["work"].q /\ QueueOK(flash["work"].q)
         /\ flash["work"] \in Image /\ flash["work"].q \in Queue /\ Rec \in Record
         /\ IsValidWorkSpace(Work) <=> InPlace
         /\ Pending <=> ~NothingPending
         /\ flash["spare"] \in Image /\ flash["spare"].q \in Queue /\ QueueOK(flash["spare"].q)
         /\ flash["work"].hdr \in HdrState /\ flash["spare"].hdr \in HdrState
<1>1. /\ flash["work"] \in Image /\ flash["work"].q \in Queue /\ flash["spare"] \in Image
      /\ flash["spare"].q \in Queue
      /\ flash["work"].hdr \in HdrState /\ flash["spare"].hdr \in HdrState
  BY Blocks DEF FlashType, Image
<1>2. QueueOK(flash["work"].q) /\ QueueOK(flash["spare"].q)
  BY Blocks DEF LogsOK
<1>3. LastWrite = flash["work"].q
  BY <1>1, <1>2, LastIsEnd DEF LastWrite, Work
<1>4. Rec \in Record
  BY <1>1, QueueFields DEF Rec
<1> QED
  BY <1>1, <1>2, <1>3, <1>4 DEF Work, IsValidWorkSpace, InPlace, Pending, NothingPending, Rec

\* A workspace that is full has no write in progress.
LEMMA FullIsIdle ==
  ASSUME FlashType, LogsOK, NeedsReclaim
  PROVE  flash["work"].q.alloc = "none" /\ Rec = NoRec /\ NothingPending
<1> DEFINE q == flash["work"].q
<1>1. q \in Queue /\ QueueOK(q) /\ q.off \in Nat /\ q.n \in Nat /\ q.p \in Nat
  BY LogReads, QueueFields
<1>2. WsSize - q.off < WriteTotalSize(1, 0)
  BY DEF NeedsReclaim, Work
<1>3. WsSize \in Nat /\ WriteTotalSize(1, 0) \in Nat
  BY WsSizeAssumption, WriteTotalSizeType
<1>4. ASSUME q.alloc # "none" PROVE FALSE
  <2>1. q.n \in Nat \ {0} /\ q.off + WriteTotalSize(q.n, q.p) <= WsSize
    BY <1>1, <1>4 DEF QueueOK
  <2>2. WriteTotalSize(q.n, q.p) \in Nat /\ WriteTotalSize(q.n, q.p) >= WriteTotalSize(1, 0)
    BY <1>1, <2>1, TotalAtLeast
  <2> HIDE DEF q
  <2> QED
    BY <1>1, <1>2, <1>3, <2>1, <2>2
<1>5. q.rec = NoRec
  BY <1>1, <1>4 DEF QueueOK
<1> QED
  BY <1>4, <1>5, EmptyQueueOK DEF Rec, NothingPending

----------------------------------------------------------------------------
(* How the driver's device operations change the blocks. *)

\* The step changes no block outside X.
OnlyIn(X) == swap' = swap /\ \A b \in Areas \ X : flash'[b] = flash[b]

\* A workspace that is there stays, in its place or in the spare block.
Lasting == InPlace \/ InCopy => InPlace' \/ InCopy'

\* No reader can tell that the step was taken.
Same == Lasting /\ \A t \in Targets : Seen(t)' = Seen(t)

\* What readers find in the targets, and one write as they see it.
View == [t \in Targets |-> Seen(t)]
OneWrite ==
  /\ Lasting
  /\ \E t \in Targets, lo \in Cells, hi \in Cells, d \in Data :
       View' = [View EXCEPT ![t] = [u \in Cells |-> IF u \in lo .. hi THEN d ELSE @[u]]]

LEMMA OneWriteSeen ==
  ASSUME NEW t \in Targets, NEW lo \in Cells, NEW hi \in Cells, NEW d \in Data,
         Seen(t)' = [u \in Cells |-> IF u \in lo .. hi THEN d ELSE Seen(t)[u]],
         \A s \in Targets \ {t} : Seen(s)' = Seen(s), Lasting
  PROVE  OneWrite
<1> DEFINE new == [u \in Cells |-> IF u \in lo .. hi THEN d ELSE View[t][u]]
<1>1. View[t] = Seen(t)
  BY DEF View
<1>2. View' = [s \in Targets |-> Seen(s)']
  BY DEF View
<1>3. \A s \in Targets \ {t} : Seen(s)' = View[s]
  BY DEF View
<1>4. Seen(t)' = new
  BY <1>1
<1>5. DOMAIN View = Targets
  BY DEF View
<1> HIDE DEF new
<1>6. \A s \in Targets : Seen(s)' = IF s = t THEN new ELSE View[s]
  BY <1>3, <1>4
<1>7. View' = [View EXCEPT ![t] = new]
  BY <1>2, <1>5, <1>6 DEF View
<1>8. View' = [View EXCEPT ![t] = [u \in Cells |-> IF u \in lo .. hi THEN d ELSE View[t][u]]]
  BY <1>7 DEF new
<1> QED
  BY ONLY <1>8, t \in Targets, lo \in Cells, hi \in Cells, d \in Data, Lasting DEF OneWrite

\* Nothing is written.
LEMMA FrameNone ==
  ASSUME FlashOK, UNCHANGED <<flash, swap>>
  PROVE  FlashOK' /\ Same
<1>1. FlashOK'
  BY DEF FlashOK, WorkOK, CopiedRecord, PlainOK, BootOK, InCopy, InPlace, PendingFor, Rec,
     BootArea
<1>2. Same
  BY DEF Same, Lasting, Seen, InCopy, InPlace, PendingFor, Rec, BootArea
<1> QED
  BY <1>1, <1>2

\* The spare block may hold anything while no write is pending and the
\* workspace is in its place.
LEMMA FrameSpare ==
  ASSUME FlashOK, WorkIdle, OnlyIn({"spare"})
  PROVE  FlashOK' /\ Same
<1>1. /\ flash'["work"] = flash["work"] /\ flash'["boot"] = flash["boot"] /\ swap' = swap
      /\ ~swap /\ \A t \in Plain : flash'[t] = flash[t]
  BY Blocks DEF OnlyIn, WorkIdle
<1>2. InPlace /\ InPlace' /\ ~InCopy /\ ~InCopy' /\ NothingPending
      /\ \A t : ~PendingFor(t) /\ ~PendingFor(t)'
  BY <1>1 DEF WorkIdle, InPlace, InCopy, NothingPending, PendingFor, Rec
<1>3. BootArea = "boot" /\ BootArea' = "boot"
  BY <1>1 DEF BootArea
<1>4. WorkOK' /\ BootOK'
  BY <1>1, <1>2, <1>3 DEF FlashOK, WorkOK, BootOK
<1>5. PlainOK'
  BY <1>1, <1>2 DEF FlashOK, PlainOK
<1>6. ASSUME NEW t \in Targets PROVE Seen(t)' = Seen(t)
  <2>1. CASE t = "boot"
    BY <1>1, <1>3, <2>1 DEF Seen
  <2>2. CASE t = "work"
    BY <1>1, <1>2, <2>2 DEF Seen
  <2>3. CASE t \in Plain
    BY <1>1, <1>2, <2>3 DEF Seen, Plain
  <2> QED
    BY <2>1, <2>2, <2>3 DEF Plain
<1> QED
  BY <1>2, <1>4, <1>5, <1>6 DEF FlashOK, Same, Lasting

\* The log changes and no write is pending before or after.
LEMMA FrameLog ==
  ASSUME FlashOK, WorkIdle, OnlyIn({"work"}),
         flash'["work"].hdr = flash["work"].hdr, flash'["work"].data = flash["work"].data,
         flash'["work"].q.rec.st # "spare"
  PROVE  FlashOK' /\ Same
<1>1. /\ flash'["spare"] = flash["spare"] /\ flash'["boot"] = flash["boot"] /\ swap' = swap
      /\ ~swap /\ \A t \in Plain : flash'[t] = flash[t]
  BY Blocks DEF OnlyIn, WorkIdle
<1>2. InPlace /\ InPlace' /\ ~InCopy /\ ~InCopy' /\ NothingPending
      /\ \A t : ~PendingFor(t) /\ ~PendingFor(t)'
  BY <1>1 DEF WorkIdle, InPlace, InCopy, NothingPending, PendingFor, Rec
<1>3. BootArea = "boot" /\ BootArea' = "boot"
  BY <1>1 DEF BootArea
<1>4. WorkOK' /\ BootOK'
  BY <1>1, <1>2, <1>3 DEF FlashOK, WorkOK, BootOK
<1>5. PlainOK'
  BY <1>1, <1>2 DEF FlashOK, PlainOK
<1>6. ASSUME NEW t \in Targets PROVE Seen(t)' = Seen(t)
  <2>1. CASE t = "boot"
    BY <1>1, <1>3, <2>1 DEF Seen
  <2>2. CASE t = "work"
    BY <1>1, <1>2, <2>2 DEF Seen
  <2>3. CASE t \in Plain
    BY <1>1, <1>2, <2>3 DEF Seen, Plain
  <2> QED
    BY <2>1, <2>2, <2>3 DEF Plain
<1> QED
  BY <1>2, <1>4, <1>5, <1>6 DEF FlashOK, Same, Lasting

\* The spare block stands for the working block, and the working block may be
\* rewritten.
Standing ==
  /\ ~swap /\ flash["spare"].hdr = "valid" /\ Full(flash["spare"].data)
  /\ CopiedRecord
  /\ NothingPending \/ PendingFor("work")
  /\ Seen("work") = flash["spare"].data

LEMMA FrameStanding ==
  ASSUME FlashOK, Standing, OnlyIn({"work"}), flash'["work"].hdr # "valid"
  PROVE  FlashOK' /\ Same /\ InCopy'
<1>1. /\ flash'["spare"] = flash["spare"] /\ flash'["boot"] = flash["boot"] /\ swap' = swap
      /\ ~swap /\ \A t \in Plain : flash'[t] = flash[t]
  BY Blocks DEF OnlyIn, Standing
<1>2. InCopy' /\ \A t : ~PendingFor(t)'
  BY <1>1 DEF Standing, InPlace, InCopy, PendingFor
<1>3. \A t \in Plain : ~PendingFor(t)
  BY DEF Standing, NothingPending, PendingFor, Plain
<1>4. BootArea = "boot" /\ BootArea' = "boot"
  BY <1>1 DEF BootArea
<1>5. WorkOK' /\ BootOK'
  BY <1>1, <1>2, <1>4 DEF FlashOK, WorkOK, CopiedRecord, BootOK, Standing
<1>6. PlainOK'
  BY <1>1, <1>2, <1>3 DEF FlashOK, PlainOK
<1>7. ASSUME NEW t \in Targets PROVE Seen(t)' = Seen(t)
  <2>1. CASE t = "boot"
    BY <1>1, <1>4, <2>1 DEF Seen
  <2>2. CASE t = "work"
    BY <1>1, <1>2, <2>2 DEF Seen, Standing
  <2>3. CASE t \in Plain
    BY <1>1, <1>2, <1>3, <2>3 DEF Seen, Plain
  <2> QED
    BY <2>1, <2>2, <2>3 DEF Plain
<1> QED
  BY <1>2, <1>5, <1>6, <1>7 DEF FlashOK, Same, Lasting

\* The working block has been rewritten and is marked valid.
LEMMA FrameBack ==
  ASSUME FlashOK, InCopy, OnlyIn({"work"}),
         flash'["work"].hdr = "valid", flash'["work"].data = flash["spare"].data,
         flash'["work"].q = flash["spare"].q
  PROVE  FlashOK' /\ Same
<1>1. /\ flash'["spare"] = flash["spare"] /\ flash'["boot"] = flash["boot"] /\ swap' = swap
      /\ \A t \in Plain : flash'[t] = flash[t]
  BY Blocks DEF OnlyIn
<1>2. InPlace' /\ ~InCopy' /\ ~InPlace /\ \A t : ~PendingFor(t)
  BY <1>1 DEF InPlace, InCopy, PendingFor
<1>3. ~swap /\ BootArea = "boot" /\ BootArea' = "boot"
  BY <1>1, <1>2 DEF FlashOK, BootOK, BootArea
<1>4. \A t : PendingFor(t)' => t = "work"
  BY <1>1, EmptyQueueOK DEF FlashOK, WorkOK, CopiedRecord, InCopy, PendingFor, Rec
<1>5. WorkOK'
  BY <1>1, <1>2 DEF FlashOK, WorkOK, InCopy
<1>6. BootOK'
  BY <1>1, <1>2, <1>3, <1>4 DEF FlashOK, BootOK
<1>7. PlainOK'
  BY <1>1, <1>2, <1>4 DEF FlashOK, PlainOK, Plain
<1>8. ASSUME NEW t \in Targets PROVE Seen(t)' = Seen(t)
  <2>1. CASE t = "boot"
    BY <1>1, <1>3, <2>1 DEF Seen
  <2>2. CASE t = "work"
    BY <1>1, <1>2, <2>2 DEF Seen
  <2>3. CASE t \in Plain
    <3>1. ~PendingFor(t)' /\ ~PendingFor(t)
      BY <1>2, <1>4, <2>3 DEF Plain
    <3> QED
      BY <1>1, <2>3, <3>1 DEF Seen, Plain
  <2> QED
    BY <2>1, <2>2, <2>3 DEF Plain
<1> QED
  BY <1>2, <1>5, <1>6, <1>7, <1>8 DEF FlashOK, Same, Lasting

\* A plain target is rewritten as far as the spare block holds it.
LEMMA FrameTarget ==
  ASSUME FlashOK, NEW t \in Plain, PendingFor(t), OnlyIn({t}),
         \A u \in Cells : ~(u <= Rec.hi) => flash'[t].data[u] = flash[t].data[u]
  PROVE  FlashOK' /\ Same
<1>1. /\ flash'["spare"] = flash["spare"] /\ flash'["boot"] = flash["boot"] /\ swap' = swap
      /\ flash'["work"] = flash["work"] /\ \A s \in Plain \ {t} : flash'[s] = flash[s]
  BY Blocks DEF OnlyIn
<1>2. /\ Rec' = Rec /\ InPlace' = InPlace /\ InCopy' = InCopy
      /\ \A s : PendingFor(s)' = PendingFor(s)
  BY <1>1 DEF InPlace, InCopy, PendingFor, Rec
<1>3. BootArea' = BootArea /\ BootArea \in {"boot", "spare"}
  BY <1>1 DEF BootArea
<1>4. WorkOK'
  BY <1>1, <1>2 DEF FlashOK, WorkOK, CopiedRecord
<1>5. BootOK'
  BY <1>1, <1>2, <1>3 DEF FlashOK, BootOK
<1>6. PlainOK'
  <2> SUFFICES ASSUME NEW s \in Plain, NEW u \in Cells
               PROVE  /\ PendingFor(s) /\ u <= Rec.hi => flash["spare"].data[u] \in Data
                      /\ ~(PendingFor(s) /\ u <= Rec.hi) => flash'[s].data[u] \in Data
    BY <1>1, <1>2 DEF PlainOK
  <2>1. CASE s = t
    BY <2>1 DEF FlashOK, PlainOK
  <2>2. CASE s # t
    BY <1>1, <2>2 DEF FlashOK, PlainOK
  <2> QED
    BY <2>1, <2>2
<1>7. ASSUME NEW s \in Targets PROVE Seen(s)' = Seen(s)
  <2>1. CASE s = "boot"
    BY <1>1, <1>3, <2>1 DEF Seen
  <2>2. CASE s = "work"
    BY <1>1, <1>2, <2>2 DEF Seen
  <2>3. CASE s \in Plain /\ s # t
    BY <1>1, <1>2, <2>3 DEF Seen, Plain
  <2>4. CASE s = t
    <3>1. \A u \in Cells : (IF PendingFor(t)' /\ u <= Rec'.hi THEN flash'["spare"].data[u]
                                                             ELSE flash'[t].data[u])
                         = (IF PendingFor(t) /\ u <= Rec.hi THEN flash["spare"].data[u]
                                                            ELSE flash[t].data[u])
      BY <1>1, <1>2
    <3> QED
      BY <2>4, <3>1 DEF Seen, Plain
  <2> QED
    BY <2>1, <2>2, <2>3, <2>4 DEF Plain
<1> QED
  BY <1>2, <1>4, <1>5, <1>6, <1>7 DEF FlashOK, Same, Lasting

\* The copy of the working block gets its record marked.
LEMMA FrameMarked ==
  ASSUME FlashOK, PendingFor("work"), ~swap, OnlyIn({"spare"}),
         flash'["spare"].hdr = flash["spare"].hdr, flash'["spare"].data = flash["spare"].data,
         flash'["spare"].q = flash["work"].q
  PROVE  FlashOK' /\ Same
<1>1. /\ flash'["work"] = flash["work"] /\ flash'["boot"] = flash["boot"] /\ swap' = swap
      /\ \A t \in Plain : flash'[t] = flash[t]
  BY Blocks DEF OnlyIn
<1>2. /\ Rec' = Rec /\ InPlace' = InPlace /\ InCopy' = InCopy /\ InPlace
      /\ \A s : PendingFor(s)' = PendingFor(s)
  BY <1>1 DEF InPlace, InCopy, PendingFor, Rec
<1>3. BootArea' = "boot" /\ BootArea = "boot"
  BY <1>1 DEF BootArea
<1>4. ~PendingFor("boot") /\ \A t \in Plain : ~PendingFor(t)
  BY DEF PendingFor, Plain
<1>5. WorkOK'
  BY <1>1, <1>2 DEF FlashOK, WorkOK, InCopy, InPlace
<1>6. BootOK'
  BY <1>1, <1>2, <1>3, <1>4 DEF FlashOK, BootOK
<1>7. PlainOK'
  BY <1>1, <1>2, <1>4 DEF FlashOK, PlainOK
<1>8. ASSUME NEW s \in Targets PROVE Seen(s)' = Seen(s)
  <2>1. CASE s = "boot"
    BY <1>1, <1>3, <2>1 DEF Seen
  <2>2. CASE s = "work"
    BY <1>1, <1>2, <2>2 DEF Seen
  <2>3. CASE s \in Plain
    BY <1>1, <1>2, <1>4, <2>3 DEF Seen, Plain
  <2> QED
    BY <2>1, <2>2, <2>3 DEF Plain
<1> QED
  BY <1>2, <1>5, <1>6, <1>7, <1>8 DEF FlashOK, Same, Lasting

\* A pending write that has reached its target is marked done, or aborted.
LEMMA FrameDone ==
  ASSUME FlashType, LogsOK, FlashOK, NEW t \in Targets, Settled(t), OnlyIn({"work"}),
         flash'["work"].hdr = flash["work"].hdr, flash'["work"].data = flash["work"].data,
         flash'["work"].q.rec.st # "spare"
  PROVE  FlashOK' /\ Same
<1>1. /\ flash'["spare"] = flash["spare"] /\ flash'["boot"] = flash["boot"] /\ swap' = swap
      /\ ~swap /\ \A s \in Plain : flash'[s] = flash[s]
  BY Blocks DEF OnlyIn, Settled
<1>2. InPlace /\ InPlace' /\ ~InCopy /\ ~InCopy'
      /\ \A s : ~PendingFor(s)' /\ (PendingFor(s) <=> s = t)
  BY <1>1 DEF Settled, InPlace, InCopy, PendingFor, Rec
<1>3. BootArea = "boot" /\ BootArea' = "boot"
  BY <1>1 DEF BootArea
<1>4. Rec \in Record /\ RecordOK(Rec) /\ Rec.st = "spare" /\ Rec.t = t
  BY <1>2, LogReads DEF QueueOK, Rec, PendingFor
<1>5. Rec.hi \in Cells /\ (t = "work" => Rec.hi = DU)
  BY <1>4 DEF RecordOK
<1>6. \A u \in Cells : u <= Rec.hi => flash[t].data[u] = flash["spare"].data[u]
  BY <1>5, DUAssumption DEF Settled, Cells
<1>7. WorkOK' /\ BootOK'
  BY <1>1, <1>2, <1>3 DEF FlashOK, WorkOK, BootOK
<1>8. PlainOK'
  <2> SUFFICES ASSUME NEW s \in Plain, NEW u \in Cells
               PROVE  flash[s].data[u] \in Data
    BY <1>1, <1>2 DEF PlainOK
  <2>1. CASE s = t
    BY <1>2, <1>6, <2>1 DEF FlashOK, PlainOK
  <2>2. CASE s # t
    BY <1>2, <2>2 DEF FlashOK, PlainOK
  <2> QED
    BY <2>1, <2>2
<1>9. ASSUME NEW s \in Targets PROVE Seen(s)' = Seen(s)
  <2>1. CASE s = "boot"
    BY <1>1, <1>3, <2>1 DEF Seen
  <2>2. CASE s = "work" /\ t # "work"
    BY <1>1, <1>2, <2>2 DEF Seen
  <2>3. CASE s = "work" /\ t = "work"
    <3>1. flash["work"].data \in [Cells -> Data] /\ flash["spare"].data \in [Cells -> Data]
      BY <1>2, <2>3 DEF FlashOK, WorkOK, Full
    <3>2. \A u \in Cells : flash["work"].data[u] = flash["spare"].data[u]
      BY <1>5, <1>6, <2>3, DUAssumption DEF Cells
    <3>3. flash["work"].data = flash["spare"].data
      BY <3>1, <3>2
    <3> QED
      BY <1>1, <1>2, <2>3, <3>3 DEF Seen
  <2>4. CASE s \in Plain /\ s # t
    BY <1>1, <1>2, <2>4 DEF Seen, Plain
  <2>5. CASE s \in Plain /\ s = t
    <3>1. \A u \in Cells : flash'[t].data[u]
                         = (IF PendingFor(t) /\ u <= Rec.hi THEN flash["spare"].data[u]
                                                            ELSE flash[t].data[u])
      BY <1>1, <1>2, <1>6, <2>5
    <3> QED
      BY <1>2, <2>5, <3>1 DEF Seen, Plain
  <2> QED
    BY <2>1, <2>2, <2>3, <2>4, <2>5 DEF Plain
<1> QED
  BY <1>2, <1>7, <1>8, <1>9 DEF FlashOK, Same, Lasting

\* A first workspace has been prepared in the spare block and is marked valid.
LEMMA FrameFirst ==
  ASSUME FlashOK, ~swap, ~InPlace, ~InCopy, OnlyIn({"spare"}),
         flash'["spare"].hdr = "valid", flash'["spare"].data = flash["work"].data,
         flash'["spare"].q.rec = NoRec
  PROVE  FlashOK' /\ Same
<1>1. /\ flash'["work"] = flash["work"] /\ flash'["boot"] = flash["boot"] /\ swap' = swap
      /\ \A t \in Plain : flash'[t] = flash[t]
  BY Blocks DEF OnlyIn
<1>2. InCopy' /\ ~InPlace' /\ \A t : ~PendingFor(t) /\ ~PendingFor(t)'
  BY <1>1 DEF InPlace, InCopy, PendingFor
<1>3. BootArea = "boot" /\ BootArea' = "boot"
  BY <1>1 DEF BootArea
<1>4. WorkOK' /\ BootOK'
  BY <1>1, <1>2, <1>3 DEF FlashOK, WorkOK, CopiedRecord, BootOK
<1>5. PlainOK'
  BY <1>1, <1>2 DEF FlashOK, PlainOK
<1>6. ASSUME NEW t \in Targets PROVE Seen(t)' = Seen(t)
  <2>1. CASE t = "boot"
    BY <1>1, <1>3, <2>1 DEF Seen
  <2>2. CASE t = "work"
    BY <1>1, <1>2, <2>2 DEF Seen
  <2>3. CASE t \in Plain
    BY <1>1, <1>2, <2>3 DEF Seen, Plain
  <2> QED
    BY <2>1, <2>2, <2>3 DEF Plain
<1> QED
  BY <1>2, <1>4, <1>5, <1>6 DEF FlashOK, Same, Lasting

\* The spare block may hold anything, but a valid workspace, before there is one.
LEMMA FrameBlank ==
  ASSUME FlashOK, ~swap, ~InPlace, ~InCopy, OnlyIn({"spare"}),
         flash'["spare"].hdr # "valid"
  PROVE  FlashOK' /\ Same
<1>1. /\ flash'["work"] = flash["work"] /\ flash'["boot"] = flash["boot"] /\ swap' = swap
      /\ \A t \in Plain : flash'[t] = flash[t]
  BY Blocks DEF OnlyIn
<1>2. ~InCopy' /\ ~InPlace' /\ \A t : ~PendingFor(t) /\ ~PendingFor(t)'
  BY <1>1 DEF InPlace, InCopy, PendingFor
<1>3. BootArea = "boot" /\ BootArea' = "boot"
  BY <1>1 DEF BootArea
<1>4. WorkOK' /\ BootOK'
  BY <1>1, <1>2, <1>3 DEF FlashOK, WorkOK, BootOK
<1>5. PlainOK'
  BY <1>1, <1>2 DEF FlashOK, PlainOK
<1>6. ASSUME NEW t \in Targets PROVE Seen(t)' = Seen(t)
  <2>1. CASE t = "boot"
    BY <1>1, <1>3, <2>1 DEF Seen
  <2>2. CASE t = "work"
    BY <1>1, <1>2, <2>2 DEF Seen
  <2>3. CASE t \in Plain
    BY <1>1, <1>2, <2>3 DEF Seen, Plain
  <2> QED
    BY <2>1, <2>2, <2>3 DEF Plain
<1> QED
  BY <1>2, <1>4, <1>5, <1>6 DEF FlashOK, Same, Lasting

\* TopSwap makes the spare block the boot block: the write becomes visible.
LEMMA FrameSwap ==
  ASSUME FlashOK, PendingFor("boot"), "boot" \in Targets, flash' = flash, swap' = TRUE
  PROVE  FlashOK' /\ (Same \/ OneWrite)
<1>1. CASE swap
  BY <1>1, FrameNone
<1>2. CASE ~swap
  <2>1. PICK lo \in Cells, hi \in Cells, d \in Data :
          flash["spare"].data
            = [u \in Cells |-> IF u \in lo .. hi THEN d ELSE flash["boot"].data[u]]
    BY <1>2 DEF FlashOK, BootOK, ByOneWrite
  <2>2. BootArea = "boot" /\ BootArea' = "spare"
    BY <1>2 DEF BootArea
  <2>3. flash["boot"].data \in [Cells -> Data]
    BY <2>2 DEF FlashOK, BootOK, Full
  <2>4. flash["spare"].data \in [Cells -> Data]
    BY <2>1, <2>3
  <2>5. /\ Rec' = Rec /\ InPlace' = InPlace /\ InCopy' = InCopy /\ InPlace
        /\ \A s : PendingFor(s)' = PendingFor(s)
    BY DEF InPlace, InCopy, PendingFor, Rec
  <2>6. WorkOK'
    BY <2>5 DEF FlashOK, WorkOK, CopiedRecord
  <2>7. PlainOK'
    BY <2>5 DEF FlashOK, PlainOK
  <2>8. BootOK'
    BY <2>2, <2>4, <2>5 DEF BootOK, Full
  <2>9. /\ Seen("boot")' = [u \in Cells |-> IF u \in lo .. hi THEN d ELSE Seen("boot")[u]]
    BY <2>1, <2>2 DEF Seen
  <2>10. ASSUME NEW s \in Targets \ {"boot"} PROVE Seen(s)' = Seen(s)
    BY <2>5 DEF Seen
  <2>11. OneWrite
    BY <2>5, <2>9, <2>10, OneWriteSeen DEF Lasting
  <2> QED
    BY <2>6, <2>7, <2>8, <2>11 DEF FlashOK
<1> QED
  BY <1>1, <1>2

\* With TopSwap set, the boot block itself may be rewritten.
LEMMA FrameBoot ==
  ASSUME FlashOK, swap, OnlyIn({"boot"})
  PROVE  FlashOK' /\ Same
<1>1. /\ flash'["spare"] = flash["spare"] /\ flash'["work"] = flash["work"] /\ swap' = swap
      /\ \A s \in Plain : flash'[s] = flash[s]
  BY Blocks DEF OnlyIn
<1>2. /\ Rec' = Rec /\ InPlace' = InPlace /\ InCopy' = InCopy
      /\ \A s : PendingFor(s)' = PendingFor(s)
  BY <1>1 DEF InPlace, InCopy, PendingFor, Rec
<1>3. BootArea' = "spare" /\ BootArea = "spare"
  BY <1>1 DEF BootArea
<1>4. WorkOK'
  BY <1>1, <1>2 DEF FlashOK, WorkOK, CopiedRecord
<1>5. BootOK'
  BY <1>1, <1>2, <1>3 DEF FlashOK, BootOK
<1>6. PlainOK'
  BY <1>1, <1>2 DEF FlashOK, PlainOK
<1>7. ASSUME NEW s \in Targets PROVE Seen(s)' = Seen(s)
  <2>1. CASE s = "boot"
    BY <1>1, <1>3, <2>1 DEF Seen
  <2>2. CASE s = "work"
    BY <1>1, <1>2, <2>2 DEF Seen
  <2>3. CASE s \in Plain
    BY <1>1, <1>2, <2>3 DEF Seen, Plain
  <2> QED
    BY <2>1, <2>2, <2>3 DEF Plain
<1> QED
  BY <1>2, <1>4, <1>5, <1>6, <1>7 DEF FlashOK, Same, Lasting

\* ... and is booted from again once it is the same.
LEMMA FrameUnswap ==
  ASSUME FlashOK, swap, flash["boot"].data = flash["spare"].data, "boot" \in Targets,
         flash' = flash, swap' = FALSE
  PROVE  FlashOK' /\ Same
<1>1. BootArea = "spare" /\ BootArea' = "boot"
  BY DEF BootArea
<1>2. flash["spare"].data \in [Cells -> Data]
  BY <1>1 DEF FlashOK, BootOK, Full
<1>3. /\ Rec' = Rec /\ InPlace' = InPlace /\ InCopy' = InCopy
      /\ \A s : PendingFor(s)' = PendingFor(s)
  BY DEF InPlace, InCopy, PendingFor, Rec
<1>4. WorkOK' /\ PlainOK'
  BY <1>3 DEF FlashOK, WorkOK, CopiedRecord, PlainOK
<1>5. ByOneWrite(flash["boot"].data, flash["spare"].data)
  <2> DEFINE d == flash["spare"].data[1]
  <2>1. 1 \in Cells /\ d \in Data
    BY <1>2, DUAssumption DEF Cells
  <2>2. flash["spare"].data
          = [u \in Cells |-> IF u \in 1 .. 1 THEN d ELSE flash["boot"].data[u]]
    <3>1. \A u \in Cells : u \in 1 .. 1 => u = 1
      BY DEF Cells
    <3>2. \A u \in Cells : flash["spare"].data[u]
                           = IF u \in 1 .. 1 THEN d ELSE flash["boot"].data[u]
      BY <3>1
    <3> QED
      BY <1>2, <3>2
  <2> HIDE DEF d
  <2> QED
    BY <2>1, <2>2 DEF ByOneWrite
<1>6. BootOK'
  BY <1>1, <1>2, <1>5 DEF BootOK, Full
<1>7. ASSUME NEW s \in Targets PROVE Seen(s)' = Seen(s)
  BY <1>1, <1>3 DEF Seen
<1> QED
  BY <1>3, <1>4, <1>6, <1>7 DEF FlashOK, Same, Lasting

\* The spare block is marked complete: the write becomes visible, except for
\* the boot block.
LEMMA FrameComplete ==
  ASSUME FlashType, FlashOK, WorkIdle, OnlyIn({"work"}),
         flash'["work"].hdr = flash["work"].hdr, flash'["work"].data = flash["work"].data,
         NEW t \in Targets, NEW k \in Cells, t \in {"work", "boot"} => k = DU,
         flash'["work"].q.rec = [st |-> "spare", t |-> t, hi |-> k],
         NEW lo \in Cells, NEW hi \in Cells, NEW d \in Data, hi <= k,
         \A u \in lo .. hi : flash["spare"].data[u] = d,
         \A u \in 1 .. k : u \notin lo .. hi => flash["spare"].data[u] = flash[t].data[u],
         t = "work" =>
           /\ flash["spare"].hdr = "valid"
           /\ flash["spare"].q = [flash'["work"].q EXCEPT !.rec.st = "written"]
  PROVE  FlashOK' /\ (Same \/ OneWrite)
<1>1. /\ flash'["spare"] = flash["spare"] /\ flash'["boot"] = flash["boot"] /\ swap' = swap
      /\ ~swap /\ \A s \in Plain : flash'[s] = flash[s]
  BY Blocks DEF OnlyIn, WorkIdle
<1>2. /\ InPlace /\ InPlace' /\ ~InCopy /\ ~InCopy'
      /\ Rec' = [st |-> "spare", t |-> t, hi |-> k]
      /\ \A s : ~PendingFor(s) /\ (PendingFor(s)' <=> s = t)
  BY <1>1 DEF WorkIdle, NothingPending, InPlace, InCopy, PendingFor, Rec
<1>3. BootArea = "boot" /\ BootArea' = "boot"
  BY <1>1 DEF BootArea
<1>4. flash["work"].data \in [Cells -> Data]
  BY <1>2 DEF FlashOK, WorkOK, Full
<1>5. "boot" \in Targets => flash["boot"].data \in [Cells -> Data]
  BY <1>3 DEF FlashOK, BootOK, Full
<1>6. \A s \in Plain, u \in Cells : flash[s].data[u] \in Data
  BY <1>2 DEF FlashOK, PlainOK
<1>7. \A u \in Cells : u <= k => flash["spare"].data[u]
                                   = IF u \in lo .. hi THEN d ELSE flash[t].data[u]
  BY DUAssumption DEF Cells
<1>8. \A u \in Cells : flash[t].data[u] \in Data
  BY <1>4, <1>5, <1>6 DEF Plain
<1>9. \A u \in Cells : u <= k => flash["spare"].data[u] \in Data
  BY <1>7, <1>8
<1>10. flash["spare"].data \in [Cells -> Data \cup {Torn}]
  BY Blocks DEF FlashType, Image
<1>11. ASSUME k = DU
       PROVE  /\ flash["spare"].data \in [Cells -> Data]
              /\ flash["spare"].data
                   = [u \in Cells |-> IF u \in lo .. hi THEN d ELSE flash[t].data[u]]
  <2>1. \A u \in Cells : u <= k
    BY <1>11, DUAssumption DEF Cells
  <2> QED
    BY <1>7, <1>9, <1>10, <2>1
<1>12. WorkOK'
  BY <1>1, <1>2, <1>4, <1>11 DEF WorkOK, Full
<1>13. PlainOK'
  BY <1>1, <1>2, <1>6, <1>9 DEF PlainOK
<1>14. BootOK'
  <2>1. PendingFor("boot")' => ByOneWrite(flash["boot"].data, flash["spare"].data)
    <3>1. CASE t # "boot"
      BY <1>2, <3>1
    <3>2. CASE t = "boot"
      <4>1. flash["spare"].data
              = [u \in Cells |-> IF u \in lo .. hi THEN d ELSE flash["boot"].data[u]]
        BY <1>11, <3>2
      <4> QED
        BY <4>1 DEF ByOneWrite
    <3> QED
      BY <3>1, <3>2
  <2> QED
    BY <1>1, <1>2, <1>3, <1>5, <2>1 DEF BootOK, Full
<1>15. ASSUME NEW s \in Targets, s # t \/ s = "boot" PROVE Seen(s)' = Seen(s)
  <2>1. CASE s = "boot"
    BY <1>1, <1>3, <2>1 DEF Seen
  <2>2. CASE s = "work"
    BY <1>1, <1>2, <1>15, <2>2 DEF Seen
  <2>3. CASE s \in Plain
    BY <1>1, <1>2, <1>15, <2>3 DEF Seen, Plain
  <2> QED
    BY <2>1, <2>2, <2>3 DEF Plain
<1>16. CASE t = "boot"
  <2>1. Same
    BY <1>2, <1>15, <1>16 DEF Same, Lasting
  <2> QED
    BY <1>12, <1>13, <1>14, <2>1 DEF FlashOK
<1>17. CASE t # "boot"
  <2>1. Seen(t)' = [u \in Cells |-> IF u \in lo .. hi THEN d ELSE Seen(t)[u]]
    <3>1. CASE t = "work"
      <4>1. Seen(t) = flash["work"].data /\ Seen(t)' = flash["spare"].data
        BY <1>1, <1>2, <3>1 DEF Seen
      <4> QED
        BY <1>11, <3>1, <4>1
    <3>2. CASE t \in Plain
      <4>1. Seen(t) = [u \in Cells |-> flash[t].data[u]]
        BY <1>2, <3>2 DEF Seen, Plain
      <4>2. Seen(t)' = [u \in Cells |-> IF u <= k THEN flash["spare"].data[u]
                                                  ELSE flash[t].data[u]]
        BY <1>1, <1>2, <3>2 DEF Seen, Plain
      <4>3. \A u \in Cells : ~(u <= k) => u \notin lo .. hi
        BY DEF Cells
      <4> QED
        BY <1>7, <4>1, <4>2, <4>3
    <3> QED
      BY <1>17, <3>1, <3>2 DEF Plain
  <2>2. \A s \in Targets \ {t} : Seen(s)' = Seen(s)
    BY <1>15
  <2>3. OneWrite
    BY <1>2, <2>1, <2>2, OneWriteSeen DEF Lasting
  <2> QED
    BY <1>12, <1>13, <1>14, <2>3 DEF FlashOK
<1> QED
  BY <1>12, <1>13, <1>14, <1>16, <1>17 DEF FlashOK

----------------------------------------------------------------------------
(* What a step of the driver has to show. *)

Sound ==
  TypeOK /\ CallOK /\ HeaderKept /\ ControlOK /\ LogsOK /\ FlashOK /\ Phases /\ Unwritten

Kept == LogsOK' /\ FlashOK' /\ Phases' /\ Unwritten' /\ (Same \/ OneWrite)

\* A step to a place outside a phase leaves nothing to show for that phase.
LEMMA Elsewhere ==
  /\ pc' \notin AllocLabels => AllocPhase'
  /\ pc' \notin SavingLabels => SavingPhase'
  /\ pc' \notin ReclaimLabels => ReclaimPhase'
  /\ pc' \notin FlushLabels => FlushPhase'
  /\ pc' \notin BootLabels => BootPhase'
  /\ pc' \notin RecordLabels => RecordPhase'
  /\ pc' \notin ErasingLabels => ErasingPhase'
  /\ pc' # "Abort" => AbortPhase'
  /\ pc' \notin StartedLabels /\ pc' # "Restart" => StartedPhase'
<1>1. pc' \notin AllocLabels => AllocPhase'
  BY DEF AllocLabels, AllocPhase
<1>2. pc' \notin SavingLabels => SavingPhase'
  BY DEF SavingLabels, SavingPhase
<1>3. pc' \notin ReclaimLabels => ReclaimPhase'
  BY DEF ReclaimLabels, ReclaimPhase
<1>4. pc' \notin FlushLabels => FlushPhase'
  BY DEF FlushPhase
<1>5. pc' \notin BootLabels => BootPhase'
  BY DEF BootPhase
<1>6. pc' \notin RecordLabels => RecordPhase'
  BY DEF RecordLabels, RecordPhase
<1>7. pc' \notin ErasingLabels => ErasingPhase'
  BY DEF ErasingPhase
<1>8. pc' # "Abort" => AbortPhase'
  BY DEF AbortPhase
<1>9. pc' \notin StartedLabels /\ pc' # "Restart" => StartedPhase'
  BY DEF StartedPhase
<1> QED
  BY <1>1, <1>2, <1>3, <1>4, <1>5, <1>6, <1>7, <1>8, <1>9

QuietLabels == {"Off", "Idle", "Init", "Allocate", "Write", "GetLastWrite"}

LEMMA OnePhase ==
  /\ pc' \in QuietLabels => Phases'
  /\ pc' \in AllocLabels /\ AllocPhase' => Phases'
  /\ pc' \in SavingLabels /\ SavingPhase' => Phases'
  /\ pc' \in ReclaimLabels /\ ReclaimPhase' => Phases'
  /\ pc' \in FlushLabels /\ FlushPhase' => Phases'
  /\ pc' \in BootLabels /\ BootPhase' => Phases'
  /\ pc' \in RecordLabels /\ RecordPhase' => Phases'
  /\ pc' \in ErasingLabels /\ ErasingPhase' => Phases'
  /\ pc' = "Abort" /\ AbortPhase' => Phases'
  /\ pc' \in StartedLabels \cup {"Restart"} /\ StartedPhase' => Phases'
<1> USE Elsewhere DEF AllocLabels, SavingLabels, ReclaimLabels, FlushLabels, BootLabels,
        RecordLabels, ErasingLabels, StartedLabels, QuietLabels, Phases
<1>1. pc' \in QuietLabels => Phases'
  OBVIOUS
<1>2. pc' \in AllocLabels /\ AllocPhase' => Phases'
  OBVIOUS
<1>3. pc' \in SavingLabels /\ SavingPhase' => Phases'
  OBVIOUS
<1>4. pc' \in ReclaimLabels /\ ReclaimPhase' => Phases'
  OBVIOUS
<1>5. pc' \in FlushLabels /\ FlushPhase' => Phases'
  OBVIOUS
<1>6. pc' \in BootLabels /\ BootPhase' => Phases'
  OBVIOUS
<1>7. pc' \in RecordLabels /\ RecordPhase' => Phases'
  OBVIOUS
<1>8. pc' \in ErasingLabels /\ ErasingPhase' => Phases'
  OBVIOUS
<1>9. pc' = "Abort" /\ AbortPhase' => Phases'
  OBVIOUS
<1>10. pc' \in StartedLabels \cup {"Restart"} /\ StartedPhase' => Phases'
  OBVIOUS
<1> QED
  BY ONLY <1>1, <1>2, <1>3, <1>4, <1>5, <1>6, <1>7, <1>8, <1>9, <1>10

\* The logs stay in order when the one that changes does.
LEMMA LogsUpdate ==
  ASSUME LogsOK, NEW a \in Areas, OnlyIn({a}), QueueOK(flash'[a].q), QueueOK(save'.q)
  PROVE  LogsOK'
BY DEF LogsOK, OnlyIn

\* As long as the working block does not change, neither does what is pending.
LEMMA WorkSame ==
  ASSUME flash'["work"] = flash["work"]
  PROVE  /\ InPlace' = InPlace /\ Rec' = Rec /\ NothingPending' = NothingPending
         /\ \A t : PendingFor(t)' = PendingFor(t)
         /\ Unfinished' = Unfinished
<1>1. InPlace' = InPlace /\ Rec' = Rec
  BY DEF InPlace, Rec
<1> QED
  BY <1>1 DEF NothingPending, PendingFor, Unfinished

\* TopSwap is set only while an update of the boot block is pending.
LEMMA Unswapped ==
  ASSUME FlashOK, NothingPending \/ (\E t : t # "boot" /\ PendingFor(t))
  PROVE  ~swap
BY DEF FlashOK, BootOK, NothingPending, PendingFor

LEMMA SpareIsSpare ==
  ASSUME ~swap
  PROVE  SpareArea = "spare" /\ BootArea = "boot" /\ Spare = flash["spare"]
BY DEF SpareArea, BootArea, Spare

\* Where Unwritten allows no unfinished record there is none.
LEMMA Finished ==
  ASSUME Unwritten, pc \notin UnfinishedLabels, pc = "Abort" => ret.abort # "Init.last"
  PROVE  ~Unfinished
BY DEF Unwritten

LEMMA UnwrittenThere ==
  ASSUME pc' \in UnfinishedLabels \/ ~Unfinished'
  PROVE  Unwritten'
BY DEF Unwritten

\* A decision of the driver changes no block.
LEMMA NothingWritten ==
  ASSUME LogsOK, FlashOK, UNCHANGED <<flash, swap>>, save' \in {save, BlankImage},
         Phases', Unwritten'
  PROVE  Kept
<1>1. LogsOK'
  BY EmptyQueueOK DEF LogsOK
<1>2. FlashOK' /\ Same
  BY FrameNone
<1> QED
  BY <1>1, <1>2 DEF Kept

\* Answering a request is always sound, unless a record is unfinished.
LEMMA Answered ==
  ASSUME Return
  PROVE  Phases' /\ save' = BlankImage /\ QueueOK(save'.q)
BY OnePhase, EmptyQueueOK DEF Return, QuietLabels

LEMMA OnlyAnswered ==
  ASSUME LogsOK, FlashOK, UNCHANGED <<flash, swap>>, Return, ~Unfinished
  PROVE  Kept
<1>1. Phases' /\ save' = BlankImage
  BY Answered
<1>2. ~Unfinished'
  BY WorkSame
<1> QED
  BY <1>1, <1>2, NothingWritten, UnwrittenThere

----------------------------------------------------------------------------
(* Who may return to whom. *)

LEMMA ControlReturn ==
  ASSUME Return
  PROVE  ControlOK'
BY DEF Return, ControlOK, NoRet, NoArg

\* A step inside the procedures that do not return to FtwWrite or FtwAllocate.
LEMMA ControlStep ==
  ASSUME ControlOK, UNCHANGED <<ret, arg>>,
         ret.record = "Write.restore" => pc' \in RecordLabels \cup {"Write.restore", "Write.restored"},
         ret.reclaim = "Allocate" => pc' \in {"Allocate"} \cup AllocLabels \cup ReclaimLabels,
         pc' \in {"Allocate", "Allocate.header"} =>
            pc = "Allocate" \/ ret.reclaim = "Allocate"
  PROVE  ControlOK'
BY DEF ControlOK, RecordLabels, AllocLabels, ReclaimLabels, FlushLabels, BootLabels

\* A step within one group of labels.
LEMMA ControlWithin ==
  ASSUME ControlOK, UNCHANGED <<ret, arg>>,
         NEW L \in {FlushLabels, BootLabels}, pc \in L, pc' \in L
  PROVE  ControlOK'
BY DEF ControlOK, RecordLabels, AllocLabels, ReclaimLabels, FlushLabels, BootLabels

LEMMA ControlNext ==
  ASSUME OnlyWholeRecords, AllocationFits, Sound, Next
  PROVE  ControlOK'
<1>0. ControlOK /\ CallOK /\ FlashType /\ ret \in Returns /\ arg \in Arguments
  BY DEF Sound, TypeOK, ControlType
<1>1. ASSUME NEW l, Continue(l),
             ret.record = "Write.restore" => l \in RecordLabels \cup {"Idle", "Write.restore"},
             ret.reclaim = "Allocate" => l \in {"Idle", "Allocate", "Reclaim.restore"},
             l \in {"Allocate", "Allocate.header"} => ret.reclaim = "Allocate"
      PROVE  ControlOK'
  <2>1. CASE l = "Idle"
    BY <1>1, <2>1, ControlReturn DEF Continue
  <2>2. CASE l # "Idle"
    BY <1>0, <1>1, <2>2, ControlStep DEF Continue, locals, RecordLabels, ReclaimLabels
  <2> QED
    BY <2>1, <2>2
<1>2. /\ ret.record = "Write.restore" =>
           /\ pc \in FlushLabels \cup BootLabels \cup RecordLabels
                       \cup {"Write.restore", "Write.restored"}
           /\ pc \in FlushLabels => ret.flush = "Record.dest"
           /\ pc \in BootLabels => ret.boot = "Record.dest"
           /\ arg.d # Torn
      /\ ret.reclaim = "Allocate" =>
           /\ pc \in {"Allocate"} \cup AllocLabels \cup ReclaimLabels \cup FlushLabels
           /\ pc \in FlushLabels => ret.flush = "Reclaim.restore"
           /\ arg.d = Torn
  BY <1>0 DEF ControlOK
<1>3. CASE ReclaimErase \/ ReclaimProgram \/ ReclaimValid \/ ReclaimRestore
  <2>1. pc \in ReclaimLabels /\ pc' \in ReclaimLabels /\ UNCHANGED <<ret, arg>>
    BY <1>3 DEF ReclaimErase, ReclaimProgram, ReclaimValid, ReclaimRestore, Step, locals,
       ReclaimLabels
  <2>2. ret.record # "Write.restore"
    BY <1>2, <2>1 DEF ReclaimLabels, FlushLabels, BootLabels, RecordLabels
  <2> QED
    BY <1>0, <2>1, <2>2, ControlStep DEF ReclaimLabels
<1>4. CASE ReclaimInvalid
  <2>1. /\ pc = "Reclaim.invalid" /\ pc' = "Flush" /\ arg' = arg
        /\ ret'.flush = "Reclaim.restore"
        /\ ret'.record = ret.record /\ ret'.reclaim = ret.reclaim
    BY <1>0, <1>4 DEF ReclaimInvalid, Returns
  <2>2. ret.record # "Write.restore"
    BY <1>2, <2>1 DEF FlushLabels, BootLabels, RecordLabels
  <2> QED
    BY <1>0, <2>1, <2>2 DEF ControlOK, FlushLabels
<1>5. CASE ReclaimRestored
  <2>1. pc = "Reclaim.restored" /\ Continue(ret.reclaim)
    BY <1>5 DEF ReclaimRestored
  <2>2. ret.record # "Write.restore" /\ ret.reclaim # "Allocate.header"
    BY <1>0, <1>2, <2>1 DEF FlushLabels, BootLabels, RecordLabels, ControlOK
  <2> QED
    BY <1>1, <2>1, <2>2
<1>6. CASE FlushValid \/ FlushInvalid \/ FlushErase \/ FlushProgram
  <2>1. pc \in FlushLabels /\ pc' \in FlushLabels /\ UNCHANGED <<ret, arg>>
    BY <1>6 DEF FlushValid, FlushInvalid, FlushErase, FlushProgram, Step, locals, FlushLabels
  <2> QED
    BY <1>0, <2>1, ControlWithin
<1>7. CASE FlushDone
  <2>1. pc \in FlushLabels /\ Continue(ret.flush)
    BY <1>7 DEF FlushDone, FlushLabels
  <2>2. ret.flush \notin {"Allocate", "Allocate.header"}
    BY <1>0 DEF Returns
  <2> QED
    BY <1>1, <1>2, <2>1, <2>2 DEF RecordLabels
<1>8. CASE BootSwap \/ BootErase \/ BootProgram
  <2>1. pc \in BootLabels /\ pc' \in BootLabels /\ UNCHANGED <<ret, arg>>
    BY <1>8 DEF BootSwap, BootErase, BootProgram, Step, locals, BootLabels
  <2> QED
    BY <1>0, <2>1, ControlWithin
<1>9. CASE BootUnswap
  <2>1. pc = "Boot.unswap" /\ Continue(ret.boot)
    BY <1>9 DEF BootUnswap
  <2>2. ret.reclaim # "Allocate" /\ ret.boot \notin {"Allocate", "Allocate.header"}
    BY <1>0, <1>2, <2>1 DEF Returns, AllocLabels, ReclaimLabels, FlushLabels
  <2> QED
    BY <1>1, <1>2, <2>1, <2>2 DEF RecordLabels, BootLabels
<1>10. CASE RecordFlush
  <2>1. pc = "Record" /\ arg' = arg
    BY <1>10 DEF RecordFlush
  <2>2. ret.reclaim # "Allocate"
    BY <1>2, <2>1 DEF AllocLabels, ReclaimLabels, FlushLabels
  <2>3. /\ ret'.record = ret.record /\ ret'.reclaim = ret.reclaim
        /\ \/ pc' = "Flush" /\ ret'.flush = "Record.dest"
           \/ pc' = "Boot" /\ ret'.boot = "Record.dest"
           \/ pc' = "Target.program"
    BY <1>0, <1>10 DEF RecordFlush, Returns
  <2> QED
    BY <1>0, <2>1, <2>2, <2>3 DEF ControlOK, FlushLabels, BootLabels, RecordLabels
<1>11. CASE TargetProgram
  <2>1. pc = "Target.program" /\ pc' = "Record.dest" /\ UNCHANGED <<ret, arg>>
    BY <1>11 DEF TargetProgram, Step, locals
  <2>2. ret.reclaim # "Allocate"
    BY <1>2, <2>1 DEF AllocLabels, ReclaimLabels, FlushLabels
  <2> QED
    BY <1>0, <2>1, <2>2, ControlStep DEF RecordLabels
<1>12. CASE RecordDest \/ RecordComplete
  <2>1. /\ pc \in {"Record.dest", "Record.complete"}
        /\ Continue(ret.record) \/ (pc' = "Record.complete" /\ UNCHANGED <<ret, arg>>)
    BY <1>12 DEF RecordDest, RecordComplete, locals
  <2>2. ret.reclaim # "Allocate" /\ ret.record \notin {"Allocate", "Allocate.header"}
    BY <1>0, <1>2, <2>1 DEF Returns, AllocLabels, ReclaimLabels, FlushLabels
  <2>3. CASE Continue(ret.record)
    BY <1>1, <2>2, <2>3
  <2>4. CASE pc' = "Record.complete" /\ UNCHANGED <<ret, arg>>
    BY <1>0, <2>2, <2>4, ControlStep DEF RecordLabels
  <2> QED
    BY <2>1, <2>3, <2>4
<1>13. CASE Allocate
  <2>1. CASE Return
    BY <2>1, ControlReturn
  <2>2. CASE ~Return
    <3>1. /\ pc = "Allocate" /\ Refreshed /\ LastWrite.alloc = "none"
          /\ WriteTotalSize(arg.n, arg.p) <= WsSize - WorkHeaderSize
          /\ arg' = arg
          /\ ~(LastWrite.off + WriteTotalSize(arg.n, arg.p) > WsSize)
                => pc' = "Allocate.header" /\ UNCHANGED ret
      BY <1>13, <2>2 DEF Allocate
    <3>2. ~(LastWrite.off + WriteTotalSize(arg.n, arg.p) > WsSize)
      <4>1. LastWrite.off + WriteTotalSize(arg.n, arg.p) <= WsSize
        BY <3>1 DEF AllocationFits
      <4>2. LastWrite.off + WriteTotalSize(arg.n, arg.p) \in Int /\ WsSize \in Int
        <5>1. LastWrite.off \in Nat
          BY <1>0, AreaTypes, LastWriteOffset, QueueFields
        <5>2. WriteTotalSize(arg.n, arg.p) \in Nat
          BY <1>0, WriteTotalSizeType DEF Arguments
        <5> QED
          BY <5>1, <5>2, WsSizeAssumption
      <4> QED
        BY <4>1, <4>2
    <3>3. ret.record # "Write.restore"
      BY <1>2, <3>1 DEF FlushLabels, BootLabels, RecordLabels
    <3> QED
      BY <1>0, <3>1, <3>2, <3>3, ControlStep DEF AllocLabels
  <2> QED
    BY <2>1, <2>2
<1>14. CASE AllocateHeader
  <2>1. pc = "Allocate.header" /\ pc' = "Allocate.writes" /\ UNCHANGED <<ret, arg>>
    BY <1>14 DEF AllocateHeader, Step, locals
  <2>2. ret.record # "Write.restore"
    BY <1>2, <2>1 DEF FlushLabels, BootLabels, RecordLabels
  <2> QED
    BY <1>0, <2>1, <2>2, ControlStep DEF AllocLabels
<1>15. CASE AllocateWrites
  <2>1. pc = "Allocate.writes" /\ Continue(ret.alloc) /\ ret.alloc \in {"Idle", "Write.record"}
    BY <1>0, <1>15 DEF AllocateWrites, Returns
  <2>2. ret.record # "Write.restore"
    BY <1>2, <2>1 DEF FlushLabels, BootLabels, RecordLabels
  <2>3. ret.alloc = "Write.record" => ret.reclaim # "Allocate"
    BY <1>0, <1>2 DEF CallOK
  <2> QED
    BY <1>1, <2>1, <2>2, <2>3
<1>16. CASE WriteStart
  <2>1. CASE Return
    BY <2>1, ControlReturn
  <2>2. CASE ~Return
    <3>1. pc = "Write" /\ arg.d # Torn
      BY <1>0, <1>16 DEF WriteStart, CallOK, WriteLabels
    <3>2. /\ ret'.record = ret.record /\ ret'.reclaim = ret.reclaim
          /\ arg'.d = arg.d /\ arg'.t = arg.t /\ arg'.hi = arg.hi
          /\ (pc' = "Allocate" /\ arg'.n = 1) \/ pc' = "Write.record"
      BY <1>0, <1>16, <2>2 DEF WriteStart, Returns, Arguments
    <3>3. ret.record # "Write.restore" /\ ret.reclaim # "Allocate"
      BY <1>2, <3>1 DEF FlushLabels, BootLabels, RecordLabels
    <3> QED
      BY <1>0, <3>1, <3>2, <3>3 DEF ControlOK
  <2> QED
    BY <2>1, <2>2
<1>17. CASE WriteRecord \/ WriteErase \/ WriteProgram \/ WriteRestore
  <2>1. CASE Return
    BY <2>1, ControlReturn
  <2>2. CASE ~Return
    <3>1. /\ pc \in {"Write.record", "Write.erase", "Write.program", "Write.restore"}
          /\ pc' \in {"Write.erase", "Write.program", "Write.spare", "Write.restored"}
          /\ pc = "Write.restore" => pc' = "Write.restored"
          /\ UNCHANGED <<ret, arg>>
      BY <1>17, <2>2 DEF WriteRecord, WriteErase, WriteProgram, WriteBuffer, WriteRestore, Step,
         locals
    <3>2. ret.reclaim # "Allocate" /\ (ret.record = "Write.restore" => pc = "Write.restore")
      BY <1>2, <3>1 DEF FlushLabels, BootLabels, RecordLabels, AllocLabels, ReclaimLabels
    <3> QED
      BY <1>0, <3>1, <3>2, ControlStep
  <2> QED
    BY <2>1, <2>2
<1>18. CASE WriteSpare
  <2>1. /\ pc = "Write.spare" /\ pc' = "Record" /\ arg' = arg /\ arg.d # Torn
        /\ ret'.record = "Write.restore" /\ ret'.reclaim = ret.reclaim
    BY <1>0, <1>18 DEF WriteSpare, Returns, CallOK, WriteLabels
  <2>2. ret.reclaim # "Allocate"
    BY <1>2, <2>1 DEF AllocLabels, ReclaimLabels, FlushLabels
  <2> QED
    BY <1>0, <2>1, <2>2 DEF ControlOK, RecordLabels, FlushLabels, BootLabels
<1>19. CASE WriteRestored
  BY <1>19, ControlReturn DEF WriteRestored
<1>20. CASE Restart \/ RestartErase \/ RestartErased \/ Abort \/ GetLastWrite
  <2>1. pc \in {"Restart", "Restart.erase", "Restart.erased", "Abort", "GetLastWrite"}
    BY <1>20 DEF Restart, RestartErase, RestartErased, Abort, GetLastWrite, Step
  <2>2. ret.record # "Write.restore" /\ ret.reclaim # "Allocate"
    BY <1>2, <2>1 DEF FlushLabels, BootLabels, RecordLabels, AllocLabels, ReclaimLabels
  <2>3. CASE Return
    BY <2>3, ControlReturn
  <2>4. CASE Continue(ret.restart) \/ Continue(ret.abort)
    <3>1. {ret.restart, ret.abort} \cap {"Allocate", "Allocate.header"} = {}
      BY <1>0 DEF Returns
    <3> QED
      BY <1>1, <2>2, <2>4, <3>1
  <2>5. CASE /\ pc' = "Record" /\ arg'.d = Torn
             /\ ret'.record = "Restart.erase" /\ ret'.reclaim = ret.reclaim
    BY <1>0, <2>2, <2>5 DEF ControlOK
  <2>6. CASE pc' \in {"Restart.erased", "Abort"} /\ UNCHANGED <<ret, arg>>
    BY <1>0, <2>2, <2>6, ControlStep
  <2>7. Restart => \/ Continue(ret.restart)
                   \/ /\ pc' = "Record" /\ arg'.d = Torn
                      /\ ret'.record = "Restart.erase" /\ ret'.reclaim = ret.reclaim
    BY <1>0 DEF Restart, NoArg, Returns
  <2> QED
    BY <1>20, <2>3, <2>4, <2>5, <2>6, <2>7
    DEF RestartErase, RestartErased, Abort, GetLastWrite, Step, locals
<1>21. CASE RefreshReclaims
  <2>1. /\ pc \in {"Init", "Allocate", "Write", "Restart", "Abort", "GetLastWrite"}
        /\ pc' = "Reclaim" /\ ret'.reclaim = pc /\ ret'.record = ret.record /\ arg' = arg
        /\ NeedsReclaim
    BY <1>0, <1>21 DEF RefreshReclaims, Returns
  <2>2. ret.record # "Write.restore"
    BY <1>2, <2>1 DEF FlushLabels, BootLabels, RecordLabels
  <2>3. pc = "Allocate" => arg.d = Torn
    <3>1. HeaderKept
      BY DEF Sound
    <3> QED
      BY <2>1, <3>1 DEF HeaderKept, Refreshed
  <2> QED
    BY <1>0, <2>1, <2>2, <2>3 DEF ControlOK, ReclaimLabels, FlushLabels
<1>22. CASE RefreshAborts
  <2>1. pc \in {"Allocate", "Write", "GetLastWrite", "Restart", "Abort"}
    BY <1>22 DEF RefreshAborts
  <2>2. ret.record # "Write.restore" /\ (ret.reclaim = "Allocate" => pc = "Allocate")
    BY <1>2, <2>1 DEF FlushLabels, BootLabels, RecordLabels, AllocLabels, ReclaimLabels
  <2>3. CASE Return
    BY <2>3, ControlReturn
  <2>4. CASE pc # "Allocate" /\ (Continue(ret.restart) \/ Continue(ret.abort))
    <3>1. {ret.restart, ret.abort} \cap {"Allocate", "Allocate.header"} = {}
      BY <1>0 DEF Returns
    <3> QED
      BY <1>1, <2>2, <2>4, <3>1
  <2> QED
    BY <1>22, <2>3, <2>4 DEF RefreshAborts
<1>23. CASE InitWorkSpace \/ InitFirst \/ InitLast \/ InitTrail \/ InitRestart
  <2>1. pc \in InitLabels
    BY <1>23 DEF InitWorkSpace, InitFirst, InitLast, InitTrail, InitRestart, InitAbort,
       InitLabels
  <2>2. ret.record # "Write.restore" /\ ret.reclaim # "Allocate"
    BY <1>2, <2>1 DEF FlushLabels, BootLabels, RecordLabels, AllocLabels, ReclaimLabels,
       InitLabels
  <2>3. CASE Return
    BY <2>3, ControlReturn
  <2>4. CASE ~Return
    <3>1. /\ ret'.record = ret.record /\ ret'.reclaim \in {ret.reclaim, "Init.first", "Init.restart"}
          /\ arg' = arg /\ pc' \notin {"Allocate", "Allocate.header"}
      BY <1>0, <1>23, <2>4 DEF InitWorkSpace, InitFirst, InitLast, InitTrail, InitRestart,
         InitAbort, Returns
    <3> QED
      BY <1>0, <2>2, <3>1 DEF ControlOK
  <2> QED
    BY <2>3, <2>4
<1>24. CASE Request
  <2>1. ret = NoRet /\ NoRet.record = "Idle" /\ NoRet.reclaim = "Idle"
    BY <1>0, <1>24 DEF Request, CallAllocate, CallWrite, CallRestart, CallAbort,
       CallGetLastWrite, Call, CallOK, NoRet
  <2>2. ASSUME NEW l, NEW a, Call(l, a), l # "Allocate.header",
               l = "Allocate" => a.n >= 1 /\ (~Overwrite => a.n = 1),
               a.d # Torn => a.hi \in Cells /\ (a.t = "boot" => a.hi = DU)
        PROVE  ControlOK'
    BY <2>1, <2>2 DEF Call, ControlOK
  <2>3. NoArg.d = Torn
    BY DEF NoArg
  <2>4. CASE CallAllocate
    <3>1. PICK a \in Allocs : Call("Allocate", [NoArg EXCEPT !.n = a[1], !.p = a[2]])
      BY <2>4 DEF CallAllocate
    <3> DEFINE b == [NoArg EXCEPT !.n = a[1], !.p = a[2]]
    <3>2. b.d = Torn /\ b.n = a[1]
      BY DEF NoArg
    <3>3. a[1] \in Nat \ {0} /\ (~Overwrite => a[1] = 1)
      BY AllocsAssumption DEF OnlyWholeRecords
    <3>4. Call("Allocate", b)
      BY <3>1
    <3> HIDE DEF b
    <3> QED
      BY <2>2, <3>2, <3>3, <3>4
  <2>5. CASE CallWrite
    <3>1. PICK t \in Targets, lo \in Cells, d \in Data, priv \in {TRUE, ~Implicit} :
            \E hi \in lo .. DU :
              /\ t = "boot" => hi = DU
              /\ Call("Write", [t |-> t, lo |-> lo, hi |-> hi, d |-> d, priv |-> priv,
                                n |-> 0, p |-> 0])
      BY <2>5 DEF CallWrite
    <3>2. PICK hi \in lo .. DU :
              /\ t = "boot" => hi = DU
              /\ Call("Write", [t |-> t, lo |-> lo, hi |-> hi, d |-> d, priv |-> priv,
                                n |-> 0, p |-> 0])
      BY <3>1
    <3>3. hi \in Cells
      BY DUAssumption DEF Cells
    <3> DEFINE b == [t |-> t, lo |-> lo, hi |-> hi, d |-> d, priv |-> priv, n |-> 0, p |-> 0]
    <3>4. b.hi = hi /\ b.t = t
      OBVIOUS
    <3>5. Call("Write", b)
      BY <3>2
    <3> HIDE DEF b
    <3> QED
      BY <2>2, <3>2, <3>3, <3>4, <3>5
  <2>6. CASE CallRestart \/ CallAbort \/ CallGetLastWrite
    BY <2>2, <2>3, <2>6 DEF CallRestart, CallAbort, CallGetLastWrite
  <2> QED
    BY <1>24, <2>4, <2>5, <2>6 DEF Request
<1>25. CASE FvbError
  BY <1>25, ControlReturn DEF FvbError
<1>26. CASE PowerLoss \/ PowerOn
  <2>1. pc' \in {"Off", "Init"} /\ arg' = NoArg /\ ret' = NoRet
    BY <1>0, <1>26 DEF PowerLoss, PowerOn, CallOK
  <2> QED
    BY <2>1 DEF ControlOK, NoArg, NoRet
<1> QED
  BY <1>3, <1>4, <1>5, <1>6, <1>7, <1>8, <1>9, <1>10, <1>11, <1>12, <1>13, <1>14, <1>15, <1>16,
     <1>17, <1>18, <1>19, <1>20, <1>21, <1>22, <1>23, <1>24, <1>25, <1>26
  DEF Next, DriverStep

----------------------------------------------------------------------------
(* The steps of the driver, procedure by procedure. *)

\* What every step may assume.
LEMMA SoundFacts ==
  ASSUME Sound
  PROVE  /\ FlashType /\ LogsOK /\ FlashOK /\ Unwritten /\ ret \in Returns /\ arg \in Arguments
         /\ keep \in BOOLEAN /\ QueueOK(save.q)
BY DEF Sound, TypeOK, ControlType, LogsOK

\* FtwReclaimWorkSpace, until the copy in the spare block is valid.
LEMMA ReclaimCopies ==
  ASSUME Sound, ReclaimErase \/ ReclaimProgram \/ ReclaimValid
  PROVE  Kept
<1>0. FlashType /\ LogsOK /\ FlashOK /\ Unwritten /\ keep \in BOOLEAN /\ QueueOK(save.q)
  BY SoundFacts
<1>1. /\ pc \in {"Reclaim", "Reclaim.program", "Reclaim.valid"}
      /\ pc' \in {"Reclaim.program", "Reclaim.valid", "Reclaim.invalid"}
      /\ swap' = swap
  BY DEF ReclaimErase, ReclaimProgram, ReclaimValid, Step
<1>2. ReclaimPhase
  BY DEF Sound, Phases
<1>3. ~swap /\ NothingPending
  BY <1>1, <1>2 DEF ReclaimPhase
<1>4. SpareArea = "spare" /\ Spare = flash["spare"]
  BY <1>3, SpareIsSpare
<1>5. /\ Work = flash["work"] /\ LastWrite = flash["work"].q
      /\ flash["work"].q \in Queue /\ QueueOK(flash["work"].q)
      /\ flash["spare"] \in Image /\ QueueOK(flash["spare"].q)
  BY <1>0, LogReads
<1>6. ASSUME OnlyIn({"spare"}) PROVE flash'["work"] = flash["work"]
  BY <1>6, Blocks DEF OnlyIn
<1>7. ASSUME OnlyIn({"spare"}), ReclaimPhase', QueueOK(flash'["spare"].q), QueueOK(save'.q),
             FlashOK' /\ Same
      PROVE  Kept
  <2>1. LogsOK'
    BY <1>0, <1>7, Blocks, LogsUpdate
  <2>2. Phases'
    BY <1>1, <1>7, OnePhase DEF ReclaimLabels
  <2>3. ~Unfinished
    BY <1>0, <1>1, Finished DEF UnfinishedLabels
  <2>4. Unwritten'
    BY <1>6, <1>7, <2>3, WorkSame, UnwrittenThere
  <2> QED
    BY <1>7, <2>1, <2>2, <2>4 DEF Kept
<1>8. CASE ReclaimErase
  <2>1. BeginRewrite("spare", DU, "signed") /\ save' = flash["spare"] /\ pc = "Reclaim"
        /\ pc' = "Reclaim.program" /\ keep' = keep
    BY <1>4, <1>8 DEF ReclaimErase
  <2>2. /\ \A b \in Areas \ {"spare"} : flash'[b] = flash[b]
        /\ flash'["spare"].hdr \in {flash["spare"].hdr, "none", "signed"}
        /\ flash'["spare"].q \in {flash["spare"].q, EmptyQueue}
    BY <1>0, <2>1, RewriteFrame, Blocks, DUAssumption
  <2>3. OnlyIn({"spare"}) /\ QueueOK(flash'["spare"].q) /\ QueueOK(save'.q)
    BY <1>1, <1>5, <2>1, <2>2, EmptyQueueOK DEF OnlyIn
  <2>4. ~InCopy /\ (keep => InPlace /\ Rec = NoRec)
    BY <1>2, <2>1 DEF ReclaimPhase
  <2>5. FlashOK' /\ Same
    <3>1. CASE InPlace
      BY <1>0, <1>3, <2>3, <3>1, FrameSpare DEF WorkIdle
    <3>2. CASE ~InPlace
      <4>1. flash'["spare"].hdr # "valid"
        BY <2>2, <2>4, <3>2 DEF InCopy, InPlace
      <4> QED
        BY <1>0, <1>3, <2>3, <2>4, <3>2, <4>1, FrameBlank
    <3> QED
      BY <3>1, <3>2
  <2>6. ~InCopy'
    BY <1>6, <2>2, <2>3, <2>4 DEF InCopy
  <2>7. ReclaimPhase'
    BY <1>1, <1>3, <1>6, <2>1, <2>3, <2>4, <2>6, WorkSame DEF ReclaimPhase
  <2> QED
    BY <1>7, <2>3, <2>5, <2>7
<1>9. CASE ReclaimProgram
  <2> DEFINE q == ReclaimedQueue(flash["work"].q, keep)
             img == [data |-> flash["work"].data, hdr |-> "signed", q |-> q]
  <2>1. Update("spare", img) /\ pc = "Reclaim.program" /\ pc' = "Reclaim.valid" /\ save' = save
    BY <1>4, <1>5, <1>9 DEF ReclaimProgram, Step, locals
  <2>2. img.data = flash["work"].data /\ img.hdr = "signed" /\ img.q = q
    OBVIOUS
  <2>3. ~InCopy /\ (keep => InPlace /\ Rec = NoRec)
    BY <1>2, <2>1 DEF ReclaimPhase
  <2>4. QueueOK(q)
    BY <1>0, <1>5, ReclaimedQueueOK
  <2>5. q.rec = NoRec
    <3>1. CASE keep
      BY <1>0, <1>5, <2>3, <3>1, ReclaimedQueueOK DEF Rec
    <3>2. CASE ~keep
      BY <3>2, EmptyQueueOK DEF ReclaimedQueue
    <3> QED
      BY <3>1, <3>2
  <2> HIDE DEF q, img
  <2>6. flash'["spare"] = img /\ \A b \in Areas \ {"spare"} : flash'[b] = flash[b]
    BY <1>0, <2>1, UpdateFrame, Blocks
  <2>7. OnlyIn({"spare"}) /\ QueueOK(flash'["spare"].q) /\ QueueOK(save'.q)
    BY <1>0, <1>1, <2>1, <2>2, <2>4, <2>6 DEF OnlyIn
  <2>8. FlashOK' /\ Same
    <3>1. CASE InPlace
      BY <1>0, <1>3, <2>7, <3>1, FrameSpare DEF WorkIdle
    <3>2. CASE ~InPlace
      BY <1>0, <1>3, <2>2, <2>3, <2>6, <2>7, <3>2, FrameBlank
    <3> QED
      BY <3>1, <3>2
  <2>9. ReclaimPhase'
    BY <1>1, <1>3, <1>6, <2>1, <2>2, <2>5, <2>6, <2>7, WorkSame DEF ReclaimPhase
  <2> QED
    BY <1>7, <2>7, <2>8, <2>9
<1>10. CASE ReclaimValid
  <2>1. /\ Update("spare", [flash["spare"] EXCEPT !.hdr = SetValid(@)])
        /\ pc = "Reclaim.valid" /\ pc' = "Reclaim.invalid" /\ save' = save
    BY <1>4, <1>10 DEF ReclaimValid, Step, locals
  <2>2. /\ flash["spare"].data = flash["work"].data /\ flash["spare"].q.rec = NoRec
        /\ flash["spare"].hdr = "signed"
    BY <1>2, <2>1 DEF ReclaimPhase
  <2>3. /\ flash'["spare"] = [flash["spare"] EXCEPT !.hdr = SetValid(@)]
        /\ \A b \in Areas \ {"spare"} : flash'[b] = flash[b]
    BY <1>0, <2>1, UpdateFrame, Blocks
  <2>4. /\ flash'["spare"].hdr = "valid" /\ flash'["spare"].data = flash["spare"].data
        /\ flash'["spare"].q = flash["spare"].q
    BY <1>5, <2>2, <2>3 DEF Image, SetValid
  <2>5. OnlyIn({"spare"}) /\ QueueOK(flash'["spare"].q) /\ QueueOK(save'.q)
    BY <1>0, <1>1, <1>5, <2>1, <2>3, <2>4 DEF OnlyIn
  <2>6. FlashOK' /\ Same
    <3>1. CASE InPlace
      BY <1>0, <1>3, <2>5, <3>1, FrameSpare DEF WorkIdle
    <3>2. CASE ~InPlace
      <4>1. ~InCopy
        BY <2>2 DEF InCopy
      <4> QED
        BY <1>0, <1>3, <2>2, <2>4, <2>5, <3>2, <4>1, FrameFirst
    <3> QED
      BY <3>1, <3>2
  <2>7. ReclaimPhase'
    BY <1>1, <1>3, <1>6, <2>1, <2>2, <2>4, <2>5, WorkSame DEF ReclaimPhase
  <2> QED
    BY <1>7, <2>5, <2>6, <2>7
<1> QED
  BY <1>8, <1>9, <1>10

\* Marking a workspace invalid.
LEMMA InvalidIsNotValid == ASSUME NEW h PROVE SetInvalid(h) # "valid"
BY DEF SetInvalid

\* FtwReclaimWorkSpace marks the old workspace invalid.
LEMMA ReclaimSwitches ==
  ASSUME Sound, ReclaimInvalid
  PROVE  Kept
<1>0. FlashType /\ LogsOK /\ FlashOK /\ Unwritten /\ QueueOK(save.q) /\ ret \in Returns
  BY SoundFacts
<1>1. /\ pc = "Reclaim.invalid" /\ pc' = "Flush" /\ swap' = swap /\ save' = save /\ arg' = arg
      /\ ret' = [ret EXCEPT !.flush = "Reclaim.restore"]
      /\ Update("work", [flash["work"] EXCEPT !.hdr = SetInvalid(@)])
  BY DEF ReclaimInvalid, Work
<1>2. /\ ~swap /\ NothingPending
      /\ flash["spare"].data = flash["work"].data /\ flash["spare"].q.rec = NoRec
      /\ flash["spare"].hdr = "valid"
  BY <1>1 DEF Sound, Phases, ReclaimPhase
<1>3. flash["work"] \in Image /\ QueueOK(flash["work"].q)
  BY <1>0, LogReads
<1>4. /\ flash'["work"] = [flash["work"] EXCEPT !.hdr = SetInvalid(@)]
      /\ \A b \in Areas \ {"work"} : flash'[b] = flash[b]
  BY <1>0, <1>1, UpdateFrame, Blocks
<1>5. flash'["work"].hdr # "valid" /\ flash'["work"].q = flash["work"].q
  BY <1>3, <1>4, InvalidIsNotValid DEF Image
<1>6. OnlyIn({"work"}) /\ flash'["spare"] = flash["spare"]
  BY <1>1, <1>4, Blocks DEF OnlyIn
<1>7. Standing
  <2>1. Full(flash["spare"].data)
    BY <1>0, <1>2 DEF FlashOK, WorkOK
  <2>2. Seen("work") = flash["spare"].data
    BY <1>2 DEF Seen
  <2> QED
    BY <1>2, <2>1, <2>2 DEF Standing, CopiedRecord
<1>8. FlashOK' /\ Same /\ InCopy'
  BY <1>0, <1>5, <1>6, <1>7, FrameStanding
<1>9. LogsOK'
  BY <1>0, <1>1, <1>3, <1>5, <1>6, Blocks, LogsUpdate
<1>10. Phases'
  <2>1. ret'.flush = "Reclaim.restore"
    BY <1>0, <1>1 DEF Returns
  <2>2. FlushPhase'
    BY <1>1, <1>2, <1>6, <1>8, <2>1 DEF FlushPhase, CopiedRecord
  <2> QED
    BY <1>1, <2>2, OnePhase DEF FlushLabels
<1>11. ~Unfinished'
  BY <1>5 DEF Unfinished, InPlace
<1> QED
  BY <1>8, <1>9, <1>10, <1>11, UnwrittenThere DEF Kept

\* Writing the spare block while nothing depends on it.
LEMMA SpareUpdated ==
  ASSUME FlashType, ~swap, swap' = swap, NEW img, Update(SpareArea, img)
  PROVE  OnlyIn({"spare"}) /\ flash'["spare"] = img /\ flash'["work"] = flash["work"]
         /\ \A t \in Targets : flash'[t] = flash[t]
<1>1. Update("spare", img)
  BY SpareIsSpare
<1>2. flash'["spare"] = img /\ \A b \in Areas \ {"spare"} : flash'[b] = flash[b]
  BY <1>1, UpdateFrame, Blocks
<1> QED
  BY <1>2, Blocks DEF OnlyIn

LEMMA SpareRewritten ==
  ASSUME FlashType, LogsOK, ~swap, swap' = swap, NEW h, BeginRewrite(SpareArea, DU, h)
  PROVE  /\ OnlyIn({"spare"}) /\ QueueOK(flash'["spare"].q) /\ flash'["work"] = flash["work"]
         /\ \A t \in Targets : flash'[t] = flash[t]
<1>1. BeginRewrite("spare", DU, h)
  BY SpareIsSpare
<1>2. /\ \A b \in Areas \ {"spare"} : flash'[b] = flash[b]
      /\ flash'["spare"].q \in {flash["spare"].q, EmptyQueue}
  BY <1>1, RewriteFrame, Blocks, DUAssumption
<1>3. QueueOK(flash["spare"].q)
  BY LogReads
<1> QED
  BY <1>2, <1>3, Blocks, EmptyQueueOK DEF OnlyIn

LEMMA SpareWritten ==
  ASSUME Sound, WorkIdle, OnlyIn({"spare"}), QueueOK(flash'["spare"].q), QueueOK(save'.q),
         Phases', ~Unfinished \/ pc' \in UnfinishedLabels
  PROVE  Kept
<1>0. LogsOK /\ FlashOK
  BY SoundFacts
<1>1. FlashOK' /\ Same
  BY <1>0, FrameSpare
<1>2. LogsOK'
  BY <1>0, Blocks, LogsUpdate
<1>3. flash'["work"] = flash["work"]
  BY Blocks DEF OnlyIn
<1>4. Unwritten'
  BY <1>3, WorkSame, UnwrittenThere
<1> QED
  BY <1>1, <1>2, <1>4 DEF Kept

LEMMA IdleSame ==
  ASSUME WorkIdle, swap' = swap, flash'["work"] = flash["work"]
  PROVE  WorkIdle'
BY WorkSame DEF WorkIdle

\* FtwReclaimWorkSpace gives the spare block its contents back.
LEMMA ReclaimReturns ==
  ASSUME Sound, ReclaimRestore \/ ReclaimRestored
  PROVE  Kept
<1>0. FlashType /\ LogsOK /\ FlashOK /\ Unwritten /\ QueueOK(save.q) /\ ret \in Returns
  BY SoundFacts
<1>1. /\ pc \in {"Reclaim.restore", "Reclaim.restored"} /\ swap' = swap
  BY DEF ReclaimRestore, ReclaimRestored, Step
<1>2. WorkIdle /\ ~swap
  BY <1>1 DEF Sound, Phases, ReclaimPhase, WorkIdle
<1>3. ~Unfinished
  BY <1>0, <1>1, Finished DEF UnfinishedLabels
<1>4. CASE ReclaimRestore
  <2>1. BeginRewrite(SpareArea, DU, save.hdr) /\ pc' = "Reclaim.restored" /\ save' = save
    BY <1>4 DEF ReclaimRestore, Step, locals
  <2>2. OnlyIn({"spare"}) /\ QueueOK(flash'["spare"].q) /\ flash'["work"] = flash["work"]
    BY <1>0, <1>1, <1>2, <2>1, SpareRewritten
  <2>3. WorkIdle'
    BY <1>1, <1>2, <2>2, IdleSame
  <2>4. ReclaimPhase'
    BY <2>1, <2>3 DEF ReclaimPhase
  <2>5. Phases'
    BY <2>1, <2>4, OnePhase DEF ReclaimLabels
  <2> QED
    BY <1>0, <1>2, <1>3, <2>1, <2>2, <2>5, SpareWritten
<1>5. CASE ReclaimRestored
  <2>1. Update(SpareArea, save) /\ Continue(ret.reclaim)
    BY <1>5 DEF ReclaimRestored
  <2>2. OnlyIn({"spare"}) /\ flash'["spare"] = save /\ flash'["work"] = flash["work"]
    BY <1>0, <1>1, <1>2, <2>1, SpareUpdated
  <2>3. WorkIdle'
    BY <1>1, <1>2, <2>2, IdleSame
  <2>4. Phases' /\ QueueOK(save'.q)
    <3>1. CASE ret.reclaim = "Idle"
      BY <2>1, <3>1, Answered DEF Continue
    <3>2. CASE ret.reclaim # "Idle"
      <4>1. pc' = ret.reclaim /\ save' = save
        BY <2>1, <3>2 DEF Continue, locals
      <4>2. ret.reclaim # "Allocate.header"
        BY DEF Sound, ControlOK
      <4>3. CASE ret.reclaim \in QuietLabels
        BY <1>0, <4>1, <4>3, OnePhase
      <4>4. CASE ret.reclaim \in {"Restart", "Init.first", "Init.restart"}
        <5>1. StartedPhase'
          BY <2>3 DEF StartedPhase, WorkIdle
        <5> QED
          BY <1>0, <4>1, <4>4, <5>1, OnePhase DEF StartedLabels
      <4>5. CASE ret.reclaim = "Abort"
        <5>1. AbortPhase'
          BY <2>3 DEF AbortPhase, WorkIdle
        <5> QED
          BY <1>0, <4>1, <4>5, <5>1, OnePhase
      <4> QED
        BY <1>0, <3>2, <4>2, <4>3, <4>4, <4>5 DEF Returns, QuietLabels
    <3> QED
      BY <3>1, <3>2
  <2> QED
    BY <1>0, <1>2, <1>3, <2>2, <2>4, SpareWritten
<1> QED
  BY <1>4, <1>5

\* While the working block is flushed, the spare block stands for it.
LEMMA FlushStanding ==
  ASSUME Sound, pc \in FlushLabels
  PROVE  Standing
<1>0. FlashOK
  BY SoundFacts
<1>1. /\ ~swap /\ flash["spare"].hdr = "valid" /\ CopiedRecord
      /\ InCopy \/ PendingFor("work")
  BY DEF Sound, Phases, FlushPhase
<1>2. Full(flash["spare"].data)
  BY <1>0, <1>1 DEF FlashOK, WorkOK
<1>3. NothingPending \/ PendingFor("work")
  BY <1>1 DEF InCopy, NothingPending, InPlace
<1>4. Seen("work") = flash["spare"].data
  BY <1>1 DEF Seen
<1> QED
  BY <1>1, <1>2, <1>3, <1>4 DEF Standing

\* The copy in the spare block is marked valid already.
LEMMA FlushFirst ==
  ASSUME Sound, FlushValid
  PROVE  Kept
<1>0. FlashType /\ LogsOK /\ FlashOK /\ Unwritten
  BY SoundFacts
<1>1. pc = "Flush" /\ pc' = "Flush.invalid" /\ swap' = swap /\ UNCHANGED locals
  BY DEF FlushValid, Step
<1>2. FlushPhase
  BY DEF Sound, Phases
<1>3. ~swap /\ flash["spare"].hdr = "valid"
  BY <1>1, <1>2 DEF FlushPhase, FlushLabels
<1>4. flash' = flash
  <2>1. CASE Update(SpareArea, [Spare EXCEPT !.hdr = SetValid(@)])
    <3>1. Update("spare", [flash["spare"] EXCEPT !.hdr = SetValid(@)])
      BY <1>3, <2>1, SpareIsSpare
    <3>2. flash["spare"] \in Image
      BY <1>0, LogReads
    <3>3. [flash["spare"] EXCEPT !.hdr = SetValid(@)] = flash["spare"]
      BY <1>3, <3>2 DEF Image, SetValid
    <3>4. flash' = [flash EXCEPT !["spare"] = flash["spare"]]
      BY <3>1, <3>3 DEF Update
    <3> QED
      BY <1>0, <3>4, Blocks DEF FlashType
  <2> QED
    BY <2>1 DEF FlushValid
<1>5. FlushPhase'
  BY <1>1, <1>2, <1>4 DEF FlushPhase, FlushLabels, InCopy, PendingFor, InPlace, Rec,
     CopiedRecord, SpareHasData, DataIn, locals
<1>6. Phases'
  BY <1>1, <1>5, OnePhase DEF FlushLabels
<1>7. ~Unfinished'
  BY <1>0, <1>1, <1>4, Finished, WorkSame DEF UnfinishedLabels
<1> QED
  BY <1>0, <1>1, <1>4, <1>6, <1>7, NothingWritten, UnwrittenThere DEF locals

\* The working block is being rewritten from the spare block.
LEMMA FlushRewrites ==
  ASSUME Sound, FlushInvalid \/ FlushErase \/ FlushProgram
  PROVE  Kept
<1>0. FlashType /\ LogsOK /\ FlashOK /\ QueueOK(save.q)
  BY SoundFacts
<1>1. /\ pc \in {"Flush.invalid", "Flush.erase", "Flush.program"} /\ pc \in FlushLabels
      /\ pc' \in {"Flush.erase", "Flush.program", "Flush.done"} /\ pc' \in FlushLabels
      /\ swap' = swap /\ ret' = ret /\ arg' = arg /\ save' = save
  BY DEF FlushInvalid, FlushErase, FlushProgram, Step, FlushLabels, locals
<1>2. Standing
  BY <1>1, FlushStanding
<1>3. FlushPhase
  BY DEF Sound, Phases
<1>4. /\ flash["work"] \in Image /\ QueueOK(flash["work"].q)
      /\ flash["spare"] \in Image /\ QueueOK(flash["spare"].q)
  BY <1>0, LogReads
<1>5. ~swap /\ Spare = flash["spare"]
  BY <1>2, SpareIsSpare DEF Standing
<1>6. /\ \A b \in Areas \ {"work"} : flash'[b] = flash[b]
      /\ flash'["work"].hdr # "valid" /\ QueueOK(flash'["work"].q)
      /\ pc' = "Flush.done" => /\ flash'["work"].hdr = "signed"
                               /\ flash'["work"].q = flash["spare"].q
                               /\ flash'["work"].data = flash["spare"].data
  <2>1. CASE FlushInvalid
    <3>1. Update("work", [flash["work"] EXCEPT !.hdr = SetInvalid(@)]) /\ pc' # "Flush.done"
      BY <2>1 DEF FlushInvalid, Work, Step
    <3>2. /\ flash'["work"] = [flash["work"] EXCEPT !.hdr = SetInvalid(@)]
          /\ \A b \in Areas \ {"work"} : flash'[b] = flash[b]
      BY <1>0, <3>1, UpdateFrame, Blocks
    <3>3. flash'["work"].hdr # "valid" /\ flash'["work"].q = flash["work"].q
      BY <1>4, <3>2, InvalidIsNotValid DEF Image
    <3> QED
      BY <1>4, <3>1, <3>2, <3>3
  <2>2. CASE FlushErase
    <3>1. BeginRewrite("work", DU, "signed") /\ pc' # "Flush.done" /\ pc = "Flush.erase"
      BY <2>2 DEF FlushErase, Step
    <3>2. /\ \A b \in Areas \ {"work"} : flash'[b] = flash[b]
          /\ flash'["work"].hdr \in {flash["work"].hdr, "none", "signed"}
          /\ flash'["work"].q \in {flash["work"].q, EmptyQueue}
      BY <1>0, <3>1, RewriteFrame, Blocks, DUAssumption
    <3>3. flash["work"].hdr # "valid"
      BY <1>1, <1>3, <3>1 DEF FlushPhase, InCopy
    <3> QED
      BY <1>4, <3>1, <3>2, <3>3, EmptyQueueOK
  <2>3. CASE FlushProgram
    <3>1. Update("work", [flash["spare"] EXCEPT !.hdr = "signed"])
      BY <1>5, <2>3 DEF FlushProgram
    <3>2. /\ flash'["work"] = [flash["spare"] EXCEPT !.hdr = "signed"]
          /\ \A b \in Areas \ {"work"} : flash'[b] = flash[b]
      BY <1>0, <3>1, UpdateFrame, Blocks
    <3>3. /\ flash'["work"].hdr = "signed" /\ flash'["work"].q = flash["spare"].q
          /\ flash'["work"].data = flash["spare"].data
      BY <1>4, <3>2 DEF Image
    <3> QED
      BY <1>4, <3>2, <3>3
  <2> QED
    BY <2>1, <2>2, <2>3
<1>7. OnlyIn({"work"}) /\ flash'["spare"] = flash["spare"]
  BY <1>1, <1>6, Blocks DEF OnlyIn
<1>8. FlashOK' /\ Same /\ InCopy'
  BY <1>0, <1>2, <1>6, <1>7, FrameStanding
<1>9. LogsOK'
  BY <1>0, <1>1, <1>6, <1>7, Blocks, LogsUpdate
<1>10. FlushPhase'
  BY <1>1, <1>3, <1>5, <1>6, <1>7, <1>8 DEF FlushPhase, CopiedRecord, SpareHasData, DataIn
<1>11. Phases'
  BY <1>1, <1>10, OnePhase
<1>12. ~Unfinished'
  BY <1>6 DEF Unfinished, InPlace
<1> QED
  BY <1>8, <1>9, <1>11, <1>12, UnwrittenThere DEF Kept

\* The working block is valid again.
LEMMA FlushEnds ==
  ASSUME Sound, FlushDone
  PROVE  Kept
<1>0. FlashType /\ LogsOK /\ FlashOK /\ QueueOK(save.q) /\ ret \in Returns
  BY SoundFacts
<1>1. /\ pc = "Flush.done" /\ Continue(ret.flush) /\ swap' = swap
      /\ Update("work", [flash["work"] EXCEPT !.hdr = SetValid(@)])
  BY DEF FlushDone, Work
<1>2. /\ ~swap /\ InCopy /\ CopiedRecord
      /\ flash["work"].hdr = "signed"
      /\ flash["work"].q = flash["spare"].q
      /\ flash["work"].data = flash["spare"].data
      /\ ret.flush = "Reclaim.restore" => flash["spare"].q.rec = NoRec
      /\ ret.flush = "Record.dest" =>
           /\ flash["spare"].q.rec = [st |-> "spare", t |-> "work", hi |-> DU]
           /\ arg.t = "work" /\ SpareHasData
  BY <1>1 DEF Sound, Phases, FlushPhase, FlushLabels
<1>3. flash["work"] \in Image /\ QueueOK(flash["work"].q)
  BY <1>0, LogReads
<1>4. /\ flash'["work"] = [flash["work"] EXCEPT !.hdr = SetValid(@)]
      /\ \A b \in Areas \ {"work"} : flash'[b] = flash[b]
  BY <1>0, <1>1, UpdateFrame, Blocks
<1>5. /\ flash'["work"].hdr = "valid" /\ flash'["work"].q = flash["spare"].q
      /\ flash'["work"].data = flash["spare"].data
  BY <1>2, <1>3, <1>4 DEF Image, SetValid
<1>6. OnlyIn({"work"}) /\ flash'["spare"] = flash["spare"]
  BY <1>1, <1>4, Blocks DEF OnlyIn
<1>7. FlashOK' /\ Same
  BY <1>0, <1>2, <1>5, <1>6, FrameBack
<1>8. InPlace' /\ ~swap' /\ Rec' = flash["spare"].q.rec
  BY <1>1, <1>2, <1>5 DEF InPlace, Rec
<1>9. NothingPending' \/ Settled("work")'
  <2>1. CASE flash["spare"].q.rec = NoRec
    BY <1>8, <2>1, EmptyQueueOK DEF NothingPending
  <2>2. CASE flash["spare"].q.rec.st = "spare" /\ flash["spare"].q.rec.t = "work"
    BY <1>5, <1>6, <1>8, <2>2 DEF Settled, PendingFor
  <2> QED
    BY <1>2, <2>1, <2>2 DEF CopiedRecord
<1>10. ~Unfinished'
  BY <1>2, <1>8, EmptyQueueOK DEF CopiedRecord, Unfinished
<1>11. Phases' /\ QueueOK(save'.q)
  <2>1. CASE ret.flush = "Idle"
    BY <1>1, <2>1, Answered DEF Continue
  <2>2. CASE ret.flush # "Idle"
    <3>1. pc' = ret.flush /\ save' = save /\ ret' = ret /\ arg' = arg
      BY <1>1, <2>2 DEF Continue, locals
    <3>2. CASE ret.flush = "Abort"
      <4>1. AbortPhase'
        BY <1>8, <1>9 DEF AbortPhase
      <4> QED
        BY <1>0, <3>1, <3>2, <4>1, OnePhase
    <3>3. CASE ret.flush = "Reclaim.restore"
      <4>1. WorkIdle'
        BY <1>2, <1>8, <3>3, EmptyQueueOK DEF WorkIdle, NothingPending
      <4>2. ReclaimPhase'
        BY <3>1, <3>3, <4>1 DEF ReclaimPhase
      <4> QED
        BY <1>0, <3>1, <3>3, <4>2, OnePhase DEF ReclaimLabels
    <3>4. CASE ret.flush = "Record.dest"
      <4>1. Settled("work")' /\ Rec'.hi = DU
        BY <1>2, <1>8, <1>9, <3>4 DEF NothingPending
      <4>2. arg'.t = "work" /\ SpareHasData'
        BY <1>2, <1>6, <3>1, <3>4 DEF SpareHasData, DataIn
      <4>3. Settled(arg.t)' /\ PendingFor(arg.t)' /\ Rec'.hi = WriteBlocks(arg'.t, arg'.hi)
        BY <4>1, <4>2 DEF Settled, WriteBlocks
      <4>4. RecordPhase'
        BY <3>1, <3>4, <4>2, <4>3 DEF RecordPhase
      <4> QED
        BY <1>0, <3>1, <3>4, <4>4, OnePhase DEF RecordLabels
    <3> QED
      BY <1>0, <2>2, <3>2, <3>3, <3>4 DEF Returns
  <2> QED
    BY <2>1, <2>2
<1>12. LogsOK'
  BY <1>0, <1>2, <1>3, <1>5, <1>6, <1>11, Blocks, LogsUpdate
<1> QED
  BY <1>7, <1>10, <1>11, <1>12, UnwrittenThere DEF Kept

\* FlushSpareBlockToBootBlock, up to where the boot block is complete.
LEMMA BootRewrites ==
  ASSUME Sound, BootSwap \/ BootErase \/ BootProgram
  PROVE  Kept
<1>0. FlashType /\ LogsOK /\ FlashOK /\ Unwritten /\ QueueOK(save.q)
  BY SoundFacts
<1>1. /\ pc \in {"Boot", "Boot.erase", "Boot.program"} /\ pc \in BootLabels
      /\ pc' \in {"Boot.erase", "Boot.program", "Boot.unswap"} /\ pc' \in BootLabels
      /\ ret' = ret /\ arg' = arg /\ save' = save
  BY DEF BootSwap, BootErase, BootProgram, Step, BootLabels, locals
<1>2. BootPhase
  BY DEF Sound, Phases
<1>3. PendingFor("boot")
  BY <1>1, <1>2 DEF BootPhase
<1>4. "boot" \in Targets
  BY <1>0, <1>3, LogReads DEF QueueOK, RecordOK, PendingFor, Rec
<1>5. ~Unfinished
  BY <1>0, <1>1, Finished DEF UnfinishedLabels
<1>6. ASSUME flash'["work"] = flash["work"], flash'["spare"] = flash["spare"], swap',
             pc' = "Boot.unswap" => flash'["boot"].data = flash["spare"].data
      PROVE  Phases' /\ Unwritten'
  <2>1. BootPhase'
    BY <1>1, <1>2, <1>3, <1>6, WorkSame DEF BootPhase, SpareHasData, DataIn
  <2> QED
    BY <1>1, <1>5, <1>6, <2>1, OnePhase, WorkSame, UnwrittenThere
<1>7. CASE BootSwap
  <2>1. flash' = flash /\ swap' = TRUE /\ pc' = "Boot.erase"
    BY <1>7 DEF BootSwap, Step
  <2>2. FlashOK' /\ (Same \/ OneWrite)
    BY <1>0, <1>3, <1>4, <2>1, FrameSwap
  <2>3. LogsOK'
    BY <1>0, <1>1, <2>1 DEF LogsOK
  <2>4. Phases' /\ Unwritten'
    BY <1>6, <2>1
  <2> QED
    BY <2>2, <2>3, <2>4 DEF Kept
<1>8. CASE BootErase \/ BootProgram
  <2>1. swap /\ swap' = swap
    BY <1>1, <1>2, <1>8 DEF BootPhase, BootErase, BootProgram, Step
  <2>2. SpareArea = "boot" /\ BootArea = "spare"
    BY <2>1 DEF SpareArea, BootArea
  <2>3. QueueOK(flash["boot"].q) /\ QueueOK(flash["spare"].q)
    BY <1>0, Blocks DEF LogsOK
  <2>4. /\ \A b \in Areas \ {"boot"} : flash'[b] = flash[b]
        /\ QueueOK(flash'["boot"].q)
        /\ pc' = "Boot.unswap" => flash'["boot"].data = flash["spare"].data
    <3>1. CASE BootErase
      <4>1. BeginRewrite("boot", DU, "none") /\ pc' = "Boot.program"
        BY <2>2, <3>1 DEF BootErase, Step
      <4>2. /\ \A b \in Areas \ {"boot"} : flash'[b] = flash[b]
            /\ flash'["boot"].q \in {flash["boot"].q, EmptyQueue}
        BY <1>0, <4>1, RewriteFrame, Blocks, DUAssumption
      <4> QED
        BY <2>3, <4>1, <4>2, EmptyQueueOK
    <3>2. CASE BootProgram
      <4>1. Update("boot", flash["spare"])
        BY <2>2, <3>2 DEF BootProgram
      <4>2. flash'["boot"] = flash["spare"] /\ \A b \in Areas \ {"boot"} : flash'[b] = flash[b]
        BY <1>0, <4>1, UpdateFrame, Blocks
      <4> QED
        BY <2>3, <4>2
    <3> QED
      BY <1>8, <3>1, <3>2
  <2>5. /\ OnlyIn({"boot"})
        /\ flash'["spare"] = flash["spare"] /\ flash'["work"] = flash["work"]
    BY <2>1, <2>4, Blocks DEF OnlyIn
  <2>6. FlashOK' /\ Same
    BY <1>0, <2>1, <2>5, FrameBoot
  <2>7. LogsOK'
    BY <1>0, <1>1, <2>4, <2>5, Blocks, LogsUpdate
  <2>8. Phases' /\ Unwritten'
    BY <1>6, <2>1, <2>4, <2>5
  <2> QED
    BY <2>6, <2>7, <2>8 DEF Kept
<1> QED
  BY <1>7, <1>8

\* The last record names a target, and all of a block that is replaced whole.
LEMMA PendingTarget ==
  ASSUME FlashType, LogsOK, NEW t, PendingFor(t)
  PROVE  /\ t \in Targets /\ Rec.hi \in Cells /\ (t \in {"work", "boot"} => Rec.hi = DU)
         /\ flash["work"].q.alloc # "none" /\ flash["work"].q.done # flash["work"].q.n
<1>1. QueueOK(flash["work"].q) /\ Rec.st = "spare" /\ Rec.t = t
  BY LogReads DEF PendingFor
<1>2. Rec # NoRec
  BY <1>1, EmptyQueueOK
<1> QED
  BY <1>1, <1>2 DEF QueueOK, RecordOK, Rec

\* The machine boots from the boot block again.
LEMMA BootEnds ==
  ASSUME Sound, BootUnswap
  PROVE  Kept
<1>0. FlashType /\ LogsOK /\ FlashOK /\ Unwritten /\ QueueOK(save.q) /\ ret \in Returns
  BY SoundFacts
<1>1. pc = "Boot.unswap" /\ swap' = FALSE /\ Continue(ret.boot) /\ flash' = flash
  BY DEF BootUnswap
<1>2. /\ PendingFor("boot") /\ swap /\ flash["boot"].data = flash["spare"].data
      /\ ret.boot = "Record.dest" => arg.t = "boot" /\ arg.hi = DU /\ SpareHasData
  BY <1>1 DEF Sound, Phases, BootPhase, BootLabels
<1>3. "boot" \in Targets /\ Rec.hi = DU
  BY <1>0, <1>2, PendingTarget
<1>4. FlashOK' /\ Same
  BY <1>0, <1>1, <1>2, <1>3, FrameUnswap
<1>5. ~Unfinished'
  BY <1>0, <1>1, Finished, WorkSame DEF UnfinishedLabels
<1>6. Settled("boot")' /\ PendingFor("boot")' /\ InPlace' /\ ~swap' /\ Rec' = Rec
  BY <1>1, <1>2, WorkSame DEF Settled, PendingFor
<1>7. Phases' /\ QueueOK(save'.q)
  <2>1. CASE ret.boot = "Idle"
    BY <1>1, <2>1, Answered DEF Continue
  <2>2. CASE ret.boot # "Idle"
    <3>1. pc' = ret.boot /\ save' = save /\ ret' = ret /\ arg' = arg
      BY <1>1, <2>2 DEF Continue, locals
    <3>2. CASE ret.boot = "Abort"
      <4>1. AbortPhase'
        BY <1>6 DEF AbortPhase
      <4> QED
        BY <1>0, <3>1, <3>2, <4>1, OnePhase
    <3>3. CASE ret.boot = "Record.dest"
      <4>1. arg'.t = "boot" /\ arg'.hi = DU /\ SpareHasData'
        BY <1>1, <1>2, <3>1, <3>3 DEF SpareHasData, DataIn
      <4>2. Settled(arg.t)' /\ PendingFor(arg.t)' /\ Rec'.hi = WriteBlocks(arg'.t, arg'.hi)
        BY <1>3, <1>6, <4>1 DEF Settled, WriteBlocks
      <4>3. RecordPhase'
        BY <3>1, <3>3, <4>1, <4>2 DEF RecordPhase
      <4> QED
        BY <1>0, <3>1, <3>3, <4>3, OnePhase DEF RecordLabels
    <3> QED
      BY <1>0, <2>2, <3>2, <3>3 DEF Returns
  <2> QED
    BY <2>1, <2>2
<1>8. LogsOK'
  BY <1>0, <1>1, <1>7 DEF LogsOK
<1> QED
  BY <1>4, <1>5, <1>7, <1>8, UnwrittenThere DEF Kept

\* FtwWriteRecord begins to bring the target up to the spare block.
LEMMA RecordStarts ==
  ASSUME Sound, RecordFlush
  PROVE  Kept
<1>0. FlashType /\ LogsOK /\ FlashOK /\ Unwritten /\ QueueOK(save.q) /\ ret \in Returns
      /\ arg \in Arguments
  BY SoundFacts
<1>1. pc = "Record" /\ swap' = swap /\ arg' = arg /\ save' = save
  BY DEF RecordFlush
<1>2. PendingFor(arg.t) /\ Rec.hi = WriteBlocks(arg.t, arg.hi) /\ SpareHasData
  BY <1>1 DEF Sound, Phases, RecordPhase
<1>3. /\ arg.t \in Targets /\ Rec.hi \in Cells /\ (arg.t \in {"work", "boot"} => Rec.hi = DU)
  BY <1>0, <1>2, PendingTarget
<1>4. ~Unfinished
  BY <1>0, <1>1, Finished DEF UnfinishedLabels
<1>5. ret'.record = ret.record
  BY <1>0 DEF RecordFlush, Returns
<1>6. CASE arg.t = "work"
  <2>1. /\ pc' = "Flush" /\ Update(SpareArea, [Spare EXCEPT !.q.rec.st = "spare"])
        /\ ret'.flush = "Record.dest"
    BY <1>0, <1>6 DEF RecordFlush, Returns
  <2>2. ~swap
    BY <1>0, <1>2, <1>6, Unswapped
  <2>3. Spare = flash["spare"]
    BY <2>2, SpareIsSpare
  <2>4. /\ OnlyIn({"spare"}) /\ flash'["spare"] = [flash["spare"] EXCEPT !.q.rec.st = "spare"]
        /\ flash'["work"] = flash["work"]
    BY <1>0, <1>1, <2>1, <2>2, <2>3, SpareUpdated
  <2>5. /\ flash["spare"] \in Image /\ flash["spare"].q \in Queue
        /\ flash["work"].q \in Queue /\ QueueOK(flash["work"].q)
        /\ Rec \in Record
    BY <1>0, LogReads
  <2>6. /\ flash'["spare"].hdr = flash["spare"].hdr /\ flash'["spare"].data = flash["spare"].data
        /\ flash'["spare"].q = [flash["spare"].q EXCEPT !.rec.st = "spare"]
    BY <2>4, <2>5 DEF Image
  <2>7. [flash["spare"].q EXCEPT !.rec.st = "spare"] = flash["work"].q
    <3>1. flash["spare"].q \in {flash["work"].q, [flash["work"].q EXCEPT !.rec.st = "written"]}
      BY <1>0, <1>2, <1>6 DEF FlashOK, WorkOK
    <3>2. flash["work"].q.rec \in Record /\ flash["work"].q.rec.st = "spare"
      BY <1>2, <2>5 DEF PendingFor, Rec
    <3>3. ASSUME NEW q \in Queue, q.rec.st = "spare"
          PROVE  /\ [q EXCEPT !.rec.st = "spare"] = q
                 /\ [[q EXCEPT !.rec.st = "written"] EXCEPT !.rec.st = "spare"] = q
      BY <3>3 DEF Queue, Record
    <3> QED
      BY <2>5, <3>1, <3>2, <3>3
  <2>8. FlashOK' /\ Same
    BY <1>0, <1>2, <1>6, <2>2, <2>4, <2>6, <2>7, FrameMarked
  <2>9. LogsOK'
    BY <1>0, <1>1, <2>4, <2>5, <2>6, <2>7, Blocks, LogsUpdate
  <2>10. flash'["spare"].q.rec = [st |-> "spare", t |-> "work", hi |-> DU]
    BY <1>2, <1>3, <1>6, <2>5, <2>6, <2>7 DEF PendingFor, Rec, Record
  <2>11. flash["spare"].hdr = "valid" /\ PendingFor("work")'
    BY <1>0, <1>2, <1>6, <2>4, WorkSame DEF FlashOK, WorkOK
  <2>12. SpareHasData'
    BY <1>1, <1>2, <1>5, <2>6 DEF SpareHasData, DataIn
  <2>13. FlushPhase'
    BY <1>1, <1>6, <2>1, <2>2, <2>6, <2>10, <2>11, <2>12 DEF FlushPhase, CopiedRecord
  <2>14. Phases' /\ Unwritten'
    BY <1>4, <2>1, <2>4, <2>13, OnePhase, WorkSame, UnwrittenThere DEF FlushLabels
  <2> QED
    BY <2>8, <2>9, <2>14 DEF Kept
<1>7. CASE arg.t = "boot"
  <2>1. pc' = "Boot" /\ flash' = flash
    BY <1>7 DEF RecordFlush
  <2>2. arg'.t = "boot" /\ arg'.hi = DU
    BY <1>1, <1>2, <1>3, <1>7 DEF WriteBlocks
  <2>3. SpareHasData' /\ PendingFor("boot")'
    BY <1>1, <1>2, <1>5, <1>7, <2>1, WorkSame DEF SpareHasData, DataIn
  <2>4. BootPhase'
    BY <2>1, <2>2, <2>3 DEF BootPhase
  <2>5. Phases' /\ Unwritten'
    BY <1>4, <2>1, <2>4, OnePhase, WorkSame, UnwrittenThere DEF BootLabels
  <2> QED
    BY <1>0, <1>1, <2>1, <2>5, NothingWritten
<1>8. CASE arg.t \notin {"work", "boot"}
  <2>1. pc' = "Target.program" /\ BeginRewrite(arg.t, arg.hi, "none") /\ ret' = ret
    BY <1>8 DEF RecordFlush
  <2>2. arg.t \in Plain /\ arg.hi = Rec.hi /\ arg.hi \in Int
    BY <1>2, <1>3, <1>8 DEF Plain, WriteBlocks, Cells
  <2>3. /\ \A b \in Areas \ {arg.t} : flash'[b] = flash[b]
        /\ flash'[arg.t].q \in {flash[arg.t].q, EmptyQueue}
        /\ \A u \in Cells : ~(u <= arg.hi) => flash'[arg.t].data[u] = flash[arg.t].data[u]
    BY <1>0, <2>1, <2>2, RewriteFrame, Blocks
  <2>4. /\ OnlyIn({arg.t}) /\ flash'["work"] = flash["work"] /\ flash'["spare"] = flash["spare"]
        /\ arg.t \in Areas /\ QueueOK(flash'[arg.t].q)
    BY <1>0, <1>1, <2>2, <2>3, Blocks, EmptyQueueOK DEF OnlyIn, LogsOK
  <2>5. FlashOK' /\ Same
    BY <1>0, <1>2, <2>2, <2>3, <2>4, FrameTarget
  <2>6. LogsOK'
    BY <1>0, <1>1, <2>4, LogsUpdate
  <2>7. SpareHasData' /\ PendingFor(arg.t)' /\ Rec' = Rec
    BY <1>1, <1>2, <2>1, <2>4, WorkSame DEF SpareHasData, DataIn
  <2>8. RecordPhase'
    BY <1>1, <1>2, <2>1, <2>2, <2>7 DEF RecordPhase
  <2>9. Phases' /\ Unwritten'
    BY <1>4, <2>1, <2>4, <2>8, OnePhase, WorkSame, UnwrittenThere DEF RecordLabels
  <2> QED
    BY <2>5, <2>6, <2>9 DEF Kept
<1> QED
  BY <1>6, <1>7, <1>8

\* FlushSpareBlockToTargetBlock
LEMMA TargetReached ==
  ASSUME Sound, TargetProgram
  PROVE  Kept
<1>0. FlashType /\ LogsOK /\ FlashOK /\ Unwritten /\ QueueOK(save.q)
  BY SoundFacts
<1>1. /\ pc = "Target.program" /\ pc' = "Record.dest" /\ swap' = swap
      /\ arg' = arg /\ ret' = ret /\ save' = save
      /\ flash' = [flash EXCEPT ![arg.t].data =
                     [u \in Cells |-> IF u <= arg.hi THEN Spare.data[u] ELSE @[u]]]
  BY DEF TargetProgram, Step, locals
<1>2. /\ PendingFor(arg.t) /\ Rec.hi = WriteBlocks(arg.t, arg.hi) /\ SpareHasData
      /\ arg.t \in Plain
  BY <1>1 DEF Sound, Phases, RecordPhase
<1>3. arg.hi = Rec.hi /\ Rec.hi \in Cells
  BY <1>0, <1>2, PendingTarget DEF WriteBlocks, Plain
<1>4. ~swap
  BY <1>0, <1>2, Unswapped DEF Plain
<1>5. Spare = flash["spare"]
  BY <1>4, SpareIsSpare
<1>6. arg.t \in Areas /\ arg.t # "spare" /\ arg.t # "work"
  BY <1>2, Blocks
<1>7. flash[arg.t] \in Image
  BY <1>0, <1>6 DEF FlashType
<1>8. /\ \A b \in Areas \ {arg.t} : flash'[b] = flash[b]
      /\ flash'[arg.t] = [flash[arg.t] EXCEPT !.data =
           [u \in Cells |-> IF u <= arg.hi THEN Spare.data[u] ELSE flash[arg.t].data[u]]]
  BY <1>0, <1>1, <1>6 DEF FlashType
<1>9. /\ flash'[arg.t].q = flash[arg.t].q
      /\ flash'[arg.t].data = [u \in Cells |-> IF u <= arg.hi THEN Spare.data[u]
                                                              ELSE flash[arg.t].data[u]]
  BY <1>7, <1>8 DEF Image
<1>10. /\ OnlyIn({arg.t}) /\ flash'["work"] = flash["work"] /\ flash'["spare"] = flash["spare"]
       /\ QueueOK(flash'[arg.t].q)
  BY <1>0, <1>1, <1>6, <1>8, <1>9, Blocks DEF OnlyIn, LogsOK
<1>11. \A u \in Cells : ~(u <= Rec.hi) => flash'[arg.t].data[u] = flash[arg.t].data[u]
  BY <1>3, <1>9
<1>12. FlashOK' /\ Same
  BY <1>0, <1>2, <1>10, <1>11, FrameTarget
<1>13. LogsOK'
  BY <1>0, <1>1, <1>6, <1>10, LogsUpdate
<1>14. SpareHasData' /\ PendingFor(arg.t)' /\ Rec' = Rec
  BY <1>1, <1>2, <1>10, WorkSame DEF SpareHasData, DataIn
<1>15. Settled(arg.t)'
  <2>1. \A u \in 1 .. Rec.hi : u \in Cells /\ u <= arg.hi
    BY <1>3, DUAssumption DEF Cells
  <2>2. \A u \in 1 .. Rec.hi : flash'[arg.t].data[u] = flash'["spare"].data[u]
    BY <1>5, <1>9, <1>10, <2>1
  <2> QED
    BY <1>1, <1>4, <1>14, <2>2 DEF Settled
<1>16. RecordPhase'
  BY <1>1, <1>2, <1>14, <1>15 DEF RecordPhase
<1>17. ~Unfinished
  BY <1>0, <1>1, Finished DEF UnfinishedLabels
<1>18. Phases' /\ Unwritten'
  BY <1>1, <1>10, <1>16, <1>17, OnePhase, WorkSame, UnwrittenThere DEF RecordLabels
<1> QED
  BY <1>12, <1>13, <1>18 DEF Kept

\* Setting a bit in the log, or writing a header or a record.
LEMMA LogWritten ==
  ASSUME FlashType, swap' = swap, NEW q, Update("work", [Work EXCEPT !.q = q])
  PROVE  /\ OnlyIn({"work"}) /\ flash'["spare"] = flash["spare"]
         /\ flash'["work"].hdr = flash["work"].hdr /\ flash'["work"].data = flash["work"].data
         /\ flash'["work"].q = q /\ Rec' = q.rec /\ InPlace' = InPlace
         /\ \A t \in Targets : flash'[t].data = flash[t].data
<1>1. Work = flash["work"] /\ flash["work"] \in Image
  BY Blocks DEF Work, FlashType
<1>2. /\ flash'["work"] = [flash["work"] EXCEPT !.q = q]
      /\ \A b \in Areas \ {"work"} : flash'[b] = flash[b]
  BY <1>1, UpdateFrame, Blocks
<1>3. /\ flash'["work"].hdr = flash["work"].hdr /\ flash'["work"].data = flash["work"].data
      /\ flash'["work"].q = q
  BY <1>1, <1>2 DEF Image
<1>4. Rec' = q.rec /\ InPlace' = InPlace
  BY <1>3 DEF Rec, InPlace
<1> QED
  BY <1>2, <1>3, <1>4, Blocks DEF OnlyIn

\* The log goes on without a pending write.
LEMMA LogIdle ==
  ASSUME Sound, InPlace, NothingPending, swap' = swap, NEW q, QueueOK(q),
         Update("work", [Work EXCEPT !.q = q]), q.rec.st # "spare", QueueOK(save'.q)
  PROVE  LogsOK' /\ FlashOK' /\ Same /\ WorkIdle'
<1>0. FlashType /\ LogsOK /\ FlashOK
  BY SoundFacts
<1>1. ~swap
  BY <1>0, Unswapped
<1>2. /\ OnlyIn({"work"}) /\ InPlace' /\ Rec' = q.rec
      /\ flash'["work"].hdr = flash["work"].hdr /\ flash'["work"].data = flash["work"].data
      /\ flash'["work"].q = q
  BY <1>0, LogWritten
<1>3. FlashOK' /\ Same
  BY <1>0, <1>1, <1>2, FrameLog DEF WorkIdle
<1>4. LogsOK'
  BY <1>0, <1>2, Blocks, LogsUpdate
<1> QED
  BY <1>1, <1>2, <1>3, <1>4 DEF WorkIdle, NothingPending

\* FtwWriteRecord is done: its caller goes on.
LEMMA RecordReturns ==
  ASSUME Sound, WorkIdle', Continue(ret.record), ret.record = "Write.restore" => DataIn(arg.t)',
         Rec' = NoRec
  PROVE  Phases' /\ Unwritten' /\ QueueOK(save'.q)
<1>0. QueueOK(save.q) /\ ret \in Returns
  BY SoundFacts
<1>1. Unwritten'
  BY EmptyQueueOK, UnwrittenThere DEF Unfinished
<1>2. CASE ret.record = "Idle"
  BY <1>1, <1>2, Answered DEF Continue
<1>3. CASE ret.record # "Idle"
  <2>1. pc' = ret.record /\ save' = save /\ arg' = arg
    BY <1>3 DEF Continue, locals
  <2>2. CASE ret.record = "Write.restore"
    <3>1. SavingPhase'
      BY <2>1, <2>2 DEF SavingPhase
    <3> QED
      BY <1>0, <1>1, <2>1, <2>2, <3>1, OnePhase DEF SavingLabels
  <2>3. CASE ret.record = "Restart.erase"
    <3>1. ErasingPhase'
      BY DEF ErasingPhase
    <3> QED
      BY <1>0, <1>1, <2>1, <2>3, <3>1, OnePhase DEF ErasingLabels
  <2> QED
    BY <1>0, <1>3, <2>2, <2>3 DEF Returns
<1> QED
  BY <1>2, <1>3

\* FtwWriteRecord records that the target is complete.
LEMMA RecordEnds ==
  ASSUME Sound, RecordDest
  PROVE  Kept
<1>0. FlashType /\ LogsOK /\ FlashOK /\ QueueOK(save.q) /\ ret \in Returns /\ arg \in Arguments
  BY SoundFacts
<1> DEFINE q == flash["work"].q
<1>1. LastWrite = q /\ q \in Queue /\ QueueOK(q)
  BY <1>0, LogReads
<1>2. /\ pc = "Record.dest" /\ swap' = swap
      /\ Update("work", [Work EXCEPT !.q = CompleteRecord(q)])
      /\ (pc' = "Record.complete" /\ UNCHANGED locals) \/ Continue(ret.record)
  BY <1>1 DEF RecordDest
<1>3. /\ PendingFor(arg.t) /\ Rec.hi = WriteBlocks(arg.t, arg.hi) /\ SpareHasData
      /\ Settled(arg.t)
  BY <1>2 DEF Sound, Phases, RecordPhase
<1>4. arg.t \in Targets /\ Rec.hi \in Cells /\ q.alloc # "none" /\ q.done # q.n
  BY <1>0, <1>3, PendingTarget
<1>5. /\ QueueOK(CompleteRecord(q)) /\ CompleteRecord(q).rec = NoRec
      /\ CompleteRecord(q).alloc = q.alloc
  BY <1>1, <1>4, CompleteRecordOK
<1> HIDE DEF q
<1>6. /\ OnlyIn({"work"}) /\ InPlace' = InPlace /\ Rec' = NoRec
      /\ flash'["work"].hdr = flash["work"].hdr /\ flash'["work"].data = flash["work"].data
      /\ flash'["work"].q = CompleteRecord(q)
      /\ \A t \in Targets : flash'[t].data = flash[t].data
  BY <1>0, <1>2, <1>5, LogWritten
<1>7. flash'["work"].q.rec.st # "spare"
  BY <1>5, <1>6, EmptyQueueOK
<1>8. FlashOK' /\ Same
  BY <1>0, <1>3, <1>4, <1>6, <1>7, FrameDone
<1>9. WorkIdle'
  BY <1>2, <1>3, <1>6, EmptyQueueOK DEF WorkIdle, Settled, PendingFor, NothingPending
<1>10. ret.record = "Write.restore" /\ arg' = arg => DataIn(arg.t)'
  <2> HAVE ret.record = "Write.restore" /\ arg' = arg
  <2>1. DataIn("spare") /\ arg.d # Torn
    BY <1>3 DEF SpareHasData, Sound, ControlOK
  <2>2. arg.hi \in Cells /\ arg.lo \in Cells
    BY <1>0, <2>1 DEF Sound, ControlOK, Arguments
  <2>3. arg.lo .. arg.hi \subseteq 1 .. Rec.hi
    BY <1>3, <2>2, DUAssumption DEF WriteBlocks, Cells
  <2>4. \A u \in arg.lo .. arg.hi : flash[arg.t].data[u] = arg.d
    BY <1>3, <2>1, <2>3 DEF Settled, DataIn
  <2> QED
    BY <1>4, <1>6, <2>4 DEF DataIn
<1>11. Phases' /\ Unwritten' /\ QueueOK(save'.q)
  <2>1. CASE pc' = "Record.complete" /\ UNCHANGED locals
    <3>1. RecordPhase'
      BY <1>4, <1>5, <1>6, <1>9, <1>10, <2>1 DEF RecordPhase, locals
    <3>2. ~Unfinished'
      BY <1>6, EmptyQueueOK DEF Unfinished
    <3> QED
      BY <1>0, <2>1, <3>1, <3>2, OnePhase, UnwrittenThere DEF RecordLabels, locals
  <2>2. CASE Continue(ret.record)
    <3>1. ret.record = "Write.restore" => arg' = arg
      BY <2>2 DEF Continue, locals
    <3> QED
      BY <1>6, <1>9, <1>10, <2>2, <3>1, RecordReturns
  <2> QED
    BY <1>2, <2>1, <2>2
<1>12. LogsOK'
  BY <1>0, <1>5, <1>6, <1>11, Blocks, LogsUpdate
<1> QED
  BY <1>8, <1>11, <1>12 DEF Kept

\* ... and, after the last record, that the writes are.
LEMMA RecordCompletes ==
  ASSUME Sound, RecordComplete
  PROVE  Kept
<1>0. FlashType /\ LogsOK /\ FlashOK /\ QueueOK(save.q) /\ ret \in Returns
  BY SoundFacts
<1> DEFINE q == flash["work"].q
<1>1. LastWrite = q /\ q \in Queue /\ QueueOK(q)
  BY <1>0, LogReads
<1>2. /\ pc = "Record.complete" /\ swap' = swap
      /\ Update("work", [Work EXCEPT !.q = CompleteHeader(q)])
      /\ Continue(ret.record)
  BY <1>1 DEF RecordComplete
<1>3. WorkIdle /\ (ret.record = "Write.restore" => DataIn(arg.t))
  BY <1>2 DEF Sound, Phases, RecordPhase
<1>4. QueueOK(CompleteHeader(q)) /\ CompleteHeader(q).rec = NoRec
  BY <1>1, CompleteHeaderOK
<1> HIDE DEF q
<1>5. Rec' = NoRec /\ \A t \in Targets : flash'[t].data = flash[t].data
  BY <1>0, <1>2, <1>4, LogWritten
<1>6. QueueOK(save'.q)
  BY <1>0, <1>2, Answered DEF Continue, locals
<1>7. LogsOK' /\ FlashOK' /\ Same /\ WorkIdle'
  BY <1>2, <1>3, <1>4, <1>6, EmptyQueueOK, LogIdle DEF WorkIdle
<1>8. ret.record = "Write.restore" => DataIn(arg.t)'
  <2> HAVE ret.record = "Write.restore"
  <2>1. arg' = arg /\ arg.t \in Targets
    BY <1>2 DEF Continue, locals, Sound, CallOK
  <2> QED
    BY <1>3, <1>5, <2>1 DEF DataIn
<1>9. Phases' /\ Unwritten'
  BY <1>2, <1>5, <1>7, <1>8, RecordReturns
<1> QED
  BY <1>7, <1>9 DEF Kept

\* FtwAllocate.
LEMMA AllocateKept ==
  ASSUME AllocationFits, Sound, Allocate \/ AllocateHeader \/ AllocateWrites
  PROVE  Kept
<1>0. FlashType /\ LogsOK /\ FlashOK /\ Unwritten /\ QueueOK(save.q) /\ ret \in Returns
      /\ arg \in Arguments
  BY SoundFacts
<1> DEFINE q == flash["work"].q
<1>1. /\ LastWrite = q /\ q \in Queue /\ QueueOK(q) /\ Work = flash["work"]
      /\ (IsValidWorkSpace(Work) <=> InPlace)
  BY <1>0, LogReads
<1>2. AllocPhase /\ ControlOK
  BY DEF Sound, Phases
<1>3. /\ pc \in {"Allocate", "Allocate.header", "Allocate.writes"} /\ swap' = swap
  BY DEF Allocate, AllocateHeader, AllocateWrites, Step
<1>4. ~Unfinished
  BY <1>0, <1>3, Finished DEF UnfinishedLabels
<1>5. CASE Allocate
  <2>1. pc = "Allocate" /\ Refreshed /\ UNCHANGED <<flash, swap>>
    BY <1>5 DEF Allocate
  <2>2. CASE Return
    BY <1>0, <1>4, <2>1, <2>2, OnlyAnswered
  <2>3. CASE ~Return
    <3>1. /\ q.alloc = "none" /\ hOff' = q.off
          /\ WriteTotalSize(arg.n, arg.p) <= WsSize - WorkHeaderSize
          /\ arg' = arg /\ save' = save
          /\ ~(q.off + WriteTotalSize(arg.n, arg.p) > WsSize) => pc' = "Allocate.header"
      BY <1>1, <1>5, <2>3 DEF Allocate
    <3>2. q.off + WriteTotalSize(arg.n, arg.p) <= WsSize
      BY <1>1, <2>1, <3>1 DEF AllocationFits
    <3>3. q.off \in Nat /\ WriteTotalSize(arg.n, arg.p) \in Nat /\ WsSize \in Nat
      BY <1>0, <1>1, QueueFields, WriteTotalSizeType, WsSizeAssumption DEF Arguments
    <3>4. pc' = "Allocate.header"
      BY <3>1, <3>2, <3>3
    <3>5. AllocPhase'
      BY <1>1, <2>1, <3>1, <3>2, <3>4 DEF AllocPhase, Refreshed, InPlace
    <3>6. Phases' /\ Unwritten'
      BY <1>4, <2>1, <3>4, <3>5, OnePhase, WorkSame, UnwrittenThere DEF AllocLabels
    <3> QED
      BY <1>0, <2>1, <3>1, <3>6, NothingWritten
  <2> QED
    BY <2>2, <2>3
<1>6. CASE AllocateHeader
  <2> DEFINE r == HeaderAt(q, q.off, arg.n, arg.p)
  <2>1. pc = "Allocate.header" /\ pc' = "Allocate.writes" /\ save' = save
    BY <1>6 DEF AllocateHeader, Step, locals
  <2>2. /\ InPlace /\ hOff = q.off /\ q.alloc = "none"
        /\ hOff + WriteTotalSize(arg.n, arg.p) <= WsSize
    BY <1>2, <2>1 DEF AllocPhase
  <2>3. Update("work", [Work EXCEPT !.q = r])
    BY <1>1, <1>6, <2>2 DEF AllocateHeader
  <2>4. arg.n \in Nat \ {0} /\ arg.p \in Nat /\ (~Overwrite => arg.n = 1)
    BY <1>0, <1>2, <2>1 DEF ControlOK, Arguments
  <2>5. QueueOK(r) /\ r.alloc = "header" /\ r.rec = NoRec
    BY <1>1, <2>2, <2>4, HeaderAtEnd
  <2>6. NothingPending
    BY <1>1, <2>2, EmptyQueueOK DEF QueueOK, NothingPending, Rec
  <2> HIDE DEF q, r
  <2>7. flash'["work"].q = r /\ Rec' = NoRec
    BY <1>0, <1>3, <2>3, <2>5, LogWritten
  <2>8. LogsOK' /\ FlashOK' /\ Same /\ WorkIdle'
    BY <1>0, <1>3, <2>1, <2>2, <2>3, <2>5, <2>6, EmptyQueueOK, LogIdle
  <2>9. AllocPhase'
    BY <2>1, <2>5, <2>7, <2>8 DEF AllocPhase, WorkIdle
  <2>10. Phases'
    BY <2>1, <2>9, OnePhase DEF AllocLabels
  <2>11. ~Unfinished'
    BY <2>7, EmptyQueueOK DEF Unfinished
  <2> QED
    BY <2>8, <2>10, <2>11, UnwrittenThere DEF Kept
<1>7. CASE AllocateWrites
  <2> DEFINE r == [q EXCEPT !.alloc = IF @ = "header" THEN "writes" ELSE @]
  <2>1. pc = "Allocate.writes" /\ Continue(ret.alloc)
    BY <1>7 DEF AllocateWrites
  <2>2. InPlace /\ q.alloc = "header" /\ q.rec = NoRec
    BY <1>2, <2>1 DEF AllocPhase, Rec
  <2>3. Update("work", [Work EXCEPT !.q = r])
    BY <1>1, <1>7 DEF AllocateWrites
  <2>4. QueueOK(r) /\ r.rec = NoRec /\ r.alloc # "none"
    BY <1>1, <2>2, WritesAllocatedOK
  <2>5. NothingPending
    BY <2>2, EmptyQueueOK DEF NothingPending, Rec
  <2> HIDE DEF q, r
  <2>6. flash'["work"].q = r /\ Rec' = NoRec
    BY <1>0, <1>3, <2>3, <2>4, LogWritten
  <2>7. QueueOK(save'.q)
    BY <1>0, <2>1, Answered DEF Continue, locals
  <2>8. LogsOK' /\ FlashOK' /\ Same /\ WorkIdle'
    BY <1>0, <1>3, <2>2, <2>3, <2>4, <2>5, <2>7, EmptyQueueOK, LogIdle
  <2>9. ~Unfinished'
    BY <2>6, EmptyQueueOK DEF Unfinished
  <2>10. Phases'
    <3>1. CASE ret.alloc = "Idle"
      BY <2>1, <3>1, Answered DEF Continue
    <3>2. CASE ret.alloc = "Write.record"
      <4>1. pc' = "Write.record"
        BY <2>1, <3>2 DEF Continue
      <4>2. SavingPhase'
        BY <2>4, <2>6, <2>8, <4>1 DEF SavingPhase, WorkIdle
      <4> QED
        BY <4>1, <4>2, OnePhase DEF SavingLabels
    <3> QED
      BY <1>0, <3>1, <3>2 DEF Returns
  <2> QED
    BY <2>8, <2>9, <2>10, UnwrittenThere DEF Kept
<1> QED
  BY <1>5, <1>6, <1>7

\* FtwWrite, up to the record that says what is being written.
LEMMA WriteBegins ==
  ASSUME Sound, WriteStart \/ WriteRecord
  PROVE  Kept
<1>0. FlashType /\ LogsOK /\ FlashOK /\ Unwritten /\ QueueOK(save.q) /\ arg \in Arguments
  BY SoundFacts
<1> DEFINE q == flash["work"].q
<1>1. /\ LastWrite = q /\ q \in Queue /\ QueueOK(q) /\ Work = flash["work"]
      /\ (IsValidWorkSpace(Work) <=> InPlace)
  BY <1>0, LogReads
<1>2. pc \in {"Write", "Write.record"} /\ swap' = swap
  BY DEF WriteStart, WriteRecord
<1>3. ~Unfinished
  BY <1>0, <1>2, Finished DEF UnfinishedLabels
<1>4. arg.d # Torn /\ arg.t \in Targets /\ arg.hi \in Cells /\ (arg.t = "boot" => arg.hi = DU)
  BY <1>2 DEF Sound, CallOK, ControlOK, WriteLabels
<1>5. CASE WriteStart
  <2>1. UNCHANGED <<flash, swap>> /\ Refreshed
    BY <1>5 DEF WriteStart
  <2>2. CASE Return
    BY <1>0, <1>3, <2>1, <2>2, OnlyAnswered
  <2>3. CASE ~Return
    <3>1. save' = save /\ (pc' = "Allocate" \/ (pc' = "Write.record" /\ q.alloc # "none"))
      BY <1>1, <1>5, <2>3 DEF WriteStart
    <3>2. SavingPhase'
      BY <1>1, <2>1, <3>1 DEF SavingPhase, Refreshed, InPlace
    <3>3. Phases' /\ Unwritten'
      BY <1>3, <2>1, <3>1, <3>2, OnePhase, WorkSame, UnwrittenThere DEF SavingLabels, QuietLabels
    <3> QED
      BY <1>0, <2>1, <3>1, <3>3, NothingWritten
  <2> QED
    BY <2>2, <2>3
<1>6. CASE WriteRecord
  <2>1. pc = "Write.record"
    BY <1>6 DEF WriteRecord
  <2>2. InPlace /\ q.alloc # "none"
    BY <2>1 DEF Sound, Phases, SavingPhase
  <2>3. CASE UNCHANGED flash /\ Return
    BY <1>0, <1>2, <1>3, <2>3, OnlyAnswered
  <2>4. CASE ~(UNCHANGED flash /\ Return)
    <3> DEFINE new == [st |-> "written", t |-> arg.t, hi |-> WriteBlocks(arg.t, arg.hi)]
    <3>1. /\ q.done # q.n /\ q.rec.st # "spare" /\ pc' = "Write.erase" /\ UNCHANGED locals
          /\ \E r \in ProgramRecord(q.rec, new) :
               Update("work", [Work EXCEPT !.q = [q EXCEPT !.rec = r]])
      BY <1>1, <1>6, <2>4 DEF WriteRecord
    <3>2. ProgramRecord(q.rec, new) = {new}
      <4>1. Overwrite \/ q.rec.st # "written"
        BY <1>3, <2>2 DEF Unfinished, Rec
      <4>2. q.rec.st \in {"erased", "written", "spare"}
        BY <1>1, QueueFields DEF Record
      <4> QED
        BY <3>1, <4>1, <4>2 DEF ProgramRecord
    <3> DEFINE r == [q EXCEPT !.rec = new]
    <3>3. Update("work", [Work EXCEPT !.q = r])
      BY <3>1, <3>2
    <3>4. RecordOK(new) /\ new.st = "written"
      BY <1>4, DUAssumption DEF RecordOK, WriteBlocks, Cells
    <3>5. QueueOK(r) /\ r.rec = new
      BY <1>1, <2>2, <3>1, <3>4, NewRecordOK
    <3>6. r.alloc = q.alloc /\ r.done = q.done /\ r.n = q.n
      BY <1>1 DEF Queue
    <3>7. NothingPending
      BY <3>1 DEF NothingPending, Rec
    <3>8. Rec' = r.rec /\ flash'["work"].q = r
      <4> HIDE DEF q, r
      <4> QED
        BY <1>0, <1>2, <3>3, LogWritten
    <3>9. LogsOK' /\ FlashOK' /\ Same /\ WorkIdle'
      <4>1. QueueOK(save'.q)
        BY <1>0, <3>1 DEF locals
      <4>2. r.rec.st # "spare"
        BY <3>4, <3>5
      <4> HIDE DEF q, r, new
      <4> QED
        BY <1>2, <2>2, <3>3, <3>5, <3>7, <4>1, <4>2, LogIdle
    <3>10. SavingPhase'
      <4>1. Rec' = [st |-> "written", t |-> arg'.t, hi |-> WriteBlocks(arg'.t, arg'.hi)]
        BY <3>1, <3>5, <3>8 DEF locals
      <4> HIDE DEF q, r, new
      <4>2. flash'["work"].q.alloc # "none" /\ flash'["work"].q.done # flash'["work"].q.n
        BY <2>2, <3>1, <3>6, <3>8
      <4> QED
        BY <3>1, <3>9, <4>1, <4>2 DEF SavingPhase
    <3>11. Phases'
      BY <3>1, <3>10, OnePhase DEF SavingLabels
    <3>12. Unwritten'
      BY <3>1, UnwrittenThere DEF UnfinishedLabels
    <3> QED
      BY <3>9, <3>11, <3>12 DEF Kept
  <2> QED
    BY <2>3, <2>4
<1> QED
  BY <1>5, <1>6

\* The spare block is erased and gets the blocks the target is to have.
LEMMA WriteSaves ==
  ASSUME Sound, WriteErase \/ WriteProgram
  PROVE  Kept
<1>0. FlashType /\ LogsOK /\ FlashOK /\ QueueOK(save.q) /\ arg \in Arguments
  BY SoundFacts
<1>1. /\ pc \in {"Write.erase", "Write.program"} /\ swap' = swap /\ arg' = arg
      /\ pc' \in {"Write.program", "Write.spare"}
  BY DEF WriteErase, WriteProgram, WriteBuffer, Step, locals
<1>2. /\ WorkIdle /\ ~swap
      /\ Rec = [st |-> "written", t |-> arg.t, hi |-> WriteBlocks(arg.t, arg.hi)]
      /\ flash["work"].q.alloc # "none" /\ flash["work"].q.done # flash["work"].q.n
  BY <1>1 DEF Sound, Phases, SavingPhase, WorkIdle
<1>3. arg.d # Torn /\ arg.t \in Targets /\ arg.hi \in Cells
  BY <1>1 DEF Sound, CallOK, ControlOK, WriteLabels
<1>4. /\ flash["spare"] \in Image /\ QueueOK(flash["spare"].q)
      /\ flash["work"] \in Image /\ QueueOK(flash["work"].q) /\ Work = flash["work"]
  BY <1>0, LogReads
<1>5. ASSUME OnlyIn({"spare"}), QueueOK(flash'["spare"].q), QueueOK(save'.q), SavingPhase'
      PROVE  Kept
  <2>1. Phases'
    BY <1>1, <1>5, OnePhase DEF SavingLabels
  <2>2. pc' \in UnfinishedLabels
    BY <1>1 DEF UnfinishedLabels
  <2> QED
    BY <1>2, <1>5, <2>1, <2>2, SpareWritten
<1>6. ASSUME flash'["work"] = flash["work"]
      PROVE  /\ WorkIdle'
             /\ Rec' = [st |-> "written", t |-> arg'.t, hi |-> WriteBlocks(arg'.t, arg'.hi)]
             /\ flash'["work"].q.alloc # "none" /\ flash'["work"].q.done # flash'["work"].q.n
  BY <1>1, <1>2, <1>6, IdleSame, WorkSame
<1>7. CASE WriteErase
  <2>1. /\ pc' = "Write.program" /\ save' = flash["spare"]
        /\ BeginRewrite(SpareArea, DU, IF arg.t = "work" THEN Work.hdr ELSE "none")
    BY <1>2, <1>7, SpareIsSpare DEF WriteErase
  <2>2. OnlyIn({"spare"}) /\ QueueOK(flash'["spare"].q) /\ flash'["work"] = flash["work"]
    BY <1>0, <1>1, <1>2, <2>1, SpareRewritten
  <2>3. SavingPhase'
    BY <1>6, <2>1, <2>2 DEF SavingPhase
  <2> QED
    BY <1>4, <1>5, <2>1, <2>2, <2>3
<1>8. CASE WriteProgram
  <2> DEFINE new == [u \in Cells |->
                      IF u \in arg.lo .. arg.hi THEN arg.d
                      ELSE IF u <= WriteBlocks(arg.t, arg.hi) THEN flash[arg.t].data[u]
                      ELSE Torn]
             img == IF arg.t = "work" THEN [flash["work"] EXCEPT !.data = new]
                                      ELSE [BlankImage EXCEPT !.data = new]
  <2>1. AreaOf(arg.t) = arg.t
    BY <1>2, SpareIsSpare DEF AreaOf
  <2>2. pc' = "Write.spare" /\ save' = save /\ Update(SpareArea, img)
    BY <1>4, <1>8, <2>1 DEF WriteProgram, WriteBuffer, Step, locals
  <2>3. /\ img.data = new /\ (arg.t = "work" => img.hdr = flash["work"].hdr)
        /\ img.q = IF arg.t = "work" THEN flash["work"].q ELSE BlankImage.q
    BY <1>4 DEF Image, BlankImage
  <2>4. /\ \A u \in arg.lo .. arg.hi : new[u] = arg.d
        /\ \A u \in 1 .. WriteBlocks(arg.t, arg.hi) :
             u \notin arg.lo .. arg.hi => new[u] = flash[arg.t].data[u]
    <3>1. arg.lo .. arg.hi \subseteq Cells
      BY <1>0, <1>3, DUAssumption DEF Arguments, Cells
    <3>2. 1 .. WriteBlocks(arg.t, arg.hi) \subseteq Cells
      BY <1>3, DUAssumption DEF WriteBlocks, Cells
    <3>3. \A u \in 1 .. WriteBlocks(arg.t, arg.hi) : u <= WriteBlocks(arg.t, arg.hi)
      BY <1>3, DUAssumption DEF WriteBlocks, Cells
    <3> QED
      BY <3>1, <3>2, <3>3
  <2> HIDE DEF new, img
  <2>5. /\ OnlyIn({"spare"}) /\ flash'["spare"] = img /\ flash'["work"] = flash["work"]
        /\ \A t \in Targets : flash'[t] = flash[t]
    BY <1>0, <1>1, <1>2, <2>2, SpareUpdated
  <2>6. QueueOK(flash'["spare"].q)
    BY <1>4, <2>3, <2>5, EmptyQueueOK
  <2>7. DataIn("spare")'
    BY <1>1, <2>3, <2>4, <2>5 DEF DataIn
  <2>8. \A u \in 1 .. WriteBlocks(arg'.t, arg'.hi) :
          u \notin arg'.lo .. arg'.hi => flash'["spare"].data[u] = flash'[arg'.t].data[u]
    BY <1>1, <1>3, <2>3, <2>4, <2>5
  <2>9. arg'.t = "work" => flash'["spare"].hdr = "valid" /\ flash'["spare"].q = flash'["work"].q
    BY <1>1, <1>2, <2>3, <2>5 DEF WorkIdle, InPlace
  <2>10. SavingPhase'
    BY <1>6, <2>2, <2>5, <2>7, <2>8, <2>9 DEF SavingPhase
  <2> QED
    BY <1>0, <1>5, <2>2, <2>5, <2>6, <2>10
<1> QED
  BY <1>7, <1>8

\* The spare block is marked complete.
LEMMA WriteCommits ==
  ASSUME Sound, WriteSpare
  PROVE  Kept
<1>0. FlashType /\ LogsOK /\ FlashOK /\ QueueOK(save.q) /\ arg \in Arguments /\ ret \in Returns
  BY SoundFacts
<1> DEFINE q == flash["work"].q
           r == [q EXCEPT !.rec.st = "spare"]
           k == WriteBlocks(arg.t, arg.hi)
<1>1. /\ q \in Queue /\ QueueOK(q) /\ flash["work"] \in Image
  BY <1>0, LogReads
<1>2. /\ pc = "Write.spare" /\ pc' = "Record" /\ swap' = swap /\ arg' = arg /\ save' = save
      /\ ret'.record = "Write.restore"
      /\ Update("work", [Work EXCEPT !.q = r])
  <2>1. [Work EXCEPT !.q.rec.st = "spare"] = [Work EXCEPT !.q = [Work.q EXCEPT !.rec.st = "spare"]]
    OBVIOUS
  <2>2. Update("work", [Work EXCEPT !.q.rec.st = "spare"])
    BY DEF WriteSpare
  <2>3. Update("work", [Work EXCEPT !.q = [Work.q EXCEPT !.rec.st = "spare"]])
    BY <2>1, <2>2
  <2>4. Update("work", [Work EXCEPT !.q = r])
    BY <2>3 DEF Work
  <2> QED
    BY <1>0, <2>4 DEF WriteSpare, Returns
<1>3. /\ WorkIdle
      /\ Rec = [st |-> "written", t |-> arg.t, hi |-> k]
      /\ DataIn("spare")
      /\ \A u \in 1 .. k : u \notin arg.lo .. arg.hi => flash["spare"].data[u] = flash[arg.t].data[u]
      /\ arg.t = "work" => flash["spare"].hdr = "valid" /\ flash["spare"].q = q
  BY <1>2 DEF Sound, Phases, SavingPhase
<1>4. arg.d # Torn /\ arg.t \in Targets /\ arg.hi \in Cells /\ (arg.t = "boot" => arg.hi = DU)
  BY <1>2 DEF Sound, CallOK, ControlOK, WriteLabels
<1>5. /\ arg.lo \in Cells /\ arg.d \in Data /\ k \in Cells /\ arg.hi <= k
      /\ (arg.t \in {"work", "boot"} => k = DU)
  BY <1>0, <1>4, DUAssumption DEF Arguments, WriteBlocks, Cells
<1>6. q.rec = Rec
  BY DEF Rec
<1>7. QueueOK(r) /\ r.rec = [st |-> "spare", t |-> arg.t, hi |-> k]
  BY <1>1, <1>3, <1>6, SpareCompleteOK
<1>8. [r EXCEPT !.rec.st = "written"] = q
  <2>1. ASSUME NEW x \in Queue, x.rec.st = "written"
        PROVE  [[x EXCEPT !.rec.st = "spare"] EXCEPT !.rec.st = "written"] = x
    BY <2>1 DEF Queue, Record
  <2>2. q.rec.st = "written"
    BY <1>3, <1>6
  <2> QED
    BY <1>1, <2>1, <2>2
<1> HIDE DEF q, r, k
<1>9. /\ OnlyIn({"work"}) /\ flash'["spare"] = flash["spare"]
      /\ flash'["work"].hdr = flash["work"].hdr /\ flash'["work"].data = flash["work"].data
      /\ flash'["work"].q = r /\ Rec' = r.rec /\ InPlace' = InPlace
  BY <1>0, <1>2, LogWritten
<1>10. FlashOK' /\ (Same \/ OneWrite)
  <2>1. \A u \in arg.lo .. arg.hi : flash["spare"].data[u] = arg.d
    BY <1>3 DEF DataIn
  <2>2. flash'["work"].q.rec = [st |-> "spare", t |-> arg.t, hi |-> k]
    BY <1>7, <1>9
  <2>3. arg.t = "work" => /\ flash["spare"].hdr = "valid"
                          /\ flash["spare"].q = [flash'["work"].q EXCEPT !.rec.st = "written"]
    BY <1>3, <1>8, <1>9
  <2> QED
    BY <1>0, <1>3, <1>4, <1>5, <1>9, <2>1, <2>2, <2>3, FrameComplete
<1>11. LogsOK'
  BY <1>0, <1>2, <1>7, <1>9, Blocks, LogsUpdate
<1>12. RecordPhase'
  <2>1. SpareHasData'
    BY <1>2, <1>3, <1>9 DEF SpareHasData, DataIn
  <2>2. Rec' = [st |-> "spare", t |-> arg'.t, hi |-> WriteBlocks(arg'.t, arg'.hi)]
    BY <1>2, <1>7, <1>9 DEF k
  <2>3. PendingFor(arg.t)' /\ Rec'.hi = WriteBlocks(arg'.t, arg'.hi)
    BY <1>3, <1>9, <2>2 DEF PendingFor, WorkIdle
  <2> QED
    BY <1>2, <2>1, <2>3 DEF RecordPhase
<1>13. Phases'
  BY <1>2, <1>12, OnePhase DEF RecordLabels
<1>14. ~Unfinished'
  BY <1>7, <1>9 DEF Unfinished
<1> QED
  BY <1>10, <1>11, <1>13, <1>14, UnwrittenThere DEF Kept

\* FtwWrite gives the spare block its contents back.
LEMMA WriteReturns ==
  ASSUME Sound, WriteRestore \/ WriteRestored
  PROVE  Kept
<1>0. FlashType /\ LogsOK /\ FlashOK /\ Unwritten /\ QueueOK(save.q)
  BY SoundFacts
<1>1. pc \in {"Write.restore", "Write.restored"} /\ swap' = swap
  BY DEF WriteRestore, WriteRestored, Step
<1>2. WorkIdle /\ ~swap /\ DataIn(arg.t)
  BY <1>1 DEF Sound, Phases, SavingPhase, WorkIdle
<1>3. ~Unfinished
  BY <1>0, <1>1, Finished DEF UnfinishedLabels
<1>4. CASE WriteRestore
  <2>1. BeginRewrite(SpareArea, DU, save.hdr) /\ pc' = "Write.restored" /\ save' = save
        /\ arg' = arg
    BY <1>4 DEF WriteRestore, Step, locals
  <2>2. /\ OnlyIn({"spare"}) /\ QueueOK(flash'["spare"].q) /\ flash'["work"] = flash["work"]
        /\ \A t \in Targets : flash'[t] = flash[t]
    BY <1>0, <1>1, <1>2, <2>1, SpareRewritten
  <2>3. WorkIdle'
    BY <1>1, <1>2, <2>2, IdleSame
  <2>4. arg.t \in Targets
    BY <1>1 DEF Sound, CallOK, WriteLabels
  <2>5. SavingPhase'
    BY <1>2, <2>1, <2>2, <2>3, <2>4 DEF SavingPhase, DataIn
  <2>6. Phases'
    BY <2>1, <2>5, OnePhase DEF SavingLabels
  <2> QED
    BY <1>0, <1>2, <1>3, <2>1, <2>2, <2>6, SpareWritten
<1>5. CASE WriteRestored
  <2>1. Update(SpareArea, save) /\ Return
    BY <1>5 DEF WriteRestored
  <2>2. OnlyIn({"spare"}) /\ flash'["spare"] = save
    BY <1>0, <1>1, <1>2, <2>1, SpareUpdated
  <2> QED
    BY <1>0, <1>2, <1>3, <2>1, <2>2, Answered, SpareWritten
<1> QED
  BY <1>4, <1>5

\* FtwRestart.
LEMMA RestartKept ==
  ASSUME Sound, Restart \/ RestartErase \/ RestartErased
  PROVE  Kept
<1>0. FlashType /\ LogsOK /\ FlashOK /\ Unwritten /\ QueueOK(save.q) /\ ret \in Returns
      /\ arg \in Arguments
  BY SoundFacts
<1> DEFINE q == flash["work"].q
<1>1. /\ LastWrite = q /\ QueueOK(q) /\ (IsValidWorkSpace(Work) <=> InPlace)
  BY <1>0, LogReads
<1>2. pc \in {"Restart"} \cup ErasingLabels /\ swap' = swap
  BY DEF Restart, RestartErase, RestartErased, Step, ErasingLabels
<1>3. ~Unfinished
  BY <1>0, <1>2, Finished DEF UnfinishedLabels, ErasingLabels
<1>4. ASSUME Continue(ret.restart), WorkIdle'
      PROVE  Phases' /\ save' \in {save, BlankImage}
  <2>1. CASE ret.restart = "Idle"
    BY <1>4, <2>1, Answered DEF Continue
  <2>2. CASE ret.restart = "Abort"
    <3>1. pc' = "Abort" /\ save' = save
      BY <1>4, <2>2 DEF Continue, locals
    <3>2. AbortPhase'
      BY <1>4 DEF AbortPhase, WorkIdle
    <3> QED
      BY <3>1, <3>2, OnePhase
  <2> QED
    BY <1>0, <2>1, <2>2 DEF Returns
<1>5. CASE Restart
  <2>1. UNCHANGED <<flash, swap>> /\ InPlace
    BY <1>1, <1>5 DEF Restart, Refreshed
  <2>2. Unwritten'
    BY <1>3, <2>1, WorkSame, UnwrittenThere
  <2>3. CASE q.rec.st # "spare"
    <3>1. Continue(ret.restart)
      BY <1>1, <1>5, <2>3 DEF Restart
    <3>2. WorkIdle
      BY <1>0, <2>1, <2>3, Unswapped DEF WorkIdle, NothingPending, Rec
    <3>3. WorkIdle'
      BY <2>1, <3>2, IdleSame
    <3> QED
      BY <1>0, <1>4, <2>1, <2>2, <3>1, <3>3, NothingWritten
  <2>4. CASE q.rec.st = "spare"
    <3>1. /\ pc' = "Record" /\ save' = save
          /\ arg' = [NoArg EXCEPT !.t = Rec.t, !.hi = Rec.hi]
          /\ ret'.record = "Restart.erase"
      BY <1>0, <1>1, <1>5, <2>4 DEF Restart, Rec, Returns
    <3>2. arg'.t = Rec.t /\ arg'.hi = Rec.hi
      BY <3>1 DEF NoArg
    <3>3. PendingFor(Rec.t)
      BY <2>1, <2>4 DEF PendingFor, Rec
    <3>4. Rec.hi = WriteBlocks(Rec.t, Rec.hi)
      BY <1>0, <3>3, PendingTarget DEF WriteBlocks
    <3>5. Rec' = Rec /\ PendingFor(arg.t)' /\ SpareHasData'
      BY <2>1, <3>1, <3>2, <3>3, WorkSame DEF PendingFor, SpareHasData
    <3>6. RecordPhase'
      BY <3>1, <3>2, <3>4, <3>5 DEF RecordPhase
    <3>7. Phases'
      BY <3>1, <3>6, OnePhase DEF RecordLabels
    <3> QED
      BY <1>0, <2>1, <2>2, <3>1, <3>7, NothingWritten
  <2> QED
    BY <2>3, <2>4
<1>6. CASE RestartErase
  <2>1. BeginRewrite(SpareArea, DU, "none") /\ pc = "Restart.erase" /\ pc' = "Restart.erased"
        /\ save' = save
    BY <1>6 DEF RestartErase, Step, locals
  <2>2. WorkIdle /\ ~swap
    BY <2>1 DEF Sound, Phases, ErasingPhase, ErasingLabels, WorkIdle
  <2>3. OnlyIn({"spare"}) /\ QueueOK(flash'["spare"].q) /\ flash'["work"] = flash["work"]
    BY <1>0, <1>2, <2>1, <2>2, SpareRewritten
  <2>4. WorkIdle'
    BY <1>2, <2>2, <2>3, IdleSame
  <2>5. Phases'
    BY <2>1, <2>4, OnePhase DEF ErasingLabels, ErasingPhase
  <2> QED
    BY <1>0, <1>3, <2>1, <2>2, <2>3, <2>5, SpareWritten
<1>7. CASE RestartErased
  <2>1. Update(SpareArea, BlankImage) /\ pc = "Restart.erased" /\ Continue(ret.restart)
    BY <1>7 DEF RestartErased
  <2>2. WorkIdle /\ ~swap
    BY <2>1 DEF Sound, Phases, ErasingPhase, ErasingLabels, WorkIdle
  <2>3. OnlyIn({"spare"}) /\ flash'["spare"] = BlankImage /\ flash'["work"] = flash["work"]
    BY <1>0, <1>2, <2>1, <2>2, SpareUpdated
  <2>4. WorkIdle'
    BY <1>2, <2>2, <2>3, IdleSame
  <2>5. Phases' /\ save' \in {save, BlankImage}
    BY <1>4, <2>1, <2>4
  <2> QED
    BY <1>0, <1>3, <2>2, <2>3, <2>5, EmptyQueueOK, SpareWritten
<1> QED
  BY <1>5, <1>6, <1>7

\* FtwAbort.
LEMMA AbortKept ==
  ASSUME Sound, Abort
  PROVE  Kept
<1>0. FlashType /\ LogsOK /\ FlashOK /\ QueueOK(save.q) /\ ret \in Returns
  BY SoundFacts
<1> DEFINE q == flash["work"].q
<1>1. /\ LastWrite = q /\ q \in Queue /\ QueueOK(q) /\ (IsValidWorkSpace(Work) <=> InPlace)
  BY <1>0, LogReads
<1>2. /\ pc = "Abort" /\ InPlace /\ swap' = swap /\ Continue(ret.abort)
  BY <1>1 DEF Abort, Refreshed
<1>3. NothingPending \/ Settled("work") \/ Settled("boot")
  BY <1>2 DEF Sound, Phases, AbortPhase
<1>4. QueueOK(save'.q) /\ save' \in {save, BlankImage}
  BY <1>0, <1>2, Answered DEF Continue, locals
<1>5. ASSUME InPlace', Rec' = NoRec
      PROVE  Phases' /\ Unwritten'
  <2>1. ~Unfinished'
    BY <1>5, EmptyQueueOK DEF Unfinished
  <2>2. CASE ret.abort = "Idle"
    BY <1>2, <2>1, <2>2, Answered, UnwrittenThere DEF Continue
  <2>3. CASE ret.abort # "Idle"
    <3>1. pc' \in {"Init", "Init.last", "Init.trail"}
      BY <1>0, <1>2, <2>3 DEF Continue, Returns
    <3>2. StartedPhase'
      BY <1>5 DEF StartedPhase
    <3> QED
      BY <2>1, <3>1, <3>2, OnePhase, UnwrittenThere DEF StartedLabels, QuietLabels
  <2> QED
    BY <2>2, <2>3
<1>6. CASE q.alloc = "none"
  <2>1. flash' = flash
    BY <1>1, <1>6 DEF Abort
  <2>2. InPlace' /\ Rec' = NoRec
    BY <1>1, <1>2, <1>6, <2>1, WorkSame DEF QueueOK, Rec
  <2> QED
    BY <1>0, <1>2, <1>4, <1>5, <2>1, <2>2, NothingWritten
<1>7. CASE q.alloc # "none"
  <2>1. Update("work", [Work EXCEPT !.q = CompleteHeader(q)])
    BY <1>1, <1>7 DEF Abort
  <2>2. QueueOK(CompleteHeader(q)) /\ CompleteHeader(q).rec = NoRec
    BY <1>1, CompleteHeaderOK
  <2> HIDE DEF q
  <2>3. /\ OnlyIn({"work"}) /\ InPlace' /\ Rec' = NoRec
        /\ flash'["work"].hdr = flash["work"].hdr /\ flash'["work"].data = flash["work"].data
        /\ flash'["work"].q = CompleteHeader(q)
    BY <1>0, <1>2, <2>1, <2>2, LogWritten
  <2>4. Phases' /\ Unwritten'
    BY <1>5, <2>3
  <2>5. CASE NothingPending
    <3>1. LogsOK' /\ FlashOK' /\ Same
      BY <1>2, <1>4, <2>1, <2>2, <2>5, EmptyQueueOK, LogIdle
    <3> QED
      BY <2>4, <3>1 DEF Kept
  <2>6. ASSUME NEW t \in {"work", "boot"}, Settled(t) PROVE Kept
    <3>1. t \in Targets
      BY <1>0, <2>6, PendingTarget DEF Settled
    <3>2. FlashOK' /\ Same
      BY <1>0, <2>2, <2>3, <2>6, <3>1, EmptyQueueOK, FrameDone
    <3>3. LogsOK'
      BY <1>0, <1>4, <2>2, <2>3, Blocks, LogsUpdate
    <3> QED
      BY <2>4, <3>2, <3>3 DEF Kept
  <2> QED
    BY <1>3, <2>5, <2>6
<1> QED
  BY <1>6, <1>7

\* FtwGetLastWrite.
LEMMA GetLastWriteKept ==
  ASSUME Sound, GetLastWrite
  PROVE  Kept
<1>0. FlashType /\ LogsOK /\ FlashOK /\ Unwritten
  BY SoundFacts
<1>1. /\ LastWrite = flash["work"].q /\ QueueOK(flash["work"].q)
      /\ (IsValidWorkSpace(Work) <=> InPlace)
  BY <1>0, LogReads
<1>2. pc = "GetLastWrite" /\ InPlace /\ UNCHANGED <<flash, swap>>
  BY <1>1 DEF GetLastWrite, Refreshed
<1>3. ~Unfinished
  BY <1>0, <1>2, Finished DEF UnfinishedLabels
<1>4. CASE LastRecordDone \/ FirstRecordUnsaved
  <2>1. pc' = "Abort" /\ UNCHANGED locals
    BY <1>4 DEF GetLastWrite
  <2>2. NothingPending
    BY <1>1, <1>4, EmptyQueueOK DEF LastRecordDone, FirstRecordUnsaved, QueueOK, NothingPending,
       Rec
  <2>3. ~swap
    BY <1>0, <2>2, Unswapped
  <2>4. AbortPhase'
    BY <1>2, <2>2, <2>3, WorkSame DEF AbortPhase
  <2>5. Phases' /\ Unwritten'
    BY <1>2, <1>3, <2>1, <2>4, OnePhase, WorkSame, UnwrittenThere
  <2> QED
    BY <1>0, <1>2, <2>1, <2>5, NothingWritten DEF locals
<1>5. CASE ~(LastRecordDone \/ FirstRecordUnsaved)
  <2>1. Return
    BY <1>5 DEF GetLastWrite
  <2> QED
    BY <1>0, <1>2, <1>3, <2>1, OnlyAnswered
<1> QED
  BY <1>4, <1>5

\* WorkSpaceRefresh.
LEMMA RefreshKept ==
  ASSUME Sound, RefreshReclaims \/ RefreshAborts
  PROVE  Kept
<1>0. FlashType /\ LogsOK /\ FlashOK /\ Unwritten /\ ret \in Returns
  BY SoundFacts
<1>1. (IsValidWorkSpace(Work) <=> InPlace) /\ UNCHANGED <<flash, swap>>
  BY <1>0, LogReads DEF RefreshReclaims, RefreshAborts
<1>2. CASE RefreshReclaims
  <2>1. /\ InPlace /\ NeedsReclaim /\ pc' = "Reclaim" /\ save' = save
    BY <1>1, <1>2 DEF RefreshReclaims
  <2>2. Rec = NoRec /\ NothingPending
    BY <1>0, <2>1, FullIsIdle
  <2>3. ~swap /\ ~InCopy
    BY <1>0, <2>1, <2>2, Unswapped DEF InCopy, InPlace
  <2>4. ReclaimPhase'
    BY <1>1, <2>1, <2>2, <2>3, WorkSame DEF ReclaimPhase, InCopy
  <2>5. Phases'
    BY <2>1, <2>4, OnePhase DEF ReclaimLabels
  <2>6. ~Unfinished'
    BY <1>1, <2>2, EmptyQueueOK, WorkSame DEF Unfinished
  <2> QED
    BY <1>0, <1>1, <2>1, <2>5, <2>6, NothingWritten, UnwrittenThere
<1>3. CASE RefreshAborts
  <2>1. ~InPlace
    BY <1>1, <1>3 DEF RefreshAborts
  <2>2. pc = "Restart" => ret.restart = "Idle"
    BY <2>1 DEF Sound, Phases, StartedPhase
  <2>3. pc = "Abort" => ret.abort = "Idle"
    BY <2>1 DEF Sound, Phases, AbortPhase
  <2>4. Return
    BY <1>3, <2>2, <2>3 DEF RefreshAborts, Continue
  <2>5. ~Unfinished
    BY <2>1 DEF Unfinished
  <2> QED
    BY <1>0, <1>1, <2>4, <2>5, OnlyAnswered
<1> QED
  BY <1>2, <1>3

\* InitFtwProtocol.
LEMMA InitKept ==
  ASSUME OnlyWholeRecords, Sound,
         InitWorkSpace \/ InitFirst \/ InitLast \/ InitTrail \/ InitRestart
  PROVE  Kept
<1>0. FlashType /\ LogsOK /\ FlashOK /\ Unwritten /\ QueueOK(save.q) /\ ret \in Returns
  BY SoundFacts
<1> DEFINE q == flash["work"].q
<1>1. /\ LastWrite = q /\ q \in Queue /\ QueueOK(q) /\ Work = flash["work"]
      /\ (IsValidWorkSpace(Work) <=> InPlace)
  BY <1>0, LogReads
<1>2. UNCHANGED <<flash, swap>>
  BY DEF InitWorkSpace, InitFirst, InitLast, InitTrail, InitRestart, InitAbort
<1>3. ASSUME Phases', Unwritten', save' = save PROVE Kept
  BY <1>0, <1>2, <1>3, NothingWritten
<1>4. /\ InPlace' = InPlace /\ NothingPending' = NothingPending /\ Unfinished' = Unfinished
      /\ Rec' = Rec /\ \A t : PendingFor(t)' = PendingFor(t)
  BY <1>2, WorkSame
<1>5. ASSUME NothingPending PROVE ~swap
  BY <1>0, <1>5, Unswapped
<1>6. CASE InitWorkSpace
  <2>1. save' = save /\ pc = "Init"
    BY <1>6 DEF InitWorkSpace
  <2>2. CASE InPlace
    <3>1. pc' = "Init.first"
      BY <1>1, <1>6, <2>2 DEF InitWorkSpace
    <3>2. Phases'
      BY <1>4, <2>2, <3>1, OnePhase DEF StartedPhase, StartedLabels
    <3> QED
      BY <1>3, <2>1, <3>1, <3>2, UnwrittenThere DEF UnfinishedLabels
  <2>3. CASE ~InPlace
    <3>1. NothingPending /\ ~swap /\ ~Unfinished
      BY <1>5, <2>3 DEF NothingPending, Unfinished
    <3>2. Spare = flash["spare"]
      BY <3>1, SpareIsSpare
    <3>3. CASE InCopy
      <4>1. pc' = "Flush" /\ ret'.flush = "Abort"
        BY <1>0, <1>1, <1>6, <2>3, <3>2, <3>3
        DEF InitWorkSpace, Refreshed, IsValidWorkSpace, InCopy, Returns
      <4>2. CopiedRecord
        BY <1>0, <3>3 DEF FlashOK, WorkOK
      <4>3. FlushPhase'
        BY <1>2, <3>1, <3>3, <4>1, <4>2 DEF FlushPhase, InCopy, CopiedRecord
      <4>4. Phases'
        BY <4>1, <4>3, OnePhase DEF FlushLabels
      <4> QED
        BY <1>3, <1>4, <2>1, <3>1, <4>4, UnwrittenThere
    <3>4. CASE ~InCopy
      <4>1. pc' = "Reclaim" /\ keep' = FALSE
        BY <1>1, <1>6, <2>3, <3>2, <3>4
        DEF InitWorkSpace, Refreshed, IsValidWorkSpace, InCopy, InPlace
      <4>2. ReclaimPhase'
        BY <1>2, <1>4, <3>1, <3>4, <4>1 DEF ReclaimPhase, InCopy
      <4>3. Phases'
        BY <4>1, <4>2, OnePhase DEF ReclaimLabels
      <4> QED
        BY <1>3, <1>4, <2>1, <3>1, <4>3, UnwrittenThere
    <3> QED
      BY <3>3, <3>4
  <2> QED
    BY <2>2, <2>3
<1>7. CASE InitFirst
  <2>1. /\ pc = "Init.first" /\ save' = save
        /\ IF FirstRecordUnsaved THEN pc' = "Abort" /\ ret' = [ret EXCEPT !.abort = "Init.last"]
                                 ELSE pc' = "Init.last"
    BY <1>7 DEF InitFirst, InitAbort
  <2>2. InPlace
    BY <2>1 DEF Sound, Phases, StartedPhase, StartedLabels
  <2>3. CASE FirstRecordUnsaved
    <3>1. pc' = "Abort" /\ ret'.abort = "Init.last"
      BY <1>0, <2>1, <2>3 DEF Returns
    <3>2. NothingPending
      BY <1>1, <2>3 DEF FirstRecordUnsaved, NothingPending, Rec
    <3>3. AbortPhase'
      BY <1>2, <1>4, <1>5, <2>2, <3>2 DEF AbortPhase
    <3>4. Phases' /\ Unwritten'
      BY <3>1, <3>3, OnePhase DEF Unwritten
    <3> QED
      BY <1>3, <2>1, <3>4
  <2>4. CASE ~FirstRecordUnsaved
    <3>1. pc' = "Init.last"
      BY <2>1, <2>4
    <3>2. ~Unfinished
      <4>1. SUFFICES ASSUME ~Overwrite, q.rec.st = "written" PROVE FALSE
        BY DEF Unfinished, Rec
      <4>2. q.rec # NoRec
        BY <4>1, EmptyQueueOK
      <4>3. q.alloc # "none" /\ q.done # q.n
        BY <1>1, <4>2 DEF QueueOK
      <4>4. q.n = 1 /\ q.done <= q.n /\ q.done \in Nat
        BY <1>1, <4>1, <4>3, QueueFields DEF QueueOK
      <4>5. q.done = 0
        BY <4>3, <4>4
      <4> QED
        BY <1>1, <2>4, <4>1, <4>3, <4>5 DEF FirstRecordUnsaved
    <3>3. Phases'
      BY <1>4, <2>2, <3>1, OnePhase DEF StartedPhase, StartedLabels
    <3> QED
      BY <1>3, <1>4, <2>1, <3>2, <3>3, UnwrittenThere
  <2> QED
    BY <2>3, <2>4
<1>8. CASE InitLast
  <2>1. /\ pc = "Init.last" /\ save' = save
        /\ IF LastRecordDone THEN pc' = "Abort" ELSE pc' = "Init.trail"
    BY <1>8 DEF InitLast, InitAbort
  <2>2. InPlace /\ ~Unfinished
    BY <1>0, <2>1, Finished DEF Sound, Phases, StartedPhase, StartedLabels, UnfinishedLabels
  <2>3. CASE LastRecordDone
    <3>1. NothingPending
      BY <1>1, <2>3, EmptyQueueOK DEF LastRecordDone, QueueOK, NothingPending, Rec
    <3>2. AbortPhase'
      BY <1>2, <1>4, <1>5, <2>2, <3>1 DEF AbortPhase
    <3>3. Phases'
      BY <2>1, <2>3, <3>2, OnePhase
    <3> QED
      BY <1>3, <1>4, <2>1, <2>2, <3>3, UnwrittenThere
  <2>4. CASE ~LastRecordDone
    <3>1. Phases'
      BY <1>4, <2>1, <2>2, <2>4, OnePhase DEF StartedPhase, StartedLabels
    <3> QED
      BY <1>3, <1>4, <2>1, <2>2, <3>1, UnwrittenThere
  <2> QED
    BY <2>3, <2>4
<1>9. CASE InitTrail
  <2>1. ~TrailingNotErased
    <3>1. q.stray.off = 0
      BY <1>1 DEF QueueOK, NoHeader
    <3> QED
      BY <1>1, <3>1 DEF TrailingNotErased
  <2>2. pc = "Init.trail" /\ pc' = "Init.restart" /\ save' = save
    BY <1>9, <2>1 DEF InitTrail
  <2>3. InPlace /\ ~Unfinished
    BY <1>0, <2>2, Finished DEF Sound, Phases, StartedPhase, StartedLabels, UnfinishedLabels
  <2>4. Phases'
    BY <1>4, <2>2, <2>3, OnePhase DEF StartedPhase, StartedLabels
  <2> QED
    BY <1>3, <1>4, <2>2, <2>3, <2>4, UnwrittenThere
<1>10. CASE InitRestart
  <2>1. pc = "Init.restart"
    BY <1>10 DEF InitRestart
  <2>2. InPlace /\ ~Unfinished
    BY <1>0, <2>1, Finished DEF Sound, Phases, StartedPhase, StartedLabels, UnfinishedLabels
  <2>3. CASE q.rec.st # "spare"
    <3>1. Return
      BY <1>1, <1>10, <2>3 DEF InitRestart
    <3> QED
      BY <1>0, <1>2, <2>2, <3>1, OnlyAnswered
  <2>4. CASE q.rec.st = "spare"
    <3>1. /\ ret' = [ret EXCEPT !.boot = "Abort", !.restart = "Abort", !.abort = "Idle"]
          /\ pc' \in IF q.rec.t = "boot"
                     THEN {IF "boot" \in Targets THEN "Boot" ELSE "Abort"}
                     ELSE {"Restart"} \cup IF FvbMissing THEN {"Abort"} ELSE {}
          /\ save' = save
      BY <1>1, <1>10, <2>4 DEF InitRestart
    <3>2. PendingFor(q.rec.t)
      BY <2>2, <2>4 DEF PendingFor, Rec
    <3>3. q.rec.t \in Targets
      BY <1>0, <3>2, PendingTarget
    <3>4. CASE q.rec.t = "boot"
      <4>1. pc' = "Boot" /\ ret'.boot = "Abort"
        BY <1>0, <3>1, <3>3, <3>4 DEF Returns
      <4>2. BootPhase'
        BY <1>4, <3>2, <3>4, <4>1 DEF BootPhase
      <4>3. Phases'
        BY <4>1, <4>2, OnePhase DEF BootLabels
      <4> QED
        BY <1>3, <1>4, <2>2, <3>1, <4>3, UnwrittenThere
    <3>5. CASE q.rec.t # "boot"
      <4>1. pc' = "Restart"
        BY <3>1, <3>5 DEF OnlyWholeRecords
      <4>2. Phases'
        BY <1>4, <2>2, <4>1, OnePhase DEF StartedPhase
      <4> QED
        BY <1>3, <1>4, <2>2, <3>1, <4>2, UnwrittenThere
    <3> QED
      BY <3>4, <3>5
  <2> QED
    BY <2>3, <2>4
<1> QED
  BY <1>6, <1>7, <1>8, <1>9, <1>10

\* Callers, device errors and the power supply.
LEMMA EnvironmentKept ==
  ASSUME OnlyWholeRecords, Sound, Request \/ FvbError \/ PowerLoss \/ PowerOn
  PROVE  Kept
<1>0. FlashType /\ LogsOK /\ FlashOK /\ Unwritten
  BY SoundFacts
<1>1. LastWrite = flash["work"].q
  BY <1>0, LogReads
<1>2. CASE Request
  <2>1. /\ pc = "Idle" /\ UNCHANGED <<flash, swap, ret, save>>
        /\ pc' \in {"Allocate", "Write", "Restart", "Abort", "GetLastWrite"}
        /\ pc' = "Abort" => LastWrite.rec.st # "spare"
    BY <1>2 DEF Request, CallAllocate, CallWrite, CallRestart, CallAbort, CallGetLastWrite, Call
  <2>2. ~Unfinished
    BY <1>0, <2>1, Finished DEF UnfinishedLabels
  <2>3. ret'.restart = "Idle" /\ ret'.abort = "Idle"
    BY <2>1 DEF Sound, CallOK, NoRet
  <2>4. Phases'
    <3>1. CASE pc' = "Restart"
      BY <2>3, <3>1, OnePhase DEF StartedPhase, StartedLabels
    <3>2. CASE pc' = "Abort"
      <4>1. NothingPending
        BY <1>1, <2>1, <3>2 DEF NothingPending, Rec
      <4>2. ~swap
        BY <1>0, <4>1, Unswapped
      <4>3. AbortPhase'
        BY <2>1, <2>3, <4>1, <4>2, WorkSame DEF AbortPhase
      <4> QED
        BY <3>2, <4>3, OnePhase
    <3> QED
      BY <2>1, <3>1, <3>2, OnePhase DEF QuietLabels
  <2>5. Unwritten'
    BY <2>1, <2>2, WorkSame, UnwrittenThere
  <2> QED
    BY <1>0, <2>1, <2>4, <2>5, NothingWritten
<1>3. CASE FvbError
  <2>1. Return /\ UNCHANGED <<flash, swap>> /\ FvbErrors
    BY <1>3 DEF FvbError
  <2>2. ~Unfinished
    BY <2>1 DEF OnlyWholeRecords, Unfinished
  <2> QED
    BY <1>0, <2>1, <2>2, OnlyAnswered
<1>4. CASE PowerLoss \/ PowerOn
  <2>1. pc' \in {"Off", "Init"} /\ UNCHANGED <<flash, swap>> /\ save' \in {save, BlankImage}
    BY <1>4 DEF PowerLoss, PowerOn
  <2>2. Phases' /\ Unwritten'
    BY <2>1, OnePhase, UnwrittenThere DEF QuietLabels, UnfinishedLabels
  <2> QED
    BY <1>0, <2>1, <2>2, NothingWritten
<1> QED
  BY <1>2, <1>3, <1>4

\* Flash as it left the factory.
LEMMA SoundInit == Init => Sound
<1> SUFFICES ASSUME Init PROVE Sound
  OBVIOUS
<1>1. TypeOK /\ CallOK
  BY TypeInit, CallInit
<1>2. HeaderKept /\ ControlOK
  BY DEF Init, HeaderKept, ControlOK, NoArg, NoRet
<1>3. PICK c \in [Targets \cup {"work"} -> [Cells -> Data]], h \in {"none", "valid"} :
        flash = [a \in Areas |->
                  IF a \notin Targets \cup {"work"} THEN BlankImage
                  ELSE [data |-> c[a], q |-> EmptyQueue,
                        hdr |-> IF a = "work" THEN h ELSE "none"]]
  BY DEF Init
<1>4. /\ \A a \in Areas : flash[a].q = EmptyQueue
      /\ flash["spare"].hdr = "none"
      /\ \A a \in Targets \cup {"work"} : flash[a].data \in [Cells -> Data]
  BY <1>3, Blocks DEF BlankImage
<1>5. LogsOK
  BY <1>4, EmptyQueueOK DEF LogsOK, Init
<1>6. ~swap /\ pc = "Off" /\ Rec = NoRec
  BY <1>4, Blocks, EmptyQueueOK DEF Init, Rec
<1>7. ~InCopy /\ \A t : ~PendingFor(t)
  BY <1>4, <1>6, EmptyQueueOK DEF InCopy, PendingFor
<1>8. FlashOK
  <2>1. WorkOK
    BY <1>4, <1>7 DEF WorkOK, Full
  <2>2. PlainOK
    BY <1>4, <1>7 DEF PlainOK, Plain
  <2>3. BootOK
    BY <1>4, <1>6, <1>7 DEF BootOK, BootArea, Full
  <2> QED
    BY <2>1, <2>2, <2>3 DEF FlashOK
<1>9. Phases
  BY <1>6 DEF Phases, AllocPhase, SavingPhase, ReclaimPhase, FlushPhase, BootPhase, RecordPhase,
     ErasingPhase, AbortPhase, StartedPhase, FlushLabels, BootLabels, ErasingLabels, StartedLabels
<1>10. Unwritten
  BY <1>6 DEF Unwritten, UnfinishedLabels
<1> QED
  BY <1>1, <1>2, <1>5, <1>8, <1>9, <1>10 DEF Sound

\* Every step keeps the invariant, and readers see no change or one write.
LEMMA SoundNext ==
  ASSUME OnlyWholeRecords, Sound, AllocationFits, [Next]_vars
  PROVE  Sound' /\ (Same \/ OneWrite)
<1>1. CASE Next
  <2>1. Kept
    BY <1>1, ReclaimCopies, ReclaimSwitches, ReclaimReturns, FlushFirst, FlushRewrites, FlushEnds,
       BootRewrites, BootEnds, RecordStarts, TargetReached, RecordEnds, RecordCompletes,
       AllocateKept, WriteBegins, WriteSaves, WriteCommits, WriteReturns, RestartKept, AbortKept,
       GetLastWriteKept, RefreshKept, InitKept, EnvironmentKept DEF Next, DriverStep
  <2>2. ControlOK'
    BY <1>1, ControlNext
  <2>3. TypeOK' /\ CallOK' /\ HeaderKept'
    BY <1>1, TypeNext, CallNext, HeaderNext DEF Sound
  <2> QED
    BY <2>1, <2>2, <2>3 DEF Kept, Sound
<1>2. CASE UNCHANGED vars
  <2>1. TypeOK' /\ CallOK' /\ HeaderKept'
    BY <1>2 DEF Sound, vars, TypeOK, FlashType, ControlType, CallOK, HeaderKept, Refreshed,
       NeedsReclaim, Work
  <2>2. ControlOK' /\ LogsOK'
    BY <1>2 DEF Sound, vars, ControlOK, LogsOK
  <2>3. FlashOK' /\ Same
    BY <1>2, FrameNone DEF Sound, vars
  <2>4. InPlace' = InPlace /\ InCopy' = InCopy /\ Rec' = Rec
    BY <1>2 DEF vars, InPlace, InCopy, Rec
  <2>5. Phases'
    <3>1. AllocPhase' /\ SavingPhase' /\ ReclaimPhase'
      BY <1>2, <2>4 DEF Sound, Phases, AllocPhase, SavingPhase, ReclaimPhase, WorkIdle,
         NothingPending, DataIn, vars
    <3>2. FlushPhase' /\ BootPhase' /\ RecordPhase'
      BY <1>2, <2>4 DEF Sound, Phases, FlushPhase, BootPhase, RecordPhase, PendingFor, Settled,
         CopiedRecord, SpareHasData, WorkIdle, NothingPending, DataIn, vars
    <3>3. ErasingPhase' /\ AbortPhase' /\ StartedPhase'
      BY <1>2, <2>4 DEF Sound, Phases, ErasingPhase, AbortPhase, StartedPhase, WorkIdle,
         NothingPending, Settled, PendingFor, vars
    <3> QED
      BY <3>1, <3>2, <3>3 DEF Phases
  <2>6. Unwritten'
    BY <1>2, <2>4 DEF Sound, Unwritten, Unfinished, vars
  <2> QED
    BY <2>1, <2>2, <2>3, <2>5, <2>6 DEF Sound
<1> QED
  BY <1>1, <1>2

----------------------------------------------------------------------------
(* A caller that keeps to AllocationFits: one write at a time, without     *)
(* private data, which is all that FtwWrite allocates by itself.           *)

SingleArg == arg.n \in {0, 1} /\ arg.p = 0

LEMMA SingleReturns ==
  ASSUME SingleArg
  PROVE  /\ Return => SingleArg'
         /\ \A l : Continue(l) => SingleArg'
         /\ UNCHANGED arg => SingleArg'
<1>1. Return => SingleArg'
  BY DEF Return, SingleArg, NoArg
<1>2. UNCHANGED arg => SingleArg'
  BY DEF SingleArg
<1> QED
  BY <1>1, <1>2 DEF Continue, locals

LEMMA SingleNext ==
  ASSUME TypeOK, SingleArg, Next, \A a \in Allocs : a = <<1, 0>>
  PROVE  SingleArg'
<1>0. arg \in Arguments
  BY DEF TypeOK, ControlType
<1>1. CASE RefreshReclaims \/ RefreshAborts
  BY <1>1, SingleReturns DEF RefreshReclaims, RefreshAborts
<1>2. CASE ReclaimErase \/ ReclaimProgram \/ ReclaimValid \/ ReclaimInvalid
           \/ ReclaimRestore \/ ReclaimRestored
  BY <1>2, SingleReturns DEF ReclaimErase, ReclaimProgram, ReclaimValid, ReclaimInvalid,
     ReclaimRestore, ReclaimRestored, Step, locals
<1>3. CASE FlushValid \/ FlushInvalid \/ FlushErase \/ FlushProgram \/ FlushDone
  BY <1>3, SingleReturns DEF FlushValid, FlushInvalid, FlushErase, FlushProgram, FlushDone,
     Step, locals
<1>4. CASE BootSwap \/ BootErase \/ BootProgram \/ BootUnswap
  BY <1>4, SingleReturns DEF BootSwap, BootErase, BootProgram, BootUnswap, Step, locals
<1>5. CASE RecordFlush \/ TargetProgram \/ RecordDest \/ RecordComplete
  BY <1>5, SingleReturns DEF RecordFlush, TargetProgram, RecordDest, RecordComplete, Step, locals
<1>6. CASE Allocate \/ AllocateHeader \/ AllocateWrites
  BY <1>6, SingleReturns DEF Allocate, AllocateHeader, AllocateWrites, Step, locals
<1>7. CASE WriteStart
  <2>1. CASE arg' = [arg EXCEPT !.n = 1, !.p = 0]
    BY <1>0, <2>1 DEF SingleArg, Arguments
  <2>2. CASE arg' # [arg EXCEPT !.n = 1, !.p = 0]
    BY <1>7, <2>2, SingleReturns DEF WriteStart
  <2> QED
    BY <2>1, <2>2
<1>8. CASE WriteRecord \/ WriteErase \/ WriteProgram \/ WriteSpare \/ WriteRestore \/ WriteRestored
  BY <1>8, SingleReturns DEF WriteRecord, WriteErase, WriteProgram, WriteBuffer, WriteSpare,
     WriteRestore, WriteRestored, Step, locals
<1>9. CASE Restart \/ RestartErase \/ RestartErased
  <2>1. ASSUME NEW t, NEW hi, arg' = [NoArg EXCEPT !.t = t, !.hi = hi] PROVE SingleArg'
    BY <2>1 DEF SingleArg, NoArg
  <2> QED
    BY <1>9, <2>1, SingleReturns DEF Restart, RestartErase, RestartErased, Step, locals
<1>10. CASE Abort \/ GetLastWrite
  BY <1>10, SingleReturns DEF Abort, GetLastWrite, locals
<1>11. CASE InitWorkSpace \/ InitFirst \/ InitLast \/ InitTrail \/ InitRestart
  BY <1>11, SingleReturns DEF InitWorkSpace, InitFirst, InitLast, InitAbort, InitTrail, InitRestart
<1>12. CASE Request
  <2>1. CASE CallAllocate
    <3>1. PICK a \in Allocs : arg' = [NoArg EXCEPT !.n = a[1], !.p = a[2]]
      BY <2>1 DEF CallAllocate, Call
    <3>2. a[1] = 1 /\ a[2] = 0
      <4>1. a = <<1, 0>>
        OBVIOUS
      <4> QED
        BY <4>1
    <3> QED
      BY <3>1, <3>2 DEF SingleArg, NoArg
  <2>2. CASE CallWrite
    <3>1. ASSUME NEW t, NEW lo, NEW hi, NEW d, NEW priv,
                 Call("Write", [t |-> t, lo |-> lo, hi |-> hi, d |-> d, priv |-> priv,
                                n |-> 0, p |-> 0])
          PROVE  SingleArg'
      BY <3>1 DEF Call, SingleArg
    <3> QED
      BY <2>2, <3>1 DEF CallWrite
  <2>3. CASE CallRestart \/ CallAbort \/ CallGetLastWrite
    BY <2>3 DEF CallRestart, CallAbort, CallGetLastWrite, Call, SingleArg, NoArg
  <2> QED
    BY <1>12, <2>1, <2>2, <2>3 DEF Request
<1>13. CASE FvbError
  BY <1>13, SingleReturns DEF FvbError
<1>14. CASE PowerLoss \/ PowerOn
  BY <1>14 DEF PowerLoss, PowerOn, SingleArg, NoArg
<1> QED
  BY <1>1, <1>2, <1>3, <1>4, <1>5, <1>6, <1>7, <1>8, <1>9, <1>10, <1>11, <1>12, <1>13, <1>14
  DEF Next, DriverStep

\* Where every allocation is of one write without private data, FtwAllocate
\* never reclaims: WorkSpaceRefresh has made room for exactly that much.  So
\* the theorems below need nothing of such callers.
THEOREM SingleAllocationsFit ==
  (\A a \in Allocs : a = <<1, 0>>) /\ Spec => []AllocationFits
<1> SUFFICES ASSUME \A a \in Allocs : a = <<1, 0>>
             PROVE  Spec => []AllocationFits
  OBVIOUS
<1> DEFINE Single == TypeOK /\ CallOK /\ SingleArg
<1>1. Init => Single
  <2>1. Init => SingleArg
    BY DEF Init, SingleArg, NoArg
  <2> QED
    BY <2>1, TypeInit, CallInit
<1>2. Single /\ [Next]_vars => Single'
  <2>1. CASE Next
    BY <2>1, SingleNext, CallNext, TypeNext
  <2>2. CASE UNCHANGED vars
    BY <2>2 DEF vars, TypeOK, FlashType, ControlType, CallOK, SingleArg
  <2> QED
    BY <2>1, <2>2
<1>3. Single => AllocationFits
  <2> SUFFICES ASSUME Single, Refreshed
               PROVE  LastWrite.off + WriteTotalSize(arg.n, arg.p) <= WsSize
    BY DEF AllocationFits
  <2>1. LastWrite.off = Work.q.off /\ Work.q.off \in Nat
    BY LastWriteOffset, AreaTypes DEF TypeOK, Queue
  <2>2. WsSize - LastWrite.off >= 80
    BY <2>1, WsSizeAssumption
    DEF Refreshed, NeedsReclaim, WriteTotalSize, WriteHeaderSize, RecordSize
  <2>3. WriteTotalSize(arg.n, arg.p) \in {40, 80}
    BY DEF SingleArg, WriteTotalSize, WriteHeaderSize, RecordSize
  <2> QED
    BY <2>1, <2>2, <2>3, WsSizeAssumption
<1> QED
  BY <1>1, <1>2, <1>3, PTL DEF Spec
----------------------------------------------------------------------------
(* The theorems. *)

\* What FaultTolerantWritePei reads is what the blocks say.
LEMMA ContentIsSeen ==
  ASSUME Sound, NEW t \in Targets
  PROVE  Content(t) = Seen(t)
<1>0. FlashType /\ LogsOK /\ FlashOK
  BY SoundFacts
<1>1. /\ Work = flash["work"] /\ LastWrite = flash["work"].q
      /\ (IsValidWorkSpace(Work) <=> InPlace)
  BY <1>0, LogReads
<1>2. \A a \in Areas : flash[a].data \in [Cells -> Data \cup {Torn}]
  BY <1>0 DEF FlashType, Image
<1>3. CASE t = "boot"
  BY <1>3 DEF Content, Seen
<1>4. CASE t # "boot" /\ ~InPlace
  <2>1. ~swap
    BY <1>0, <1>4, Unswapped DEF NothingPending
  <2>2. Spare = flash["spare"]
    BY <2>1, SpareIsSpare
  <2>3. WorkInSpare <=> InCopy
    BY <1>1, <1>4, <2>2 DEF WorkInSpare, InCopy, InPlace, IsValidWorkSpace
  <2>4. ~Pending /\ ~PendingFor(t)
    BY <1>1, <1>4 DEF Pending, PendingFor
  <2>5. flash[t].data = [u \in Cells |-> flash[t].data[u]]
    BY <1>2, Blocks
  <2> QED
    BY <1>4, <2>2, <2>3, <2>4, <2>5 DEF Content, Seen
<1>5. CASE t # "boot" /\ InPlace
  <2>1. ~WorkInSpare /\ ~InCopy
    BY <1>1, <1>5 DEF WorkInSpare, InCopy, InPlace
  <2>2. Pending /\ LastWrite.rec.t = t <=> PendingFor(t)
    BY <1>1, <1>5 DEF Pending, PendingFor, Rec
  <2>3. LastWrite.rec = Rec
    BY <1>1 DEF Rec
  <2>4. CASE PendingFor(t)
    <3>1. Spare = flash["spare"]
      BY <1>0, <1>5, <2>4, Unswapped, SpareIsSpare
    <3>2. Content(t) = [u \in Cells |-> IF u <= Rec.hi THEN flash["spare"].data[u]
                                                       ELSE flash[t].data[u]]
      BY <1>5, <2>1, <2>2, <2>3, <2>4, <3>1 DEF Content
    <3>3. CASE t = "work"
      <4>1. Rec.hi = DU
        BY <1>0, <2>4, <3>3, PendingTarget
      <4>2. \A u \in Cells : u <= Rec.hi
        BY <4>1, DUAssumption DEF Cells
      <4>3. Content(t) = [u \in Cells |-> flash["spare"].data[u]]
        BY <3>2, <4>2
      <4> QED
        BY <1>2, <2>4, <3>3, <4>3, Blocks DEF Seen
    <3>4. CASE t # "work"
      BY <1>5, <2>4, <3>2, <3>4 DEF Seen
    <3> QED
      BY <3>3, <3>4
  <2>5. CASE ~PendingFor(t)
    <3>1. Content(t) = flash[t].data
      BY <1>5, <2>1, <2>2, <2>5 DEF Content
    <3>2. flash[t].data = [u \in Cells |-> flash[t].data[u]]
      BY <1>2, Blocks
    <3> QED
      BY <1>5, <2>1, <2>5, <3>1, <3>2 DEF Seen
  <2> QED
    BY <2>4, <2>5
<1> QED
  BY <1>3, <1>4, <1>5

\* Every block that readers find is whole.
LEMMA SeenIsWhole ==
  ASSUME Sound, NEW t \in Targets
  PROVE  Seen(t) \in [Cells -> Data]
<1>0. FlashOK
  BY SoundFacts
<1>1. CASE t = "boot"
  BY <1>0, <1>1 DEF FlashOK, BootOK, Full, Seen
<1>2. CASE t = "work"
  BY <1>0, <1>2 DEF FlashOK, WorkOK, Full, Seen
<1>3. CASE t \in Plain
  <2>1. \A u \in Cells : (IF PendingFor(t) /\ u <= Rec.hi THEN flash["spare"].data[u]
                                                         ELSE flash[t].data[u]) \in Data
    BY <1>0, <1>3 DEF FlashOK, PlainOK
  <2> QED
    BY <1>3, <2>1 DEF Seen, Plain
<1> QED
  BY <1>1, <1>2, <1>3 DEF Plain

Contents == [t \in Targets |-> Content(t)]

LEMMA ContentsAreView ==
  ASSUME Sound
  PROVE  Contents = View /\ View \in [Targets -> [Cells -> Data]]
BY ContentIsSeen, SeenIsWhole DEF Contents, View

\* FtwReclaimWorkSpace and FtwWrite share one spare block: neither erases it
\* while it is the only complete copy of a target, whatever the targets, the
\* blocks and the allocations.
THEOREM SpareIsReserved ==
  OnlyWholeRecords /\ Spec /\ []AllocationFits => []SpareNotReused
<1> SUFFICES ASSUME OnlyWholeRecords
             PROVE  Spec /\ []AllocationFits => []SpareNotReused
  OBVIOUS
<1>1. Sound /\ AllocationFits /\ [Next]_vars => Sound'
  BY SoundNext
<1>2. Sound => SpareNotReused
  <2> SUFFICES ASSUME Sound PROVE SpareNotReused
    OBVIOUS
  <2>1. Pending <=> ~NothingPending
    BY SoundFacts, LogReads
  <2> QED
    BY <2>1 DEF Sound, Phases, SpareNotReused, ReclaimPhase, SavingPhase, ErasingPhase,
       ErasingLabels, WorkIdle
<1> QED
  BY <1>1, <1>2, SoundInit, PTL DEF Spec

\* When FtwWrite is about to return EFI_SUCCESS, the caller's data is in the
\* target block and no restart is asked for.
THEOREM SuccessMeansWritten ==
  OnlyWholeRecords /\ Spec /\ []AllocationFits => []WrittenOnSuccess
<1> SUFFICES ASSUME OnlyWholeRecords
             PROVE  Spec /\ []AllocationFits => []WrittenOnSuccess
  OBVIOUS
<1>1. Sound /\ AllocationFits /\ [Next]_vars => Sound'
  BY SoundNext
<1>2. Sound => WrittenOnSuccess
  <2> SUFFICES ASSUME Sound, pc \in {"Write.restore", "Write.restored"}
               PROVE  ~Pending /\ \A u \in arg.lo .. arg.hi : flash[AreaOf(arg.t)].data[u] = arg.d
    BY DEF WrittenOnSuccess
  <2>1. Pending <=> ~NothingPending
    BY SoundFacts, LogReads
  <2>2. WorkIdle /\ DataIn(arg.t)
    BY DEF Sound, Phases, SavingPhase
  <2>3. AreaOf(arg.t) = arg.t
    BY <2>2, SpareIsSpare DEF AreaOf, WorkIdle
  <2> QED
    BY <2>1, <2>2, <2>3 DEF WorkIdle, DataIn
<1> QED
  BY <1>1, <1>2, SoundInit, PTL DEF Spec

\* Once there is a valid workspace there always is one, in the working block
\* or in the spare block: no reclaim, flush or power loss loses both.
THEOREM WorkSpaceIsNeverLost ==
  OnlyWholeRecords /\ Spec /\ []AllocationFits => WorkSpaceSurvives
<1> SUFFICES ASSUME OnlyWholeRecords
             PROVE  Spec /\ []AllocationFits => WorkSpaceSurvives
  OBVIOUS
<1> DEFINE Some == IsValidWorkSpace(Work) \/ IsValidWorkSpace(Spare)
<1>1. Sound /\ AllocationFits /\ [Next]_vars => Sound'
  BY SoundNext
<1>2. ASSUME Sound, Sound', Lasting PROVE Some => Some'
  <2>1. Some => InPlace \/ InCopy
    BY <1>2, SpareIsSpare
    DEF Sound, FlashOK, BootOK, PendingFor, InPlace, InCopy, IsValidWorkSpace, Work
  <2>2. InPlace' => Some'
    BY DEF InPlace, IsValidWorkSpace, Work
  <2>3. InCopy' => Some'
    <3> HAVE InCopy'
    <3>1. ~swap'
      BY <1>2 DEF Sound, FlashOK, BootOK, PendingFor, InPlace, InCopy
    <3> QED
      BY <3>1 DEF InCopy, IsValidWorkSpace, Spare, SpareArea
  <2> QED
    BY <1>2, <2>1, <2>2, <2>3 DEF Lasting
<1>3. Sound /\ AllocationFits /\ [Next]_vars => [Some => Some']_vars
  BY <1>2, SoundNext DEF Same, OneWrite
<1> QED
  BY <1>1, <1>3, SoundInit, PTL DEF Spec, WorkSpaceSurvives

\* After FtwAllocate has answered, its writes are there for FtwWrite, if it has
\* not had to reclaim the workspace.
LEMMA FittingIsVisible ==
  OnlyWholeRecords /\ Spec /\ []AllocationFits => AllocateVisible
<1> SUFFICES ASSUME OnlyWholeRecords
             PROVE  Spec /\ []AllocationFits => AllocateVisible
  OBVIOUS
<1>1. Sound /\ AllocationFits /\ [Next]_vars => Sound'
  BY SoundNext
<1>2. ASSUME Sound, Sound', AllocateWrites
      PROVE  LastWrite'.alloc = "writes"
  <2> DEFINE r == [flash["work"].q EXCEPT !.alloc = IF @ = "header" THEN "writes" ELSE @]
  <2>1. pc = "Allocate.writes" /\ swap' = swap /\ Update("work", [Work EXCEPT !.q = r])
    BY <1>2 DEF AllocateWrites, Work
  <2>2. flash["work"].q.alloc = "header" /\ flash["work"].q \in Queue
    BY <1>2, <2>1, SoundFacts, LogReads DEF Sound, Phases, AllocPhase
  <2>3. r.alloc = "writes"
    BY <2>2 DEF Queue
  <2> HIDE DEF r
  <2>4. flash'["work"].q = r
    BY <1>2, <2>1, SoundFacts, LogWritten
  <2>5. flash'["work"].q \in Queue /\ QueueOK(flash'["work"].q)
    BY <1>2, Blocks DEF Sound, TypeOK, FlashType, Image, LogsOK
  <2>6. FtwGetLastWriteHeader(flash'["work"].q) = flash'["work"].q
    BY <2>5, LastIsEnd
  <2> QED
    BY <2>3, <2>4, <2>6 DEF LastWrite, Work
<1>3. Sound /\ AllocationFits /\ [Next]_vars
        => [pc = "Allocate.writes" /\ AllocateWrites => LastWrite'.alloc = "writes"]_vars
  BY <1>1, <1>2
<1> QED
  BY <1>1, <1>3, SoundInit, PTL DEF Spec, AllocateVisible

\* The driver implements atomic block writes: whatever is interrupted when,
\* and however often, the contents of the targets change by whole writes only.
THEOREM WritesAreAtomic ==
  OnlyWholeRecords /\ Spec /\ []AllocationFits => AtomicWrites
<1> SUFFICES ASSUME OnlyWholeRecords
             PROVE  Spec /\ []AllocationFits => AtomicWrites
  OBVIOUS
<1>1. Sound /\ AllocationFits /\ [Next]_vars => Sound'
  BY SoundNext
<1>2. Sound => Atomic!Init
  BY ContentsAreView DEF Atomic!Init, Contents, Cells
<1>3. Sound => Contents = View
  BY ContentsAreView
<1>4. ASSUME Contents = View, (Contents = View)', Same \/ OneWrite
      PROVE  [Atomic!Next]_Contents
  <2>1. CASE Same
    BY <1>4, <2>1 DEF Same, View
  <2>2. CASE OneWrite
    <3>1. PICK t \in Targets, lo \in Cells, hi \in Cells, d \in Data :
            View' = [View EXCEPT ![t] = [u \in Cells |-> IF u \in lo .. hi THEN d ELSE @[u]]]
      BY <2>2 DEF OneWrite
    <3>2. Contents' = [Contents EXCEPT ![t] = [u \in 1 .. DU |-> IF u \in lo .. hi THEN d ELSE @[u]]]
      BY <1>4, <3>1 DEF Cells
    <3>3. Atomic!Write(t, lo, hi, d)
      BY <3>2 DEF Atomic!Write, Contents
    <3>4. lo \in 1 .. DU /\ hi \in 1 .. DU
      BY DEF Cells
    <3> QED
      BY ONLY <3>3, <3>4, t \in Targets, d \in Data DEF Atomic!Next
  <2> QED
    BY <1>4, <2>1, <2>2
<1>5. Sound /\ AllocationFits /\ [Next]_vars /\ Contents = View /\ (Contents = View)'
        => [Atomic!Next]_Contents
  BY <1>4, SoundNext
<1> QED
  BY <1>1, <1>2, <1>3, <1>5, SoundInit, PTL DEF Spec, AtomicWrites, Atomic!Spec, Contents

\* No reader meets a torn block, at whatever step power has failed.
THEOREM NoBlockIsTorn ==
  OnlyWholeRecords /\ Spec /\ []AllocationFits => []NothingTorn
<1> SUFFICES ASSUME OnlyWholeRecords
             PROVE  Spec /\ []AllocationFits => []NothingTorn
  OBVIOUS
<1>1. Sound /\ AllocationFits /\ [Next]_vars => Sound'
  BY SoundNext
<1>2. Sound => NothingTorn
  BY ContentIsSeen, SeenIsWhole DEF NothingTorn
<1> QED
  BY <1>1, <1>2, SoundInit, PTL DEF Spec

\* The form for callers like the variable driver, which let FtwWrite allocate:
\* nothing is assumed but the device and that its FVB is there at the start.
THEOREM SingleWritesAreAtomic ==
  /\ \A a \in Allocs : a = <<1, 0>>
  /\ ~FvbMissing /\ (Overwrite \/ ~FvbErrors)
  => (Spec => AtomicWrites)
<1> SUFFICES ASSUME \A a \in Allocs : a = <<1, 0>>, ~FvbMissing, Overwrite \/ ~FvbErrors
             PROVE  Spec => AtomicWrites
  OBVIOUS
<1>1. \A a \in Allocs : a[1] = 1
  OBVIOUS
<1>2. OnlyWholeRecords
  BY <1>1 DEF OnlyWholeRecords
<1>3. Spec => []AllocationFits
  BY SingleAllocationsFit
<1>4. Spec /\ []AllocationFits => AtomicWrites
  BY <1>2, WritesAreAtomic
<1> QED
  BY <1>3, <1>4, PTL

\* After FtwAllocate has answered, its writes are what FtwWrite finds, for the
\* same callers.  That FtwAllocate never reclaims between computing its offset
\* and using it is no assumption here: it follows from the room that
\* WorkSpaceRefresh keeps behind the log, whatever failed before.
THEOREM AllocationsAreVisible ==
  /\ \A a \in Allocs : a = <<1, 0>>
  /\ ~FvbMissing /\ (Overwrite \/ ~FvbErrors)
  => (Spec => AllocateVisible)
<1> SUFFICES ASSUME \A a \in Allocs : a = <<1, 0>>, ~FvbMissing, Overwrite \/ ~FvbErrors
             PROVE  Spec => AllocateVisible
  OBVIOUS
<1>1. \A a \in Allocs : a[1] = 1
  OBVIOUS
<1>2. OnlyWholeRecords
  BY <1>1 DEF OnlyWholeRecords
<1>3. Spec => []AllocationFits
  BY SingleAllocationsFit
<1>4. Spec /\ []AllocationFits => AllocateVisible
  BY <1>2, FittingIsVisible
<1> QED
  BY <1>3, <1>4, PTL
=============================================================================
