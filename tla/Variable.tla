------------------------------ MODULE Variable ------------------------------
(***************************************************************************)
(* The non-volatile store of the variable driver                           *)
(* (MdeModulePkg/Universal/Variable/RuntimeDxe).                           *)
(*                                                                         *)
(* Variables are records appended to a flash region that can only be       *)
(* programmed, not rewritten: a record is written with an erased State,    *)
(* made valid by a second write, and invalidated by clearing bits of its   *)
(* State.  An update marks the old record IN_DELETED_TRANSITION, appends   *)
(* the new one and then deletes the old one, so that power loss at any     *)
(* point leaves a record to be found.  Deleted records are squeezed out by *)
(* Reclaim, which writes the whole region through the fault tolerant write *)
(* protocol.  Reads and decisions use a copy of the region in memory.      *)
(*                                                                         *)
(* A step is one operation on the flash with the deciding before it; power *)
(* can fail, and the flash can report an error, at each.  The fault        *)
(* tolerant write is taken by what module FtwAtomic says of it.            *)
(***************************************************************************)
EXTENDS Integers, FiniteSets, FiniteSetsExt, Sequences

CONSTANTS
  Names,           (* the non-volatile variables                           *)
  HwErr,           (* those with EFI_VARIABLE_HARDWARE_ERROR_RECORD        *)
  Contents,        (* [Names -> SUBSET ...]: the contents it may be given  *)
  Deleted,         (* the content of a variable that does not exist        *)
  Torn,            (* what is left where two records were programmed       *)
  Size,            (* [Names -> Nat]: HEADER_ALIGN of a record's size      *)
  HeaderSize,      (* that of its header alone                             *)
  CommonSpace,     (* CommonVariableSpace                                  *)
  RuntimeSpace,    (* CommonRuntimeVariableSpace                           *)
  HwErrSpace,      (* PcdHwErrStorageSize                                  *)
  MaxVariableSize, (* PcdMaxVariableSize                                   *)
  MaxErrors        (* bound on the errors the flash reports                *)

ASSUME NamesAssumption == HwErr \subseteq Names /\ Torn \notin Names
ASSUME ContentsAssumption ==
  /\ DOMAIN Contents = Names
  /\ \A n \in Names : Deleted \notin Contents[n] /\ Torn \notin Contents[n]
  /\ Torn # Deleted
ASSUME SizeAssumption ==
  /\ HeaderSize \in Nat \ {0}
  /\ Size \in [Names -> Nat] /\ \A n \in Names : HeaderSize < Size[n]
ASSUME SpaceAssumption ==
  /\ {CommonSpace, HwErrSpace} \subseteq Nat /\ MaxVariableSize \in Nat \ {0}
  /\ RuntimeSpace \in 0 .. CommonSpace
ASSUME ErrorsAssumption == MaxErrors \in Nat

Values == UNION {Contents[n] : n \in Names}
NoRequest == [name |-> Torn, val |-> Deleted]

VARIABLES
  nv,                  (* the records in flash, a State not yet set too    *)
  pending,             (* an image a failed fault tolerant write left in   *)
                       (* the spare block: no element, or one              *)
  cache,               (* the records of mNvVariableCache; the end of the  *)
                       (* last one is NonVolatileLastVariableOffset        *)
  commonTotal,         (* CommonVariableTotalSize                          *)
  hwTotal,             (* HwErrVariableTotalSize                           *)
  atRuntime,           (* AtRuntime ()                                     *)
  reclaimedAtRuntime,  (* mReclaimedAtRuntime                              *)
  reclaimedForOS,      (* ReclaimForOS's Reclaimed                         *)
  pc,                  (* the next flash operation of the request          *)
  req,                 (* the request: a name and the content to give it   *)
  curr, inDel,         (* CurrPtr and InDeletedTransitionPtr, 0 for NULL   *)
  status,              (* what SetVariable is about to return              *)
  writeFailed,         (* has the flash failed a write in this boot        *)
  ftwFailed,           (* has a fault tolerant write ever failed           *)
  errors               (* the errors the flash has reported                *)

vars == <<nv, pending, cache, commonTotal, hwTotal, atRuntime, reclaimedAtRuntime,
          reclaimedForOS, pc, req, curr, inDel, status, writeFailed, ftwFailed, errors>>
boot == <<atRuntime, reclaimedAtRuntime, reclaimedForOS>>

----------------------------------------------------------------------------
(* The records of a store.                                                 *)

Record(n, v, st) == [name |-> n, val |-> v, state |-> st]

\* A record whose State is erased is a valid header to IsValidVariableHeader,
\* but NameSizeOfVariable and DataSizeOfVariable take it to have neither name
\* nor data: it is as long as its header, and what GetNextVariablePtr finds
\* behind it is its name.
Stub(r) == r.state = "erased"
RecordSize(r) == IF Stub(r) THEN HeaderSize ELSE Size[r.name]

\* A walk over the records ends at the name of such a record, whatever has been
\* programmed over it, and where two headers were programmed in one place.
EndsWalk(s, i) == s[i].name = Torn /\ (~Stub(s[i]) \/ (i > 1 /\ Stub(s[i - 1])))
Walk(s) ==
  LET ends == {i \in DOMAIN s : EndsWalk(s, i)}
  IN  IF ends = {} THEN s ELSE SubSeq(s, 1, Min(ends) - 1)

\* The last record of s has no State: its name is where the next one would go.
EndsInStub(s) == s # << >> /\ Stub(s[Len(s)])

\* The positions of the records of variable n in state st.
Positions(s, n, st) == {i \in DOMAIN s : s[i].name = n /\ s[i].state = st}

\* FindVariableEx: CurrPtr and InDeletedTransitionPtr for variable n.
Find(s, n) ==
  LET added == Positions(s, n, "added")
      trans == Positions(s, n, "inDeletedTransition")
      prior == {i \in trans : \A j \in added : i < j}
  IN  IF added # {}
      THEN [curr |-> Min(added), inDel |-> IF prior = {} THEN 0 ELSE Max(prior)]
      ELSE [curr |-> IF trans = {} THEN 0 ELSE Max(trans), inDel |-> 0]

\* The content of every variable, as a reader of store s finds it.
View(s) ==
  LET w == Walk(s)
  IN  [n \in Names |-> LET c == Find(w, n).curr IN IF c = 0 THEN Deleted ELSE w[c].val]

\* The size of the records of s at positions I.
TotalSize(s, I) ==
  LET upTo[i \in 0 .. Len(s)] ==
        IF i = 0 THEN 0 ELSE upTo[i - 1] + (IF i \in I THEN RecordSize(s[i]) ELSE 0)
  IN  upTo[Len(s)]

\* The hardware error records among s, except those in one of the states.
HwErrRecords(s, except) ==
  {i \in DOMAIN s : s[i].name \in HwErr /\ s[i].state \notin except}

\* The totals after the records of s are counted; InitNonVolatileVariableStore
\* charges deleted hardware error records to the common quota, Reclaim does not.
CountTotals(s, except) ==
  /\ hwTotal' = TotalSize(s, HwErrRecords(s, except))
  /\ commonTotal' = TotalSize(s, DOMAIN s \ HwErrRecords(s, except))

----------------------------------------------------------------------------
(* Starting: power on, the read services, the write services.              *)

Init ==
  /\ nv = << >> /\ pending = {} /\ cache = << >>
  /\ commonTotal = 0 /\ hwTotal = 0
  /\ atRuntime = FALSE /\ reclaimedAtRuntime = FALSE /\ reclaimedForOS = FALSE
  /\ pc = "readOnly"
  /\ req = NoRequest
  /\ curr = 0 /\ inDel = 0 /\ status = "none"
  /\ writeFailed = FALSE /\ ftwFailed = FALSE /\ errors = 0

\* Power fails and comes back: the fault tolerant write driver finishes a
\* write it left in the spare block, and InitNonVolatileVariableStore copies
\* and counts what is in flash.
PowerCycle ==
  LET found == IF pending = {} THEN nv ELSE CHOOSE image \in pending : TRUE
  IN  /\ nv' = found /\ pending' = {}
      /\ cache' = Walk(found)
      /\ CountTotals(Walk(found), {"deleted"})
      /\ atRuntime' = FALSE /\ reclaimedAtRuntime' = FALSE /\ reclaimedForOS' = FALSE
      /\ pc' = "readOnly"
      /\ req' = NoRequest /\ curr' = 0 /\ inDel' = 0 /\ status' = "none"
      /\ writeFailed' = FALSE
      /\ UNCHANGED <<ftwFailed, errors>>

----------------------------------------------------------------------------
(* Reclaim: the records worth keeping, written back through FTW.           *)

\* The records of s at positions I, in the order they have in s.
Kth(I, k) == CHOOSE i \in I : Cardinality({j \in I : j <= i}) = k
PickRecords(s, I) ==
  [k \in 1 .. Cardinality(I) |-> [s[Kth(I, k)] EXCEPT !.state = "added"]]

\* Mutant: the old record in transition is not left out.
ReclaimedImageKeepsInDel(updating, updatingInDel, new) ==
  LET s     == Walk(nv)
      added == {i \in DOMAIN s : s[i].state = "added"} \ {updating}
      trans == {i \in DOMAIN s : s[i].state = "inDeletedTransition"} \ {updating}
      promoted == {i \in trans : \A j \in added \cup {k \in trans : k < i} :
                                    s[j].name # s[i].name}
  IN  PickRecords(s, added) \o PickRecords(s, promoted) \o new

\* ADDED records except the one being updated; then, promoted to ADDED, records
\* in transition of which no other copy is in the buffer yet; then the new one.
ReclaimedImage(updating, updatingInDel, new) ==
  LET s     == Walk(nv)
      added == {i \in DOMAIN s : s[i].state = "added"} \ {updating}
      trans == {i \in DOMAIN s : s[i].state = "inDeletedTransition"}
                 \ {updating, updatingInDel}
      promoted == {i \in trans : \A j \in added \cup {k \in trans : k < i} :
                                    s[j].name # s[i].name}
  IN  PickRecords(s, added) \o PickRecords(s, promoted) \o new

\* The space tests Reclaim makes before it installs a new variable.
ReclaimFits(image) ==
  LET hwErr == HwErrRecords(image, {})
  IN  /\ TotalSize(image, DOMAIN image) <= CommonSpace + HwErrSpace
      /\ TotalSize(image, hwErr) <= HwErrSpace
      /\ TotalSize(image, DOMAIN image \ hwErr) <= CommonSpace

\* Mutant: the cache, used as a buffer, is not brought up to date.
FtwVariableSpaceDoneStale(image) ==
  /\ pending = {}
  /\ nv' = image /\ cache' = ReclaimedImage(0, 0, << >>)
  /\ CountTotals(image, {})
  /\ UNCHANGED <<pending, writeFailed, ftwFailed, errors>>

\* FtwVariableSpace succeeds: flash and cache hold the new image.
FtwVariableSpaceDone(image) ==
  /\ pending = {}
  /\ nv' = image /\ cache' = image
  /\ CountTotals(image, {})
  /\ UNCHANGED <<pending, writeFailed, ftwFailed, errors>>

\* It fails: before the spare block was complete, after that (the next start
\* finishes the write), or after the target was written as well.  The totals
\* are counted again from what is in flash.
FtwVariableSpaceFailed(image) ==
  /\ \/ /\ pending = {} /\ errors < MaxErrors /\ errors' = errors + 1
        /\ \/ nv' = nv /\ pending' \in {{}, {image}}
           \/ nv' = image /\ pending' = {image}
     \/ \* FtwWrite is EFI_NOT_READY while a write is in the spare block.
        pending # {} /\ UNCHANGED <<nv, pending, errors>>
  /\ cache' = Walk(nv')
  /\ CountTotals(Walk(nv'), {})
  /\ ftwFailed' = TRUE /\ writeFailed' = TRUE

\* The flash behind NonVolatileLastVariableOffset is erased.
FreeAreaIsFree == Len(nv) = Len(cache) /\ ~EndsInStub(cache)

\* Mutant: the free area is not looked at.
WriteServiceInitializeTrusting ==
  /\ pc = "readOnly" /\ pc' = "idle"
  /\ UNCHANGED <<nv, pending, cache, commonTotal, hwTotal, req, curr, inDel, status,
                 writeFailed, ftwFailed, errors>>
  /\ UNCHANGED boot

\* VariableWriteServiceInitialize: a free area that is not erased calls for a
\* Reclaim.  The write services are installed even if that fails.
WriteServiceInitialize ==
  LET image == ReclaimedImage(0, 0, << >>)
  IN  /\ pc = "readOnly"
      /\ \/ /\ FreeAreaIsFree
            /\ UNCHANGED <<nv, pending, cache, commonTotal, hwTotal, writeFailed, ftwFailed, errors>>
         \/ ~FreeAreaIsFree /\ (FtwVariableSpaceDone(image) \/ FtwVariableSpaceFailed(image))
      /\ pc' = "idle"
      /\ UNCHANGED <<req, curr, inDel, status>> /\ UNCHANGED boot

\* ReclaimForOS, once in a boot, at EndOfDxe or ReadyToBoot.
ReclaimForOS ==
  LET image == ReclaimedImage(0, 0, << >>)
      remaining == RuntimeSpace - commonTotal
  IN  /\ pc = "idle" /\ ~atRuntime /\ ~reclaimedForOS
      /\ reclaimedForOS' = TRUE
      /\ \/ remaining >= MaxVariableSize
            /\ UNCHANGED <<nv, pending, cache, commonTotal, hwTotal, writeFailed, ftwFailed, errors>>
         \/ remaining < MaxVariableSize
            /\ (FtwVariableSpaceDone(image) \/ FtwVariableSpaceFailed(image))
      /\ UNCHANGED <<atRuntime, reclaimedAtRuntime, pc, req, curr, inDel, status>>

\* The operating system takes over; ReadyToBoot was signalled before it loaded.
ExitBootServices ==
  /\ pc = "idle" /\ ~atRuntime /\ reclaimedForOS
  /\ atRuntime' = TRUE
  /\ UNCHANGED <<nv, pending, cache, commonTotal, hwTotal, reclaimedAtRuntime, reclaimedForOS,
                 pc, req, curr, inDel, status, writeFailed, ftwFailed, errors>>

----------------------------------------------------------------------------
(* SetVariable.                                                            *)

\* Mutant: the pointers of the request outlive it.
ReturnKeepsPointers(s) == pc' = "done" /\ status' = s /\ UNCHANGED <<curr, inDel>>

\* Done of UpdateVariable.
Return(s) == pc' = "done" /\ status' = s /\ curr' = 0 /\ inDel' = 0

\* SetVariable returns to its caller.
SetVariableReturn ==
  /\ pc = "done"
  /\ pc' = "idle" /\ req' = NoRequest /\ status' = "none"
  /\ UNCHANGED <<nv, pending, cache, commonTotal, hwTotal, curr, inDel, writeFailed, ftwFailed, errors>>
  /\ UNCHANGED boot

\* The first flash operation of UpdateVariable, for the records found.
FirstOperation(f, v) ==
  CASE f.curr = 0                    -> "add"
    [] f.curr # 0 /\ v # Deleted     -> "mark"
    [] v = Deleted /\ f.inDel # 0    -> "deleteInDel"
    [] OTHER                         -> "deleteCurr"

\* SetVariable up to that operation, or to the end if none is needed.
SetVariable(n, v) ==
  LET f == Find(Walk(cache), n)
      found == f.curr # 0
  IN  /\ pc = "idle"
      /\ req' = [name |-> n, val |-> v]
      /\ \/ ~found /\ v = Deleted /\ Return("notFound")
         \/ found /\ cache[f.curr].val = v /\ Return("success")
         \/ /\ IF found THEN cache[f.curr].val # v ELSE v # Deleted
            /\ pc' = FirstOperation(f, v)
            /\ curr' = f.curr /\ inDel' = f.inDel /\ status' = "none"
      /\ UNCHANGED <<nv, pending, cache, commonTotal, hwTotal, writeFailed, ftwFailed, errors>>
      /\ UNCHANGED boot

\* UpdateVariableStore on the State byte of record i, in flash, then the cache.
\* Nothing looks at the content of a deleted record again.
SetState(i, st) ==
  LET Set(r) == [r EXCEPT !.state = st, !.val = IF st = "deleted" /\ @ # Torn THEN Deleted ELSE @]
  IN  /\ nv' = [nv EXCEPT ![i] = Set(@)]
      /\ cache' = [cache EXCEPT ![i] = Set(@)]

\* Mutant: the common quota is not charged.
DeletedHwErrRecForgotten(i) ==
  LET s == Size[cache[i].name]
  IN  /\ hwTotal' = IF cache[i].name \in HwErr /\ hwTotal > s THEN hwTotal - s ELSE hwTotal
      /\ UNCHANGED commonTotal

\* DeletedHwErrRecToCommonQuota for the record at i.
DeletedHwErrRecToCommonQuota(i) ==
  LET n == cache[i].name
      s == Size[n]
  IN  IF n \in HwErr
      THEN /\ hwTotal' = IF hwTotal > s THEN hwTotal - s ELSE 0
           /\ commonTotal' = commonTotal + s
      ELSE UNCHANGED <<hwTotal, commonTotal>>

\* A write of the request fails and ends it.
RequestFails ==
  /\ errors < MaxErrors /\ errors' = errors + 1
  /\ writeFailed' = TRUE
  /\ Return("deviceError")
  /\ UNCHANGED <<cache, commonTotal, hwTotal>>
WriteFails == RequestFails /\ UNCHANGED nv

\* Mutant: the old record is deleted before the new one is there.
MarkOldDeleted ==
  /\ pc = "mark"
  /\ \/ /\ SetState(curr, "deleted")
        /\ pc' = "add"
        /\ UNCHANGED <<commonTotal, hwTotal, curr, inDel, status, writeFailed, errors>>
     \/ WriteFails
  /\ UNCHANGED <<pending, req, ftwFailed>> /\ UNCHANGED boot

\* The old record becomes IN_DELETED_TRANSITION.
MarkOld ==
  /\ pc = "mark"
  /\ \/ /\ SetState(curr, "inDeletedTransition")
        /\ pc' = "add"
        /\ UNCHANGED <<commonTotal, hwTotal, curr, inDel, status, writeFailed, errors>>
     \/ WriteFails
  /\ UNCHANGED <<pending, req, ftwFailed>> /\ UNCHANGED boot

\* Records are deleted: the one in transition first, then the other.
DeleteInDel ==
  /\ pc \in {"deleteInDel", "retireInDel"}
  /\ \/ /\ SetState(inDel, "deleted")
        /\ DeletedHwErrRecToCommonQuota(inDel)
        /\ pc' = IF pc = "deleteInDel" THEN "deleteCurr" ELSE "retireCurr"
        /\ UNCHANGED <<curr, inDel, status, writeFailed, errors>>
     \/ WriteFails
  /\ UNCHANGED <<pending, req, ftwFailed>> /\ UNCHANGED boot

DeleteCurr ==
  /\ pc \in {"deleteCurr", "retireCurr"}
  /\ \/ /\ SetState(curr, "deleted")
        /\ DeletedHwErrRecToCommonQuota(curr)
        /\ Return("success")
        /\ UNCHANGED <<writeFailed, errors>>
     \/ WriteFails
  /\ UNCHANGED <<pending, req, ftwFailed>> /\ UNCHANGED boot

\* The quotas a new record has to meet.
HwErrOverQuota(s) ==
  s + hwTotal > HwErrSpace \/ s + hwTotal + commonTotal > HwErrSpace + CommonSpace
CommonOverQuota(s) ==
  s + commonTotal > (IF atRuntime THEN RuntimeSpace ELSE CommonSpace)

\* No room, and no Reclaim: hardware error records never cause one, and at
\* runtime there is one in a boot.
OutOfSpace ==
  LET s == Size[req.name]
  IN  /\ pc = "add"
      /\ IF req.name \in HwErr THEN HwErrOverQuota(s)
         ELSE CommonOverQuota(s) /\ atRuntime /\ reclaimedAtRuntime
      /\ Return("outOfResources")
      /\ UNCHANGED <<nv, pending, cache, commonTotal, hwTotal, req, writeFailed, ftwFailed, errors>>
      /\ UNCHANGED boot

\* No room: Reclaim, integrating the new variable.
ReclaimAndAdd ==
  LET image == ReclaimedImage(curr, inDel, <<Record(req.name, req.val, "added")>>)
  IN  /\ pc = "add"
      /\ req.name \notin HwErr /\ CommonOverQuota(Size[req.name])
      /\ ~(atRuntime /\ reclaimedAtRuntime)
      /\ reclaimedAtRuntime' = atRuntime
      /\ \/ ReclaimFits(image) /\ FtwVariableSpaceDone(image) /\ Return("success")
         \/ ReclaimFits(image) /\ FtwVariableSpaceFailed(image) /\ Return("deviceError")
         \/ /\ ~ReclaimFits(image)
            /\ cache' = SubSeq(nv, 1, Len(cache))
            /\ Return("outOfResources")
            /\ UNCHANGED <<nv, pending, commonTotal, hwTotal, writeFailed, ftwFailed, errors>>
      /\ UNCHANGED <<atRuntime, reclaimedForOS, req>>

\* What is in flash once header and data of the request's record, with an
\* erased State, are programmed at NonVolatileLastVariableOffset.  Programming
\* only clears bits: over another record it leaves neither of them, unless they
\* are the same, and over the name of a record without a State no header.
Programmed ==
  LET n == Len(cache)
      new == Record(req.name, req.val, "erased")
      old == nv[n + 1]
  IN  IF Len(nv) > n
      THEN IF old = new THEN nv
           ELSE Append(SubSeq(nv, 1, n),
                       Record(IF old.name = req.name THEN old.name ELSE Torn, Torn, old.state))
      ELSE Append(nv, IF EndsInStub(cache) THEN Record(Torn, Torn, "erased") ELSE new)

\* There is room.  Step 1: header and data of the new record.  If that fails,
\* UpdateVariableStore may have programmed the blocks that come first.
AddStep1 ==
  /\ pc = "add"
  /\ ~(IF req.name \in HwErr THEN HwErrOverQuota(Size[req.name])
       ELSE CommonOverQuota(Size[req.name]))
  /\ \/ /\ nv' = Programmed
        /\ pc' = "setAdded"
        /\ UNCHANGED <<cache, commonTotal, hwTotal, curr, inDel, status, writeFailed, errors>>
     \/ RequestFails /\ nv' = Programmed
     \/ WriteFails
  /\ UNCHANGED <<pending, req, ftwFailed>> /\ UNCHANGED boot

\* Step 2: the State becomes VAR_ADDED; then the cache and the totals follow.
AddStep2 ==
  LET n == Len(cache)
      s == Size[req.name]
  IN  /\ pc = "setAdded"
      /\ \/ /\ nv' = [nv EXCEPT ![n + 1].state = "added"]
            /\ cache' = Append(cache, Record(req.name, req.val, "added"))
            /\ IF req.name \in HwErr
               THEN hwTotal' = hwTotal + s /\ UNCHANGED commonTotal
               ELSE commonTotal' = commonTotal + s /\ UNCHANGED hwTotal
            /\ \/ curr = 0 /\ Return("success")
               \/ /\ curr # 0
                  /\ pc' = IF inDel # 0 THEN "retireInDel" ELSE "retireCurr"
                  /\ UNCHANGED <<curr, inDel, status>>
            /\ UNCHANGED <<writeFailed, errors>>
         \/ WriteFails
      /\ UNCHANGED <<pending, req, ftwFailed>> /\ UNCHANGED boot

Next ==
  \/ PowerCycle
  \/ WriteServiceInitialize
  \/ ReclaimForOS
  \/ ExitBootServices
  \/ \E n \in Names : \E v \in Contents[n] \cup {Deleted} : SetVariable(n, v)
  \/ SetVariableReturn
  \/ MarkOld
  \/ DeleteInDel
  \/ DeleteCurr
  \/ OutOfSpace
  \/ ReclaimAndAdd
  \/ AddStep1
  \/ AddStep2

Spec == Init /\ [][Next]_vars

----------------------------------------------------------------------------
(* Properties.                                                             *)

Records == [name : Names \cup {Torn}, val : Values \cup {Deleted, Torn},
            state : {"erased", "added", "inDeletedTransition", "deleted"}]

\* Every variable has a value of its type, and a request that is under way
\* points at records of the cache.
TypeOK ==
  /\ nv \in Seq(Records) /\ cache \in Seq(Records)
  /\ pending \subseteq Seq(Records) /\ Cardinality(pending) <= 1
  /\ commonTotal \in Nat /\ hwTotal \in Nat /\ errors \in 0 .. MaxErrors
  /\ {atRuntime, reclaimedAtRuntime, reclaimedForOS, writeFailed, ftwFailed} \subseteq BOOLEAN
  /\ pc \in {"readOnly", "idle", "done", "mark", "add", "setAdded", "deleteInDel", "deleteCurr",
             "retireInDel", "retireCurr"}
  /\ req \in [name : Names, val : Values \cup {Deleted}] \cup {NoRequest}
  /\ {curr, inDel} \subseteq DOMAIN cache \cup {0}
  /\ status \in {"none", "success", "notFound", "outOfResources", "deviceError"}

\* No record was programmed over another one.
NothingTorn == \A i \in DOMAIN nv : Torn \notin {nv[i].name, nv[i].val}

\* A variable has one ADDED record and one in transition at most; while a
\* request for it is under way, those are the new record and the ones that
\* its VARIABLE_POINTER_TRACK points at.
RecordsTracked ==
  LET w   == Walk(nv)
      new == IF pc \in {"retireInDel", "retireCurr"} THEN {Len(cache)} ELSE {}
  IN  \A n \in Names :
        LET added == Positions(w, n, "added")
            trans == Positions(w, n, "inDeletedTransition")
        IN  IF n = req.name /\ pc # "done"
            THEN added \cup trans \subseteq {curr, inDel} \cup new
            ELSE Cardinality(added) <= 1 /\ Cardinality(trans) <= 1

\* The store is as UpdateVariable expects it to be.
Orderly == RecordsTracked /\ NothingTorn /\ pending = {}

\* A variable changes in one step, to the content that was asked for, whatever
\* the flash operation at which power fails or an error ends the request: the
\* two-phase update of UpdateVariable, Reclaim and the start after a power
\* loss show every reader the old or the new content and change no other
\* variable.
UpdatesAtomic ==
  [][nv' # nv /\ Orderly =>
       \/ View(nv') = View(nv)
       \/ req # NoRequest /\ View(nv') = [View(nv) EXCEPT ![req.name] = req.val]]_vars

\* When SetVariable returns EFI_SUCCESS the content asked for is in flash, for
\* the next boot to find, and in the cache, for GetVariable.
SuccessIsStored ==
  [][status' = "success" /\ req # NoRequest /\ Orderly =>
       View(nv')[req.name] = req.val /\ View(cache')[req.name] = req.val]_vars

\* FindVariableEx stops at the first ADDED record of a variable: no update,
\* promotion by Reclaim or power loss makes a second one that it would hide.
AddedStaysOne ==
  [][nv' # nv /\ Orderly =>
       \A n \in Names : Cardinality(Positions(Walk(nv'), n, "added")) <= 1]_vars

\* The totals the quotas are tested against are those of the records in the
\* store; hardware error records that are deleted count as common ones; and
\* the store never outgrows its region.  (A Reclaim whose fault tolerant
\* write failed recounts them differently.)
SpaceAccounted ==
  /\ NothingTorn => hwTotal + commonTotal = TotalSize(cache, DOMAIN cache)
  /\ ~ftwFailed /\ NothingTorn =>
       /\ hwTotal = TotalSize(cache, HwErrRecords(cache, {"deleted"}))
       /\ hwTotal <= HwErrSpace
       /\ hwTotal + commonTotal <= CommonSpace + HwErrSpace

\* While no write has failed in this boot, the flash behind the last record is
\* erased when a request begins: a record that power loss left without its
\* State is gone before anything is written there.
FreeAreaErased == pc = "idle" /\ ~writeFailed => FreeAreaIsFree

\* "The firmware has successfully stored the variable and its data as defined by
\* the Attributes" (EFI_SET_VARIABLE, EFI_SUCCESS): the next boot finds it.
StoredOnSuccess == status = "success" => View(nv)[req.name] = req.val

\* The same after a Reclaim has failed, as may happen at the start.
StoredAfterFailedReclaim == ftwFailed => StoredOnSuccess

\* "Setting a data variable with no access, or zero DataSize attributes causes
\* it to be deleted" (UpdateVariable): after a successful deletion the variable
\* is not found.
DeleteDeletes ==
  [][pc = "deleteCurr" /\ status' = "success" => View(nv')[req.name] = Deleted]_vars

\* "This sum should not exceed the PcdFlashNvStorageVariableSize"
\* (DeletedHwErrRecToCommonQuota): the records fit their flash region.
StoreBounded ==
  TotalSize(nv, {i \in DOMAIN nv : nv[i].name # Torn}) <= CommonSpace + HwErrSpace

=============================================================================
