--------------------------- MODULE VariableProofs ---------------------------
(***************************************************************************)
(* Theorems about the variable driver, for any variables, contents and     *)
(* sizes, any store and any number of flash errors: what readers find, the *)
(* types, and the space the driver accounts for.                           *)
(***************************************************************************)
EXTENDS Variable, ListLemmas, FiniteSetTheorems, FunctionTheorems

(***************************************************************************)
(* The inductive invariant.  Where no record was programmed over another   *)
(* the cache is what a walk over the flash finds, or all of it but a       *)
(* record behind the last one that waits for its State.                    *)
(***************************************************************************)
InTransition == "inDeletedTransition"

\* What Reclaim writes, in flash or still in the spare block.
Image(s) == s \in Seq(Records) /\ \A i \in 1 .. Len(s) : s[i].state = "added" /\ s[i].name # Torn

\* What is in flash: nothing is left of a record that was programmed behind one
\* without a State.
Flash(s) ==
  /\ s \in Seq(Records)
  /\ \A i \in 1 .. Len(s) : i < Len(s) /\ Stub(s[i]) => s[i + 1].name = Torn
  /\ \A i \in 1 .. Len(s) : s[i].name = Torn => s[i].val = Torn

\* Behind the first n records of s the walk ends, or there is one more, the last
\* one, without a State.
Rest(s, n) == n < Len(s) => EndsWalk(s, n + 1) \/ (Stub(s[n + 1]) /\ Len(s) = n + 1)

\* Store s, of which c is the copy in memory.
Stored(s, c) ==
  /\ Flash(s) /\ c \in Seq(Records)
  /\ Len(c) <= Len(s)
  /\ \A i \in 1 .. Len(c) : /\ s[i].state = c[i].state
                            /\ s[i] = c[i] \/ s[i].val = Torn
  /\ Rest(s, Len(c))

Scalars ==
  /\ pending = {} \/ \E image : pending = {image} /\ Image(image)
  /\ errors \in 0 .. MaxErrors
  /\ atRuntime \in BOOLEAN /\ reclaimedAtRuntime \in BOOLEAN /\ reclaimedForOS \in BOOLEAN
  /\ writeFailed \in BOOLEAN /\ ftwFailed \in BOOLEAN
  /\ status \in {"none", "success", "notFound", "outOfResources", "deviceError"}

Quiet == {"readOnly", "idle"}
Deleting == {"deleteInDel", "deleteCurr"}
Retiring == {"retireInDel", "retireCurr"}
Writing == {"mark", "add", "setAdded"} \cup Retiring

\* Record i of store c belongs to the request and is in one of the states.
Points(c, i, states) == i \in 1 .. Len(c) /\ c[i].name = req.name /\ c[i].state \in states

\* The request that is under way and the records its pointers track.
Request ==
  /\ pc \in Quiet \cup {"done"} \cup Deleting \cup Writing
  /\ pc \in Quiet => req = NoRequest
  /\ pc \notin Quiet => req.name \in Names /\ req.val \in Contents[req.name] \cup {Deleted}
                        /\ req = [name |-> req.name, val |-> req.val]
  /\ pc \in Quiet \cup {"done"} => curr = 0 /\ inDel = 0
  /\ pc \in Deleting => req.val = Deleted
  /\ pc \in Writing => req.val # Deleted
  /\ pc \in Deleting \cup Retiring \cup {"mark"} => curr # 0
  /\ pc \in {"deleteInDel", "retireInDel"} => inDel # 0
  /\ curr # 0 => Points(cache, curr, {"added", InTransition})
  /\ curr # 0 /\ pc = "deleteInDel" => cache[curr].state = "added"
  /\ curr # 0 /\ pc \in Writing \ {"mark"} => cache[curr].state = InTransition
  /\ inDel # 0 => curr # 0 /\ inDel < curr /\ Points(cache, inDel, {InTransition, "deleted"})
  /\ inDel # 0 => IF pc \in {"deleteCurr", "retireCurr"} THEN cache[inDel].state = "deleted"
                  ELSE cache[inDel].state = InTransition
  /\ curr \in Nat /\ inDel \in Nat
  /\ pc \in Retiring => cache[Len(cache)] = Record(req.name, req.val, "added")
  /\ pc = "setAdded" =>
       /\ Len(nv) = Len(cache) + 1
       /\ nv[Len(nv)] = Record(req.name, req.val, "erased") \/ nv[Len(nv)].val = Torn

Inv == Stored(nv, cache) /\ Scalars /\ Request

----------------------------------------------------------------------------
(* The walk over a store.                                                  *)

\* A walk finds the records in front of the first one that ends it.
LEMMA WalkFinds ==
  ASSUME NEW s \in Seq(Records)
  PROVE  \E n \in 0 .. Len(s) :
           /\ Walk(s) \in Seq(Records) /\ Len(Walk(s)) = n
           /\ \A i \in 1 .. n : Walk(s)[i] = s[i] /\ ~EndsWalk(s, i)
           /\ n < Len(s) => EndsWalk(s, n + 1)
<1> DEFINE ends == {i \in DOMAIN s : EndsWalk(s, i)}
<1>1. DOMAIN s = 1 .. Len(s) /\ Len(s) \in Nat
  OBVIOUS
<1>2. CASE ends = {}
  <2>1. Walk(s) = s
    BY <1>2 DEF Walk
  <2>2. \A i \in 1 .. Len(s) : ~EndsWalk(s, i)
    BY <1>1, <1>2
  <2>3. Len(s) \in 0 .. Len(s) /\ ~(Len(s) < Len(s))
    BY <1>1
  <2> QED
    BY <2>1, <2>2, <2>3
<1>3. CASE ends # {}
  <2> DEFINE m == Min(ends)
  <2>1. Walk(s) = SubSeq(s, 1, m - 1)
    BY <1>3 DEF Walk
  <2>2. ends \subseteq Nat
    BY <1>1
  <2>3. m \in ends /\ \A i \in ends : m <= i
    <3> HIDE DEF ends
    <3> QED
      BY <1>3, <2>2, MinOfSet
  <2>4. m \in 1 .. Len(s) /\ EndsWalk(s, m)
    BY <1>1, <2>3
  <2>5. ASSUME NEW i \in 1 .. m - 1 PROVE ~EndsWalk(s, i)
    <3>1. i \in 1 .. Len(s) /\ ~(m <= i)
      BY <1>1, <2>4
    <3>2. i \notin ends
      BY <2>3, <3>1
    <3> QED
      BY <1>1, <3>1, <3>2
  <2> HIDE DEF m, ends
  <2>6. m - 1 \in 0 .. Len(s) /\ (m - 1) + 1 = m
    BY <1>1, <2>4
  <2>7. /\ Walk(s) \in Seq(Records) /\ Len(Walk(s)) = m - 1
        /\ \A i \in 1 .. m - 1 : Walk(s)[i] = s[i]
    BY <2>1, <2>6, PrefixEntries
  <2> QED
    BY <2>4, <2>5, <2>6, <2>7
<1> QED
  BY <1>2, <1>3

\* That determines the walk.
LEMMA WalkIs ==
  ASSUME NEW s \in Seq(Records), NEW c \in Seq(Records), Len(c) <= Len(s),
         \A i \in 1 .. Len(c) : c[i] = s[i] /\ ~EndsWalk(s, i),
         Len(c) < Len(s) => EndsWalk(s, Len(c) + 1)
  PROVE  Walk(s) = c
<1>1. PICK n \in 0 .. Len(s) :
           /\ Walk(s) \in Seq(Records) /\ Len(Walk(s)) = n
           /\ \A i \in 1 .. n : Walk(s)[i] = s[i] /\ ~EndsWalk(s, i)
           /\ n < Len(s) => EndsWalk(s, n + 1)
  BY WalkFinds
<1>2. Len(c) \in Nat /\ Len(s) \in Nat /\ n \in Nat
  OBVIOUS
<1>3. ~(n < Len(c))
  <2> SUFFICES ASSUME n < Len(c) PROVE FALSE
    OBVIOUS
  <2>1. n + 1 \in 1 .. Len(c) /\ n < Len(s)
    BY <1>2
  <2> QED
    BY <1>1, <2>1
<1>4. ~(Len(c) < n)
  <2> SUFFICES ASSUME Len(c) < n PROVE FALSE
    OBVIOUS
  <2>1. Len(c) + 1 \in 1 .. n /\ Len(c) < Len(s)
    BY <1>2
  <2> QED
    BY <1>1, <2>1
<1>5. n = Len(c)
  BY <1>2, <1>3, <1>4
<1>6. \A i \in 1 .. Len(c) : Walk(s)[i] = c[i]
  BY <1>1, <1>5
<1> QED
  BY <1>1, <1>5, <1>6, SeqEqual

\* The copy of what a walk finds is a copy of the store.
LEMMA WalkIsStored ==
  ASSUME NEW s, Flash(s)
  PROVE  Stored(s, Walk(s))
<1>1. PICK n \in 0 .. Len(s) :
           /\ Walk(s) \in Seq(Records) /\ Len(Walk(s)) = n
           /\ \A i \in 1 .. n : Walk(s)[i] = s[i] /\ ~EndsWalk(s, i)
           /\ n < Len(s) => EndsWalk(s, n + 1)
  BY WalkFinds DEF Flash
<1>2. Len(Walk(s)) <= Len(s) /\ Rest(s, Len(Walk(s)))
  BY <1>1 DEF Rest
<1>3. \A i \in 1 .. Len(Walk(s)) : Walk(s)[i] = s[i]
  BY <1>1
<1> QED
  BY <1>1, <1>2, <1>3 DEF Stored

LEMMA ImageIsStored ==
  ASSUME NEW s, Image(s)
  PROVE  Stored(s, s) /\ Walk(s) = s /\ Stored(s, Walk(s))
<1>1. /\ s \in Seq(Records) /\ Len(s) \in Nat
      /\ \A i \in 1 .. Len(s) : ~Stub(s[i]) /\ s[i].name # Torn
  BY DEF Image, Stub
<1>2. \A i \in 1 .. Len(s) : ~EndsWalk(s, i)
  BY <1>1 DEF EndsWalk
<1>3. Walk(s) = s
  BY <1>1, <1>2, WalkIs
<1>4. Flash(s)
  BY <1>1 DEF Flash
<1> QED
  BY <1>3, <1>4, WalkIsStored

----------------------------------------------------------------------------
(* The records that Reclaim picks.                                         *)

\* Kth enumerates a set of positions.
LEMMA KthEnumerates ==
  ASSUME NEW n \in Nat, NEW I, I \subseteq 1 .. n
  PROVE  /\ IsFiniteSet(I) /\ Cardinality(I) \in Nat
         /\ \A k \in 1 .. Cardinality(I) : Kth(I, k) \in I
         /\ \A i \in I : \E k \in 1 .. Cardinality(I) : Kth(I, k) = i
         /\ \A k, l \in 1 .. Cardinality(I) : Kth(I, k) = Kth(I, l) => k = l
<1> DEFINE Upto(i) == {j \in I : j <= i}
           c == Cardinality(I)
           rank == [i \in I |-> Cardinality(Upto(i))]
<1>1. IsFiniteSet(I) /\ c \in Nat
  <2>1. IsFiniteSet(1 .. n) /\ I \in SUBSET (1 .. n)
    BY FS_Interval
  <2> QED
    BY <2>1, FS_Subset, FS_CardinalityType
<1>2. ASSUME NEW i \in I
      PROVE  IsFiniteSet(Upto(i)) /\ rank[i] = Cardinality(Upto(i)) /\ rank[i] \in 1 .. c
  <2>1. Upto(i) \in SUBSET I /\ i \in Upto(i)
    OBVIOUS
  <2>2. rank[i] = Cardinality(Upto(i))
    OBVIOUS
  <2> HIDE DEF Upto, rank, c
  <2>3. IsFiniteSet(Upto(i)) /\ Cardinality(Upto(i)) <= c
    BY <1>1, <2>1, FS_Subset DEF c
  <2>4. Cardinality(Upto(i)) \in Nat /\ Cardinality(Upto(i)) # 0
    BY <2>1, <2>3, FS_CardinalityType, FS_EmptySet
  <2> QED
    BY <1>1, <2>2, <2>3, <2>4
<1>3. ASSUME NEW i \in I, NEW j \in I, i < j PROVE rank[i] # rank[j]
  <2>1. Upto(i) \in SUBSET Upto(j) /\ j \in Upto(j) /\ j \notin Upto(i)
    <3>1. i \in Nat /\ j \in Nat /\ I \subseteq Nat
      OBVIOUS
    <3>2. \A k \in I : k <= i => k <= j
      BY <1>3, <3>1
    <3>3. j <= j /\ ~(j <= i)
      BY <1>3, <3>1
    <3> QED
      BY <3>2, <3>3
  <2> HIDE DEF Upto
  <2>2. Upto(i) # Upto(j)
    BY <2>1
  <2> QED
    BY <1>2, <2>1, <2>2, FS_Subset
<1>4. rank \in Injection(I, 1 .. c)
  <2>1. rank \in [I -> 1 .. c]
    BY <1>2
  <2>2. \A i, j \in I : i # j => rank[i] # rank[j]
    <3> HIDE DEF rank
    <3>1. \A i, j \in I : i # j => i < j \/ j < i
      OBVIOUS
    <3> QED
      BY <1>3, <3>1
  <2> HIDE DEF rank, c
  <2> QED
    BY <2>1, <2>2, Fun_IsInj
<1>5. IsFiniteSet(1 .. c) /\ Cardinality(1 .. c) = c
  <2> HIDE DEF c
  <2>1. 1 \in Int /\ c \in Int
    BY <1>1
  <2>2. IsFiniteSet(1 .. c) /\ Cardinality(1 .. c) = IF 1 > c THEN 0 ELSE c - 1 + 1
    BY <2>1, FS_Interval
  <2> QED
    BY <1>1, <2>2
<1>6. rank \in Surjection(I, 1 .. c)
  <2> HIDE DEF rank
  <2> QED
    BY <1>4, <1>5, FS_Injection
<1>7. \A k \in 1 .. c : \E i \in I : rank[i] = k
  <2> HIDE DEF rank, c
  <2> QED
    BY <1>6, Fun_SurjectionProperties DEF Surjection
<1>8. \A k \in 1 .. c : Kth(I, k) \in I /\ rank[Kth(I, k)] = k
  <2> TAKE k \in 1 .. c
  <2>1. \E i \in I : Cardinality({j \in I : j <= i}) = k
    BY <1>7
  <2> QED
    BY <2>1 DEF Kth
<1>9. \A i, j \in I : rank[i] = rank[j] => i = j
  <2> HIDE DEF rank
  <2>1. \A i, j \in I : i # j => i < j \/ j < i
    OBVIOUS
  <2> QED
    BY <1>3, <2>1
<1> HIDE DEF rank
<1>10. ASSUME NEW i \in I PROVE \E k \in 1 .. c : Kth(I, k) = i
  <2>1. rank[i] \in 1 .. c
    BY <1>2
  <2> QED
    BY <1>8, <1>9, <2>1
<1>11. \A k, l \in 1 .. c : Kth(I, k) = Kth(I, l) => k = l
  BY <1>8
<1> QED
  BY <1>1, <1>8, <1>10, <1>11

\* Store p is the records of s at positions I, made ADDED.
AsAdded(r) == [r EXCEPT !.state = "added"]
PicksBy(p, s, I, pos) ==
  /\ pos \in [1 .. Len(p) -> I]
  /\ \A i \in I : \E k \in 1 .. Len(p) : pos[k] = i
  /\ \A k, l \in 1 .. Len(p) : pos[k] = pos[l] => k = l
  /\ \A k \in 1 .. Len(p) : p[k] = AsAdded(s[pos[k]])
Picks(p, s, I) == \E pos : PicksBy(p, s, I, pos)

LEMMA AsAddedRecord ==
  ASSUME NEW r \in Records
  PROVE  /\ AsAdded(r) \in Records /\ AsAdded(r).state = "added"
         /\ AsAdded(r).name = r.name /\ AsAdded(r).val = r.val
BY DEF Records, AsAdded

LEMMA PickedRecords ==
  ASSUME NEW s \in Seq(Records), NEW I, I \subseteq 1 .. Len(s)
  PROVE  PickRecords(s, I) \in Seq(Records) /\ Picks(PickRecords(s, I), s, I)
<1> DEFINE c == Cardinality(I)
           p == PickRecords(s, I)
           pos == [k \in 1 .. c |-> Kth(I, k)]
<1>0. Len(s) \in Nat
  OBVIOUS
<1>1. /\ c \in Nat
      /\ \A k \in 1 .. c : Kth(I, k) \in I
      /\ \A i \in I : \E k \in 1 .. c : Kth(I, k) = i
      /\ \A k, l \in 1 .. c : Kth(I, k) = Kth(I, l) => k = l
  BY <1>0, KthEnumerates
<1>2. p = [k \in 1 .. c |-> AsAdded(s[Kth(I, k)])]
  BY DEF PickRecords, AsAdded
<1> HIDE DEF p, c
<1>3. \A i \in 1 .. Len(s) : s[i] \in Records
  OBVIOUS
<1>4. \A k \in 1 .. c : AsAdded(s[Kth(I, k)]) \in Records
  BY <1>1, <1>3, AsAddedRecord
<1>5. p \in Seq(Records) /\ Len(p) = c
  <2>1. p \in [1 .. c -> Records]
    BY <1>2, <1>4
  <2> QED
    BY <1>1, <2>1
<1>6. PicksBy(p, s, I, pos)
  BY <1>1, <1>2, <1>5 DEF PicksBy
<1> QED
  BY <1>5, <1>6 DEF Picks, p

\* Two picks one after the other.
LEMMA PicksConcat ==
  ASSUME NEW p \in Seq(Records), NEW q \in Seq(Records), NEW s, NEW I, NEW J,
         Picks(p, s, I), Picks(q, s, J), I \cap J = {}
  PROVE  p \o q \in Seq(Records) /\ Picks(p \o q, s, I \cup J)
<1> DEFINE m == Len(p)
           n == Len(q)
           c == p \o q
<1>1. m \in Nat /\ n \in Nat
  OBVIOUS
<1>2. /\ c \in Seq(Records) /\ Len(c) = m + n
      /\ \A j \in 1 .. m + n : c[j] = IF j <= m THEN p[j] ELSE q[j - m]
  BY ONLY p \in Seq(Records), q \in Seq(Records), ConcatProperties
<1>3. PICK a : PicksBy(p, s, I, a)
  BY DEF Picks
<1>4. PICK b : PicksBy(q, s, J, b)
  BY DEF Picks
<1> DEFINE pos == [k \in 1 .. m + n |-> IF k <= m THEN a[k] ELSE b[k - m]]
<1> HIDE DEF m, n, c
<1>5. /\ a \in [1 .. m -> I] /\ \A i \in I : \E k \in 1 .. m : a[k] = i
      /\ \A k, l \in 1 .. m : a[k] = a[l] => k = l
      /\ \A k \in 1 .. m : p[k] = AsAdded(s[a[k]])
  BY <1>3 DEF PicksBy, m
<1>6. /\ b \in [1 .. n -> J] /\ \A i \in J : \E k \in 1 .. n : b[k] = i
      /\ \A k, l \in 1 .. n : b[k] = b[l] => k = l
      /\ \A k \in 1 .. n : q[k] = AsAdded(s[b[k]])
  BY <1>4 DEF PicksBy, n
<1>7. ASSUME NEW k \in 1 .. m + n
      PROVE  \/ k \in 1 .. m /\ k <= m /\ pos[k] = a[k] /\ c[k] = p[k]
             \/ k - m \in 1 .. n /\ ~(k <= m) /\ pos[k] = b[k - m] /\ c[k] = q[k - m]
  BY <1>1, <1>2
<1>8. \A k \in 1 .. m : k \in 1 .. m + n /\ pos[k] = a[k]
  BY <1>1
<1>9. \A k \in 1 .. n : m + k \in 1 .. m + n /\ pos[m + k] = b[k]
  <2> TAKE k \in 1 .. n
  <2>1. m + k \in 1 .. m + n /\ ~(m + k <= m) /\ (m + k) - m = k
    BY <1>1
  <2> QED
    BY <2>1
<1>10. pos \in [1 .. m + n -> I \cup J]
  <2>1. \A k \in 1 .. m + n : pos[k] \in I \cup J
    <3> HIDE DEF pos
    <3> QED
      BY <1>5, <1>6, <1>7
  <2> QED
    BY <2>1
<1> HIDE DEF pos
<1>11. \A i \in I \cup J : \E k \in 1 .. m + n : pos[k] = i
  BY <1>5, <1>6, <1>8, <1>9
<1>12. ASSUME NEW k \in 1 .. m + n, NEW l \in 1 .. m + n, pos[k] = pos[l] PROVE k = l
  <2>1. CASE k \in 1 .. m /\ l \in 1 .. m
    BY <1>5, <1>8, <1>12, <2>1
  <2>2. CASE k \in 1 .. m /\ l \notin 1 .. m
    <3>1. pos[k] \in I /\ pos[l] \in J
      BY <1>5, <1>6, <1>7, <2>2
    <3> QED
      BY <1>12, <3>1
  <2>3. CASE k \notin 1 .. m /\ l \in 1 .. m
    <3>1. pos[k] \in J /\ pos[l] \in I
      BY <1>5, <1>6, <1>7, <2>3
    <3> QED
      BY <1>12, <3>1
  <2>4. CASE k \notin 1 .. m /\ l \notin 1 .. m
    <3>1. k - m \in 1 .. n /\ l - m \in 1 .. n /\ b[k - m] = b[l - m]
      BY <1>7, <1>12, <2>4
    <3>2. k - m = l - m
      BY <1>6, <3>1
    <3> QED
      BY <1>1, <3>2
  <2> QED
    BY <2>1, <2>2, <2>3, <2>4
<1>13. \A k \in 1 .. m + n : c[k] = AsAdded(s[pos[k]])
  BY <1>5, <1>6, <1>7
<1>14. PicksBy(c, s, I \cup J, pos)
  BY <1>2, <1>10, <1>11, <1>12, <1>13 DEF PicksBy
<1> QED
  BY <1>2, <1>14 DEF Picks, c

\* What a store with picked records holds of variable n.
One(w, n, v) == \E k : Positions(w, n, "added") = {k} /\ w[k].val = v
Gone(w, n) == Positions(w, n, "added") = {} /\ Positions(w, n, InTransition) = {}

LEMMA PickedAll ==
  ASSUME NEW s \in Seq(Records), NEW I, I \subseteq 1 .. Len(s),
         NEW p \in Seq(Records), Picks(p, s, I), NEW k \in 1 .. Len(p)
  PROVE  \E i \in I : p[k] = AsAdded(s[i])
<1>1. PICK pos : PicksBy(p, s, I, pos)
  BY DEF Picks
<1>2. pos[k] \in I /\ p[k] = AsAdded(s[pos[k]])
  BY <1>1 DEF PicksBy
<1> QED
  BY <1>2

Named(s, n) == {i \in 1 .. Len(s) : s[i].name = n}

LEMMA PickedNone ==
  ASSUME NEW s \in Seq(Records), NEW I, I \subseteq 1 .. Len(s),
         NEW p \in Seq(Records), Picks(p, s, I), NEW n, I \cap Named(s, n) = {}
  PROVE  Gone(p, n)
<1>0. \A i \in I : s[i].name # n
  BY DEF Named
<1>1. DOMAIN p = 1 .. Len(p)
  OBVIOUS
<1>2. ASSUME NEW k \in 1 .. Len(p) PROVE p[k].name # n
  <2>1. PICK i \in I : p[k] = AsAdded(s[i])
    BY ONLY s \in Seq(Records), I \subseteq 1 .. Len(s), p \in Seq(Records), Picks(p, s, I),
       k \in 1 .. Len(p), PickedAll
  <2>2. AsAdded(s[i]).name = s[i].name
    <3>1. s[i] \in Records
      OBVIOUS
    <3> QED
      BY <3>1, AsAddedRecord
  <2> QED
    BY <1>0, <2>1, <2>2
<1> QED
  BY <1>1, <1>2 DEF Gone, Positions

LEMMA PickedOne ==
  ASSUME NEW s \in Seq(Records), NEW I, I \subseteq 1 .. Len(s),
         NEW p \in Seq(Records), Picks(p, s, I), NEW n,
         NEW i \in I, s[i].name = n, \A j \in I : s[j].name = n => j = i
  PROVE  One(p, n, s[i].val)
<1>1. PICK pos : PicksBy(p, s, I, pos)
  BY DEF Picks
<1>2. DOMAIN p = 1 .. Len(p)
  OBVIOUS
<1>3. PICK k \in 1 .. Len(p) : pos[k] = i
  BY <1>1 DEF PicksBy
<1>4. p[k].val = s[i].val /\ p[k].name = n /\ p[k].state = "added"
  <2>1. p[k] = AsAdded(s[i])
    BY <1>1, <1>3 DEF PicksBy
  <2>2. s[i] \in Records
    OBVIOUS
  <2> QED
    BY <2>1, <2>2, AsAddedRecord
<1>5. ASSUME NEW l \in 1 .. Len(p), p[l].name = n PROVE l = k
  <2>1. PICK j \in I : pos[l] = j /\ p[l] = AsAdded(s[j])
    BY <1>1 DEF PicksBy
  <2>2. s[j] \in Records
    OBVIOUS
  <2>3. s[j].name = n
    BY <1>5, <2>1, <2>2, AsAddedRecord
  <2>4. pos[l] = i
    BY <2>1, <2>3
  <2> QED
    BY <1>1, <1>3, <2>4 DEF PicksBy
<1>6. Positions(p, n, "added") = {k}
  BY <1>2, <1>3, <1>4, <1>5 DEF Positions
<1> QED
  BY <1>4, <1>6 DEF One

\* A record more.
LEMMA OneMore ==
  ASSUME NEW p \in Seq(Records), NEW q \in Seq(Records), NEW r, Len(q) = Len(p) + 1,
         \A i \in 1 .. Len(p) : q[i] = p[i], q[Len(q)] = r, r.state = "added", NEW n
  PROVE  /\ r.name # n => \A st : Positions(q, n, st) = Positions(p, n, st)
         /\ r.name # n => (Gone(p, n) => Gone(q, n)) /\ \A v : One(p, n, v) => One(q, n, v)
         /\ r.name = n /\ Positions(p, n, "added") = {} =>
              One(q, n, r.val) /\ Positions(q, n, "added") = {Len(q)}
<1>1. Len(p) \in Nat /\ DOMAIN p = 1 .. Len(p) /\ DOMAIN q = 1 .. Len(p) + 1
  OBVIOUS
<1>2. 1 .. Len(p) + 1 = (1 .. Len(p)) \cup {Len(p) + 1} /\ Len(p) + 1 \notin 1 .. Len(p)
  BY <1>1
<1>3. ASSUME r.name # n PROVE \A st : Positions(q, n, st) = Positions(p, n, st)
  BY <1>1, <1>2, <1>3 DEF Positions
<1>4. ASSUME r.name # n, NEW v, One(p, n, v) PROVE One(q, n, v)
  <2>1. PICK k : Positions(p, n, "added") = {k} /\ p[k].val = v
    BY <1>4 DEF One
  <2>2. k \in 1 .. Len(p)
    BY <1>1, <2>1 DEF Positions
  <2> QED
    BY <1>3, <1>4, <2>1, <2>2 DEF One
<1>5. ASSUME r.name = n, Positions(p, n, "added") = {} PROVE Positions(q, n, "added") = {Len(p) + 1}
  BY <1>1, <1>2, <1>5 DEF Positions
<1> QED
  BY <1>3, <1>4, <1>5 DEF Gone, One

----------------------------------------------------------------------------
(* What a reader finds.                                                    *)

Content(w, n) == LET c == Find(w, n).curr IN IF c = 0 THEN Deleted ELSE w[c].val

\* A variable has one ADDED record and one in transition at most.
AtMostOne(w, n) ==
  \A st \in {"added", InTransition} : \A i, j \in Positions(w, n, st) : i = j

LEMMA PositionsIn ==
  ASSUME NEW w \in Seq(Records), NEW n, NEW st
  PROVE  /\ Positions(w, n, st) \subseteq 1 .. Len(w)
         /\ Positions(w, n, st) \subseteq 0 .. Len(w)
         /\ Positions(w, n, st) \subseteq Nat
         /\ IsFiniteSet(Positions(w, n, st))
<1>1. Positions(w, n, st) \in SUBSET (1 .. Len(w)) /\ Len(w) \in Nat
  BY DEF Positions
<1>2. IsFiniteSet(1 .. Len(w))
  BY <1>1, FS_Interval
<1> QED
  BY <1>1, <1>2, FS_Subset

LEMMA FewAreOne ==
  ASSUME NEW w \in Seq(Records), NEW n,
         Cardinality(Positions(w, n, "added")) <= 1,
         Cardinality(Positions(w, n, InTransition)) <= 1
  PROVE  AtMostOne(w, n)
<1>1. ASSUME NEW S, IsFiniteSet(S), Cardinality(S) <= 1, NEW i \in S, NEW j \in S PROVE i = j
  <2>1. Cardinality(S) \in Nat /\ Cardinality(S) # 0
    BY <1>1, FS_CardinalityType, FS_EmptySet
  <2>2. Cardinality(S) = 1
    BY <1>1, <2>1
  <2> QED
    BY <1>1, <2>2, FS_Singleton
<1> QED
  BY <1>1, PositionsIn DEF AtMostOne

\* FindVariableEx by cases.
LEMMA ContentOf ==
  ASSUME NEW w \in Seq(Records), NEW n
  PROVE  /\ \A v : One(w, n, v) => Content(w, n) = v
         /\ Gone(w, n) => Content(w, n) = Deleted
         /\ \A k \in Positions(w, n, InTransition) :
              Positions(w, n, "added") = {} /\ (\A j \in Positions(w, n, InTransition) : j <= k)
                => Content(w, n) = w[k].val
<1> DEFINE added == Positions(w, n, "added")
           trans == Positions(w, n, InTransition)
           prior == {i \in trans : \A j \in added : i < j}
<1>1. /\ added # {} => Find(w, n).curr = Min(added)
      /\ added = {} => Find(w, n).curr = IF trans = {} THEN 0 ELSE Max(trans)
  BY DEF Find, InTransition
<1>2. ASSUME NEW v, One(w, n, v) PROVE Content(w, n) = v
  <2>1. PICK k : added = {k} /\ w[k].val = v
    BY <1>2 DEF One
  <2>2. k \in 1 .. Len(w) /\ added \subseteq Nat
    BY <2>1, PositionsIn
  <2> HIDE DEF added
  <2>3. Min(added) = k
    BY <2>1, <2>2, MinOfSet
  <2>4. Find(w, n).curr = k /\ k # 0
    BY <1>1, <2>1, <2>2, <2>3
  <2> QED
    BY <2>1, <2>4 DEF Content
<1>3. ASSUME Gone(w, n) PROVE Content(w, n) = Deleted
  BY <1>1, <1>3 DEF Gone, Content
<1>4. ASSUME NEW k \in trans, added = {}, \A j \in trans : j <= k PROVE Content(w, n) = w[k].val
  <2>1. trans # {} /\ trans \subseteq 0 .. Len(w) /\ k \in 1 .. Len(w) /\ Len(w) \in Nat
    BY PositionsIn
  <2> HIDE DEF added, trans
  <2>2. Max(trans) \in trans /\ \A j \in trans : Max(trans) >= j
    BY <2>1, MaxOfSet
  <2>3. Max(trans) = k
    <3>1. Max(trans) \in 0 .. Len(w) /\ k \in 0 .. Len(w)
      BY <2>1, <2>2
    <3>2. Max(trans) >= k /\ Max(trans) <= k
      BY <1>4, <2>2
    <3> QED
      BY <2>1, <3>1, <3>2
  <2>4. Find(w, n).curr = k /\ k # 0
    BY <1>1, <1>4, <2>1, <2>3
  <2> QED
    BY <2>4 DEF Content
<1> QED
  BY <1>2, <1>3, <1>4

\* Records of other variables do not matter.
LEMMA ContentSame ==
  ASSUME NEW w \in Seq(Records), NEW x \in Seq(Records), NEW n,
         \A st \in {"added", InTransition} : Positions(x, n, st) = Positions(w, n, st),
         \A st \in {"added", InTransition} : \A i \in Positions(w, n, st) : x[i].val = w[i].val
  PROVE  Content(x, n) = Content(w, n) /\ (AtMostOne(w, n) => AtMostOne(x, n))
<1> DEFINE added == Positions(w, n, "added")
           trans == Positions(w, n, InTransition)
<1>1. Positions(x, n, "added") = added /\ Positions(x, n, InTransition) = trans
  OBVIOUS
<1>2. Find(x, n) = Find(w, n)
  BY <1>1 DEF Find, InTransition
<1>3. /\ added # {} => Find(w, n).curr = Min(added)
      /\ added = {} => Find(w, n).curr = IF trans = {} THEN 0 ELSE Max(trans)
  BY DEF Find, InTransition
<1>4. added # {} => Min(added) \in added
  <2>1. added \subseteq Nat
    BY PositionsIn
  <2> HIDE DEF added
  <2> QED
    BY <2>1, MinOfSet
<1>5. trans # {} => Max(trans) \in trans
  <2>1. trans \subseteq 0 .. Len(w) /\ Len(w) \in Nat
    BY PositionsIn
  <2> HIDE DEF trans
  <2> QED
    BY <2>1, MaxOfSet
<1>6. Find(w, n).curr \in added \cup trans \cup {0}
  BY <1>3, <1>4, <1>5
<1>7. \A i \in added \cup trans : x[i].val = w[i].val
  OBVIOUS
<1>8. Content(x, n) = Content(w, n)
  BY <1>2, <1>6, <1>7 DEF Content
<1> QED
  BY <1>1, <1>8 DEF AtMostOne

----------------------------------------------------------------------------
(* What Reclaim keeps.                                                     *)

\* Records p are those of w without records u and v, as a reader sees them.
Kept(w, p, u, v) ==
  /\ \A n : /\ Positions(w, n, "added") \subseteq {u}
            /\ Positions(w, n, InTransition) \subseteq {u, v}
            => Gone(p, n)
  /\ \A n : /\ AtMostOne(w, n)
            /\ \A st \in {"added", InTransition} : Positions(w, n, st) \cap {u, v} = {}
            => One(p, n, Content(w, n)) \/ (Gone(p, n) /\ Content(w, n) = Deleted)

\* Records p are records of w that are neither deleted nor without a State.
LiveAt(w) == {i \in 1 .. Len(w) : w[i].state \in {"added", InTransition}}
PicksLive(p, w) == \E I : I \subseteq LiveAt(w) /\ Picks(p, w, I)

\* A record of store w is that of a variable, or has no State.
Whole(w) == \A i \in 1 .. Len(w) : w[i].name # Torn \/ Stub(w[i])

\* Reclaim copies, for every variable, the record that a reader finds; none
\* for the variable whose records the request tracks.
LEMMA ReclaimKeeps ==
  ASSUME Walk(nv) \in Seq(Records), Whole(Walk(nv)),
         NEW u, NEW v, NEW new
  PROVE  \E p \in Seq(Records) :
           /\ ReclaimedImage(u, v, new) = p \o new
           /\ Image(p) /\ Kept(Walk(nv), p, u, v) /\ PicksLive(p, Walk(nv))
<1> DEFINE s == Walk(nv)
           added == {i \in DOMAIN s : s[i].state = "added"} \ {u}
           trans == {i \in DOMAIN s : s[i].state = "inDeletedTransition"} \ {u, v}
           promoted == {i \in trans : \A j \in added \cup {k \in trans : k < i} :
                                         s[j].name # s[i].name}
           I == added \cup promoted
           p == PickRecords(s, added) \o PickRecords(s, promoted)
<1>1. ReclaimedImage(u, v, new) = p \o new
  BY DEF ReclaimedImage
<1>2. DOMAIN s = 1 .. Len(s) /\ Len(s) \in Nat
  OBVIOUS
<1>3. added \subseteq 1 .. Len(s) /\ promoted \subseteq 1 .. Len(s) /\ added \cap promoted = {}
  BY <1>2
<1>4. p \in Seq(Records) /\ Picks(p, s, I)
  <2> HIDE DEF added, promoted, s
  <2>1. /\ PickRecords(s, added) \in Seq(Records) /\ Picks(PickRecords(s, added), s, added)
        /\ PickRecords(s, promoted) \in Seq(Records) /\ Picks(PickRecords(s, promoted), s, promoted)
    BY <1>3, PickedRecords DEF s
  <2> QED
    BY <1>3, <2>1, PicksConcat
<1>5. I \subseteq 1 .. Len(s)
  BY <1>3
<1>6. /\ \A i \in added : s[i].state = "added" /\ i # u
      /\ \A i \in promoted : /\ s[i].state = InTransition /\ i # u /\ i # v
                             /\ \A j \in added : s[j].name # s[i].name
      /\ \A i \in 1 .. Len(s) : s[i].state = "added" /\ i # u => i \in added
  BY <1>2 DEF InTransition
<1>7. ASSUME NEW i \in 1 .. Len(s), s[i].state = InTransition, i \notin {u, v},
             \A j \in 1 .. Len(s) : s[j].name = s[i].name /\ s[j].state \in {"added", InTransition} => j = i
      PROVE  i \in promoted
  <2>1. i \in trans
    BY <1>2, <1>7 DEF InTransition
  <2>2. ASSUME NEW j \in added PROVE s[j].name # s[i].name
    <3>1. j \in 1 .. Len(s) /\ s[j].state = "added" /\ s[i].state # "added"
      BY <1>2, <1>7 DEF InTransition
    <3> QED
      BY <1>7, <3>1
  <2>3. ASSUME NEW j \in {k \in trans : k < i} PROVE s[j].name # s[i].name
    <3>1. j \in 1 .. Len(s) /\ s[j].state = InTransition /\ j # i
      BY <1>2 DEF InTransition
    <3> QED
      BY <1>7, <3>1
  <2> QED
    BY <2>1, <2>2, <2>3
<1>7a. \A i : i \in I <=> i \in added \/ i \in promoted
  OBVIOUS
<1> HIDE DEF added, trans, promoted, p, s, I
<1>8. /\ s \in Seq(Records)
      /\ \A i \in I : s[i].name # Torn
  <2>1. \A i \in I : s[i].state \in {"added", InTransition} /\ i \in 1 .. Len(s)
    BY <1>5, <1>6, <1>7a
  <2>2. \A i \in I : s[i].name # Torn
    BY <2>1 DEF s, Whole, Stub, InTransition
  <2> QED
    BY <2>2 DEF s
<1>9. Image(p)
  <2>1. ASSUME NEW k \in 1 .. Len(p) PROVE p[k].state = "added" /\ p[k].name # Torn
    <3>1. PICK i \in I : p[k] = AsAdded(s[i])
      BY <1>4, <1>5, <1>8, PickedAll
    <3>2. s[i].name # Torn /\ s[i] \in Records
      BY <1>5, <1>8
    <3> QED
      BY <3>1, <3>2, AsAddedRecord
  <2> QED
    BY <1>4, <2>1 DEF Image
<1>10. ASSUME NEW n, Positions(s, n, "added") \subseteq {u},
              Positions(s, n, InTransition) \subseteq {u, v}
       PROVE  Gone(p, n)
  <2>1. \A i \in I : s[i].name # n
    BY <1>2, <1>3, <1>6, <1>7a, <1>10 DEF Positions
  <2>1a. I \cap Named(s, n) = {}
    BY <2>1 DEF Named
  <2> QED
    BY <1>4, <1>5, <1>8, <2>1a, PickedNone
<1>11. ASSUME NEW n, AtMostOne(s, n),
              \A st \in {"added", InTransition} : Positions(s, n, st) \cap {u, v} = {}
       PROVE  One(p, n, Content(s, n)) \/ (Gone(p, n) /\ Content(s, n) = Deleted)
  <2> DEFINE A == Positions(s, n, "added")
             T == Positions(s, n, InTransition)
  <2>1. /\ \A i : i \in A <=> i \in 1 .. Len(s) /\ s[i].name = n /\ s[i].state = "added"
        /\ \A i : i \in T <=> i \in 1 .. Len(s) /\ s[i].name = n /\ s[i].state = InTransition
    BY <1>2 DEF Positions
  <2>2. (\A i, j \in A : i = j) /\ (\A i, j \in T : i = j)
    BY <1>11 DEF AtMostOne
  <2>3. A \cap {u, v} = {} /\ T \cap {u, v} = {}
    BY <1>11
  <2> HIDE DEF A, T
  <2>4. ASSUME NEW i \in A PROVE One(p, n, Content(s, n))
    <3>1. i \in added /\ s[i].name = n
      BY <1>6, <2>1, <2>3
    <3>2. ASSUME NEW j \in I, s[j].name = n PROVE j = i
      <4>1. j \in added
        BY <1>6, <1>7a, <3>1, <3>2
      <4>2. j \in A
        BY <1>3, <1>6, <2>1, <3>2, <4>1
      <4> QED
        BY <2>2, <4>2
    <3>3. One(p, n, s[i].val)
      BY <1>4, <1>5, <1>7a, <1>8, <3>1, <3>2, PickedOne
    <3>4. A = {i}
      BY <2>2
    <3>5. One(s, n, s[i].val)
      BY <3>4 DEF One, A
    <3>6. Content(s, n) = s[i].val
      BY <1>8, <3>5, ContentOf
    <3> QED
      BY <3>3, <3>6
  <2>5. ASSUME A = {}, NEW i \in T PROVE One(p, n, Content(s, n))
    <3>1. i \in promoted /\ s[i].name = n
      <4>1. i \in 1 .. Len(s) /\ s[i].name = n /\ s[i].state = InTransition /\ i \notin {u, v}
        BY <2>1, <2>3
      <4>2. ASSUME NEW j \in 1 .. Len(s), s[j].name = s[i].name, s[j].state \in {"added", InTransition}
            PROVE  j = i
        <5>1. j \in A \cup T
          BY <2>1, <4>1, <4>2
        <5> QED
          BY <2>2, <2>5, <5>1
      <4> QED
        BY <1>7, <4>1, <4>2
    <3>2. ASSUME NEW j \in I, s[j].name = n PROVE j = i
      <4>1. j \in 1 .. Len(s) /\ s[j].state \in {"added", InTransition}
        BY <1>3, <1>6, <1>7a
      <4>2. j \in A \cup T
        BY <2>1, <3>2, <4>1
      <4> QED
        BY <2>2, <2>5, <4>2
    <3>3. One(p, n, s[i].val)
      BY <1>4, <1>5, <1>7a, <1>8, <3>1, <3>2, PickedOne
    <3>4. \A j \in T : j <= i
      <4>1. i \in Nat
        BY <1>2, <2>1
      <4> QED
        BY <2>2, <4>1
    <3>5. Content(s, n) = s[i].val
      BY <1>8, <2>5, <3>4, ContentOf DEF A, T
    <3> QED
      BY <3>3, <3>5
  <2>6. ASSUME A = {}, T = {} PROVE Gone(p, n) /\ Content(s, n) = Deleted
    <3>1. \A i \in I : s[i].name # n
      BY <1>3, <1>6, <1>7a, <2>1, <2>6
    <3>1a. I \cap Named(s, n) = {}
      BY <3>1 DEF Named
    <3>2. Gone(p, n)
      BY <1>4, <1>5, <1>8, <3>1a, PickedNone
    <3>3. Gone(s, n)
      BY <2>6 DEF Gone, A, T
    <3> QED
      BY <1>8, <3>2, <3>3, ContentOf
  <2> QED
    BY <2>4, <2>5, <2>6
<1>12. Kept(s, p, u, v)
  BY <1>10, <1>11 DEF Kept
<1>13. PicksLive(p, s)
  <2>1. I \subseteq LiveAt(s)
    BY <1>5, <1>6, <1>7a DEF LiveAt
  <2> QED
    BY <1>4, <2>1 DEF PicksLive
<1> QED
  BY <1>1, <1>4, <1>9, <1>12, <1>13 DEF s

----------------------------------------------------------------------------
(* The invariant holds.                                                    *)

LEMMA WalkRecords ==
  ASSUME NEW s \in Seq(Records)
  PROVE  Walk(s) \in Seq(Records) /\ Whole(Walk(s))
<1>1. PICK n \in 0 .. Len(s) :
           /\ Walk(s) \in Seq(Records) /\ Len(Walk(s)) = n
           /\ \A i \in 1 .. n : Walk(s)[i] = s[i] /\ ~EndsWalk(s, i)
           /\ n < Len(s) => EndsWalk(s, n + 1)
  BY WalkFinds
<1> QED
  BY <1>1 DEF EndsWalk, Whole

\* The records of Reclaim's image.
NewRecord(new) == new = <<>> \/ \E r \in Records : /\ r.state = "added" /\ r.name # Torn
                                                  /\ new = <<r>>

LEMMA ImageOfReclaim ==
  ASSUME Stored(nv, cache), NEW u, NEW v, NEW new, NewRecord(new)
  PROVE  Image(ReclaimedImage(u, v, new))
<1>1. Walk(nv) \in Seq(Records) /\ Whole(Walk(nv))
  BY WalkRecords DEF Stored, Flash
<1>2. PICK p \in Seq(Records) : ReclaimedImage(u, v, new) = p \o new /\ Image(p)
  BY <1>1, ReclaimKeeps
<1>3. CASE new = <<>>
  BY <1>2, <1>3, ConcatEmptySeq
<1>4. ASSUME NEW r \in Records, r.state = "added", r.name # Torn, new = <<r>>
      PROVE  Image(p \o new)
  <2>1. p \o <<r>> = Append(p, r)
    BY AppendIsConcat
  <2>2. /\ Append(p, r) \in Seq(Records) /\ Len(Append(p, r)) = Len(p) + 1
        /\ \A i \in 1 .. Len(p) : Append(p, r)[i] = p[i]
        /\ Append(p, r)[Len(p) + 1] = r
    OBVIOUS
  <2>3. Len(p) \in Nat /\ \A i \in 1 .. Len(p) + 1 : i \in 1 .. Len(p) \/ i = Len(p) + 1
    OBVIOUS
  <2> QED
    BY <1>2, <1>4, <2>1, <2>2, <2>3 DEF Image
<1> QED
  BY <1>2, <1>3, <1>4 DEF NewRecord

\* What a fault tolerant write leaves, done or failed.
FlashOK ==
  /\ pending = {} \/ \E image : pending = {image} /\ Image(image)
  /\ errors \in 0 .. MaxErrors
  /\ writeFailed \in BOOLEAN /\ ftwFailed \in BOOLEAN

LEMMA FtwStep ==
  ASSUME Stored(nv, cache), FlashOK, NEW image, Image(image),
         FtwVariableSpaceDone(image) \/ FtwVariableSpaceFailed(image)
  PROVE  Stored(nv', cache') /\ FlashOK'
<1>1. CASE FtwVariableSpaceDone(image)
  BY <1>1, ImageIsStored DEF FtwVariableSpaceDone, FlashOK
<1>2. CASE FtwVariableSpaceFailed(image)
  <2>1. (nv' = nv \/ nv' = image) /\ cache' = Walk(nv')
    BY <1>2 DEF FtwVariableSpaceFailed
  <2>2. Stored(nv', cache')
    <3>1. CASE nv' = nv
      BY <2>1, <3>1, WalkIsStored DEF Stored
    <3>2. CASE nv' = image
      BY <2>1, <3>2, ImageIsStored
    <3> QED
      BY <2>1, <3>1, <3>2
  <2>3. pending' = {} \/ pending' = {image} \/ pending' = pending
    BY <1>2 DEF FtwVariableSpaceFailed
  <2>4. errors' \in 0 .. MaxErrors
    <3>1. errors \in Nat /\ errors <= MaxErrors /\ MaxErrors \in Nat
      BY ErrorsAssumption DEF FlashOK
    <3>2. errors' = errors \/ (errors' = errors + 1 /\ errors < MaxErrors)
      BY <1>2 DEF FtwVariableSpaceFailed
    <3> QED
      BY <3>1, <3>2
  <2>5. writeFailed' = TRUE /\ ftwFailed' = TRUE
    BY <1>2 DEF FtwVariableSpaceFailed
  <2> QED
    BY <2>2, <2>3, <2>4, <2>5 DEF FlashOK
<1> QED
  BY <1>1, <1>2

\* The State of a record of the cache is set, in flash and in the cache.
ToState(r, st) ==
  [r EXCEPT !.state = st, !.val = IF st = "deleted" /\ @ # Torn THEN Deleted ELSE @]

LEMMA ToStateRecord ==
  ASSUME NEW r \in Records, NEW st \in {InTransition, "deleted"}
  PROVE  /\ ToState(r, st) \in Records
         /\ ToState(r, st).name = r.name /\ ToState(r, st).state = st
         /\ r.val = Torn => ToState(r, st).val = Torn
         /\ st # "deleted" => ToState(r, st).val = r.val
<1>1. r.name \in Names \cup {Torn} /\ r.val \in Values \cup {Deleted, Torn}
  BY DEF Records
<1>2. CASE st = "deleted"
  BY <1>1, <1>2 DEF ToState, Records
<1>3. CASE st # "deleted"
  BY <1>1, <1>3 DEF ToState, Records, InTransition
<1> QED
  BY <1>2, <1>3

LEMMA SetStateRecords ==
  ASSUME NEW s \in Seq(Records), NEW i \in 1 .. Len(s), NEW st \in {InTransition, "deleted"},
         NEW x, x = [s EXCEPT ![i] = ToState(s[i], st)]
  PROVE  /\ x \in Seq(Records) /\ Len(x) = Len(s)
         /\ \A j \in 1 .. Len(s) : j # i => x[j] = s[j]
         /\ x[i] = ToState(s[i], st) /\ x[i].name = s[i].name /\ x[i].state = st
         /\ s[i].val = Torn => x[i].val = Torn
         /\ st # "deleted" => x[i].val = s[i].val
<1>1. s[i] \in Records
  OBVIOUS
<1>2. ToState(s[i], st) \in Records
  BY <1>1, ToStateRecord
<1>3. x[i] = ToState(s[i], st)
  OBVIOUS
<1>4. x \in Seq(Records) /\ Len(x) = Len(s)
  BY <1>2, ExceptSeq
<1> QED
  BY <1>1, <1>3, <1>4, ToStateRecord

LEMMA SetStateStep ==
  ASSUME Stored(nv, cache), NEW i \in 1 .. Len(cache), NEW st \in {InTransition, "deleted"},
         ~Stub(cache[i]), SetState(i, st)
  PROVE  /\ Stored(nv', cache')
         /\ nv' = [nv EXCEPT ![i] = ToState(nv[i], st)]
         /\ cache' = [cache EXCEPT ![i] = ToState(cache[i], st)]
         /\ \A j \in 1 .. Len(nv) : EndsWalk(nv, j)' <=> EndsWalk(nv, j)
<1>1. /\ nv' = [nv EXCEPT ![i] = ToState(nv[i], st)]
      /\ cache' = [cache EXCEPT ![i] = ToState(cache[i], st)]
  BY DEF SetState, ToState
<1>2. nv \in Seq(Records) /\ cache \in Seq(Records) /\ Len(cache) <= Len(nv)
      /\ Len(nv) \in Nat /\ Len(cache) \in Nat /\ i \in 1 .. Len(nv)
  BY DEF Stored, Flash
<1>3. /\ nv' \in Seq(Records) /\ Len(nv') = Len(nv)
      /\ \A j \in 1 .. Len(nv) : j # i => nv'[j] = nv[j]
      /\ nv'[i] = ToState(nv[i], st) /\ nv'[i].name = nv[i].name /\ nv'[i].state = st
      /\ nv[i].val = Torn => nv'[i].val = Torn
  BY <1>1, <1>2, SetStateRecords
<1>4. /\ cache' \in Seq(Records) /\ Len(cache') = Len(cache)
      /\ \A j \in 1 .. Len(cache) : j # i => cache'[j] = cache[j]
      /\ cache'[i] = ToState(cache[i], st) /\ cache'[i].state = st
  BY <1>1, <1>2, SetStateRecords
<1>5. st # "erased" /\ (nv[i] = cache[i] \/ nv[i].val = Torn)
      /\ (nv[i].name = Torn => nv[i].val = Torn) /\ ~Stub(nv[i]) /\ ~Stub(nv'[i])
  BY <1>2, <1>3 DEF Stored, Flash, InTransition, Stub
<1>6. ASSUME NEW j \in 1 .. Len(cache)
      PROVE  /\ nv'[j].state = cache'[j].state
             /\ nv'[j] = cache'[j] \/ nv'[j].val = Torn
  <2>1. j \in 1 .. Len(nv)
    BY <1>2
  <2>2. CASE j = i
    BY <1>3, <1>4, <1>5, <2>2
  <2>3. CASE j # i
    BY <1>3, <1>4, <2>1, <2>3 DEF Stored
  <2> QED
    BY <2>2, <2>3
<1>7. ASSUME NEW j \in 1 .. Len(nv)
      PROVE  /\ nv'[j].name = nv[j].name /\ (Stub(nv'[j]) <=> Stub(nv[j]))
             /\ nv'[j].name = Torn => nv'[j].val = Torn
  <2>1. CASE j = i
    BY <1>3, <1>5, <2>1
  <2>2. CASE j # i
    BY <1>3, <2>2 DEF Stored, Flash
  <2> QED
    BY <2>1, <2>2
<1>8. ASSUME NEW j \in 1 .. Len(nv) PROVE EndsWalk(nv', j) <=> EndsWalk(nv, j)
  <2>1. j > 1 => j - 1 \in 1 .. Len(nv)
    BY <1>2
  <2> QED
    BY <1>7, <2>1 DEF EndsWalk
<1>9. ASSUME NEW j \in 1 .. Len(nv), j < Len(nv), Stub(nv'[j]) PROVE nv'[j + 1].name = Torn
  <2>1. j + 1 \in 1 .. Len(nv)
    BY <1>2, <1>9
  <2>2. nv[j + 1].name = Torn
    BY <1>7, <1>9 DEF Stored, Flash
  <2> QED
    BY <1>7, <2>1, <2>2
<1>10. Flash(nv')
  BY <1>3, <1>7, <1>9 DEF Flash
<1>11. Rest(nv', Len(cache))
  <2>1. Len(cache) < Len(nv) => Len(cache) + 1 \in 1 .. Len(nv)
    BY <1>2
  <2>2. Rest(nv, Len(cache))
    BY DEF Stored
  <2> QED
    BY <1>3, <1>7, <1>8, <2>1, <2>2 DEF Rest
<1>12. Stored(nv', cache')
  BY <1>2, <1>3, <1>4, <1>6, <1>10, <1>11 DEF Stored
<1> QED
  BY <1>1, <1>8, <1>12

\* No request, or one that returns.
LEMMA QuietRequest ==
  ASSUME pc' \in Quiet, req' = NoRequest, curr' = 0, inDel' = 0
  PROVE  Request'
BY DEF Request, Quiet, Deleting, Writing, Retiring

LEMMA DoneRequest ==
  ASSUME Request, pc \notin Quiet, pc' = "done", req' = req, curr' = 0, inDel' = 0
  PROVE  Request'
<1>1. req.name \in Names /\ req.val \in Contents[req.name] \cup {Deleted}
      /\ req = [name |-> req.name, val |-> req.val]
  BY DEF Request
<1> QED
  BY <1>1 DEF Request, Quiet, Deleting, Writing, Retiring

\* A write that failed, and left the flash as it was or something of itself in it.
LEMMA RequestFailsStep ==
  ASSUME Inv, pc \notin Quiet, RequestFails, Stored(nv', cache'),
         UNCHANGED <<pending, req, ftwFailed>>, UNCHANGED boot
  PROVE  Inv'
<1>2. Request'
  BY DoneRequest DEF RequestFails, Return, Inv
<1>3. errors' \in 0 .. MaxErrors
  <2>1. errors \in Nat /\ MaxErrors \in Nat /\ errors < MaxErrors /\ errors' = errors + 1
    BY ErrorsAssumption DEF RequestFails, Inv, Scalars
  <2> QED
    BY <2>1
<1>4. Scalars'
  BY <1>3 DEF RequestFails, Return, boot, Inv, Scalars
<1> QED
  BY <1>2, <1>4 DEF Inv

LEMMA WriteFailsStep ==
  ASSUME Inv, pc \notin Quiet, WriteFails, UNCHANGED <<pending, req, ftwFailed>>, UNCHANGED boot
  PROVE  Inv'
<1>1. Stored(nv', cache')
  BY DEF WriteFails, RequestFails, Inv
<1> QED
  BY <1>1, RequestFailsStep DEF WriteFails

\* FindVariableEx finds records of the variable.
LEMMA FindFinds ==
  ASSUME NEW c \in Seq(Records), NEW n
  PROVE  LET f == Find(Walk(c), n)
         IN  /\ f.curr \in Nat /\ f.inDel \in Nat
             /\ f.curr # 0 => /\ f.curr \in 1 .. Len(c) /\ c[f.curr].name = n
                              /\ c[f.curr].state \in {"added", InTransition}
             /\ f.inDel # 0 => /\ f.curr # 0 /\ f.inDel < f.curr
                               /\ f.inDel \in 1 .. Len(c) /\ c[f.inDel].name = n
                               /\ c[f.inDel].state = InTransition
                               /\ c[f.curr].state = "added"
<1> DEFINE w == Walk(c)
           f == Find(w, n)
           added == Positions(w, n, "added")
           trans == Positions(w, n, InTransition)
           prior == {i \in trans : \A j \in added : i < j}
<1>1. /\ w \in Seq(Records) /\ Len(w) <= Len(c) /\ Len(w) \in Nat /\ Len(c) \in Nat
      /\ \A i \in 1 .. Len(w) : w[i] = c[i]
  BY WalkFinds
<1>2. /\ \A i \in added : i \in 1 .. Len(c) /\ c[i].name = n /\ c[i].state = "added"
      /\ \A i \in trans : i \in 1 .. Len(c) /\ c[i].name = n /\ c[i].state = InTransition
  BY <1>1 DEF Positions
<1>3. added \subseteq Nat /\ trans \subseteq 0 .. Len(w) /\ prior \subseteq 0 .. Len(w)
  BY <1>1, PositionsIn
<1>4. /\ added # {} => f = [curr |-> Min(added), inDel |-> IF prior = {} THEN 0 ELSE Max(prior)]
      /\ added = {} => f = [curr |-> IF trans = {} THEN 0 ELSE Max(trans), inDel |-> 0]
  BY DEF Find, InTransition
<1>5. prior \subseteq trans /\ \A i \in prior : \A j \in added : i < j
  OBVIOUS
<1> HIDE DEF w, added, trans, prior, f
<1>6. added # {} => Min(added) \in added
  BY <1>3, MinOfSet
<1>7. trans # {} => Max(trans) \in trans
  BY <1>1, <1>3, MaxOfSet
<1>8. prior # {} => Max(prior) \in prior
  BY <1>1, <1>3, MaxOfSet
<1>9. CASE added # {}
  <2>1. f.curr = Min(added) /\ f.curr \in added
    BY <1>4, <1>6, <1>9
  <2>2. f.inDel = 0 \/ (f.inDel \in prior /\ f.inDel < f.curr)
    BY <1>4, <1>5, <1>8, <1>9, <2>1
  <2>3. f.curr \in 1 .. Len(c) /\ c[f.curr].name = n /\ c[f.curr].state = "added"
    BY <1>2, <2>1
  <2>4. CASE f.inDel = 0
    BY <2>3, <2>4 DEF f, w
  <2>5. CASE f.inDel \in prior /\ f.inDel < f.curr
    <3>1. f.inDel \in 1 .. Len(c) /\ c[f.inDel].name = n /\ c[f.inDel].state = InTransition
      BY <1>2, <1>5, <2>5
    <3> QED
      BY <2>3, <2>5, <3>1 DEF f, w
  <2> QED
    BY <2>2, <2>4, <2>5
<1>10. CASE added = {}
  <2>1. f.inDel = 0 /\ (f.curr = 0 \/ f.curr \in trans)
    BY <1>4, <1>7, <1>10
  <2> QED
    BY <1>2, <2>1 DEF f, w
<1> QED
  BY <1>9, <1>10

\* SetVariable looks for the variable and starts, or returns at once.
LEMMA SetVariableStep ==
  ASSUME Inv, NEW n \in Names, NEW v \in Contents[n] \cup {Deleted}, SetVariable(n, v)
  PROVE  Inv'
<1> DEFINE f == Find(Walk(cache), n)
<1>1. /\ f.curr \in Nat /\ f.inDel \in Nat
      /\ f.curr # 0 => /\ f.curr \in 1 .. Len(cache) /\ cache[f.curr].name = n
                       /\ cache[f.curr].state \in {"added", InTransition}
      /\ f.inDel # 0 => /\ f.curr # 0 /\ f.inDel < f.curr
                        /\ f.inDel \in 1 .. Len(cache) /\ cache[f.inDel].name = n
                        /\ cache[f.inDel].state = InTransition
                        /\ cache[f.curr].state = "added"
  BY FindFinds DEF Inv, Stored
<1>2. UNCHANGED <<nv, pending, cache, commonTotal, hwTotal, writeFailed, ftwFailed, errors>>
      /\ UNCHANGED boot
  BY DEF SetVariable
<1>3. req' = [name |-> n, val |-> v]
  BY DEF SetVariable
<1>4. \/ Return("notFound") \/ Return("success")
      \/ /\ f.curr = 0 => v # Deleted
         /\ pc' = FirstOperation(f, v) /\ curr' = f.curr /\ inDel' = f.inDel /\ status' = "none"
  BY DEF SetVariable
<1> HIDE DEF f
<1>5. Stored(nv', cache')
  BY <1>2 DEF Inv
<1>6. Scalars'
  BY <1>2, <1>4 DEF Return, boot, Inv, Scalars
<1>7. req'.name = n /\ req'.val = v /\ req' = [name |-> req'.name, val |-> req'.val]
  BY <1>3
<1>8. Request'
  <2>1. CASE Return("notFound") \/ Return("success")
    <3>1. pc' = "done" /\ curr' = 0 /\ inDel' = 0
      BY <2>1 DEF Return
    <3> QED
      BY <1>7, <3>1 DEF Request, Quiet, Deleting, Writing, Retiring
  <2>2. CASE /\ f.curr = 0 => v # Deleted
             /\ pc' = FirstOperation(f, v) /\ curr' = f.curr /\ inDel' = f.inDel
    <3>1. /\ curr' # 0 => Points(cache, curr, {"added", InTransition})'
          /\ inDel' # 0 => curr' # 0 /\ inDel' < curr' /\ Points(cache, inDel, {InTransition, "deleted"})'
          /\ inDel' # 0 => cache'[inDel'].state = InTransition
      BY <1>1, <1>2, <1>7, <2>2 DEF Points
    <3>2. CASE f.curr = 0
      <4>1. pc' = "add" /\ curr' = 0 /\ inDel' = 0 /\ v # Deleted
        BY <1>1, <2>2, <3>2 DEF FirstOperation
      <4> QED
        BY <1>7, <4>1 DEF Request, Quiet, Deleting, Writing, Retiring
    <3>3. CASE f.curr # 0 /\ v # Deleted
      <4>1. pc' = "mark" /\ curr' # 0
        BY <2>2, <3>3 DEF FirstOperation
      <4> QED
        BY <1>1, <1>7, <2>2, <3>1, <3>3, <4>1 DEF Request, Quiet, Deleting, Writing, Retiring
    <3>4. CASE f.curr # 0 /\ v = Deleted /\ f.inDel # 0
      <4>1. pc' = "deleteInDel" /\ curr' # 0 /\ inDel' # 0
        BY <2>2, <3>4 DEF FirstOperation
      <4>2. cache'[curr'].state = "added"
        BY <1>1, <1>2, <2>2, <3>4
      <4> QED
        BY <1>1, <1>7, <2>2, <3>1, <3>4, <4>1, <4>2 DEF Request, Quiet, Deleting, Writing, Retiring
    <3>5. CASE f.curr # 0 /\ v = Deleted /\ f.inDel = 0
      <4>1. pc' = "deleteCurr" /\ curr' # 0 /\ inDel' = 0
        BY <2>2, <3>5 DEF FirstOperation
      <4> QED
        BY <1>1, <1>7, <2>2, <3>1, <3>5, <4>1 DEF Request, Quiet, Deleting, Writing, Retiring
    <3> QED
      BY <3>2, <3>3, <3>4, <3>5
  <2> QED
    BY <1>4, <2>1, <2>2
<1> QED
  BY <1>5, <1>6, <1>8 DEF Inv

\* The State of a record of the request is set.
LEMMA PointedStates ==
  ASSUME Inv, NEW i \in 1 .. Len(cache), NEW st \in {InTransition, "deleted"}, SetState(i, st),
         ~Stub(cache[i])
  PROVE  /\ Stored(nv', cache') /\ Len(cache') = Len(cache)
         /\ \A j \in 1 .. Len(cache) : j # i => cache'[j] = cache[j]
         /\ cache'[i].name = cache[i].name /\ cache'[i].state = st
<1>1. Stored(nv, cache) /\ cache \in Seq(Records)
  BY DEF Inv, Stored
<1>2. Stored(nv', cache') /\ cache' = [cache EXCEPT ![i] = ToState(cache[i], st)]
  BY <1>1, SetStateStep
<1> QED
  BY <1>1, <1>2, SetStateRecords

LEMMA MarkStep ==
  ASSUME Inv, MarkOld
  PROVE  Inv'
<1>1. pc = "mark" /\ UNCHANGED <<pending, req, ftwFailed>> /\ UNCHANGED boot
  BY DEF MarkOld
<1>2. CASE WriteFails
  BY <1>1, <1>2, WriteFailsStep DEF Quiet
<1>3. CASE SetState(curr, "inDeletedTransition") /\ pc' = "add"
           /\ UNCHANGED <<curr, inDel, status, writeFailed, errors>>
  <2>1. /\ curr # 0 /\ Points(cache, curr, {"added", InTransition})
        /\ inDel # 0 => /\ inDel < curr /\ Points(cache, inDel, {InTransition, "deleted"})
                        /\ cache[inDel].state = InTransition
        /\ curr \in Nat /\ inDel \in Nat
        /\ req.name \in Names /\ req.val \in Contents[req.name] \cup {Deleted}
        /\ req = [name |-> req.name, val |-> req.val] /\ req.val # Deleted
    BY <1>1 DEF Inv, Request, Quiet, Deleting, Writing, Retiring
  <2>2. /\ Stored(nv', cache') /\ Len(cache') = Len(cache)
        /\ \A j \in 1 .. Len(cache) : j # curr => cache'[j] = cache[j]
        /\ cache'[curr].name = cache[curr].name /\ cache'[curr].state = InTransition
    BY <1>3, <2>1, PointedStates DEF Points, InTransition, Stub
  <2>3. inDel # 0 => inDel \in 1 .. Len(cache) /\ inDel # curr /\ cache'[inDel] = cache[inDel]
    BY <2>1, <2>2 DEF Points
  <2>4. /\ Points(cache', curr, {"added", InTransition})
        /\ inDel # 0 => Points(cache', inDel, {InTransition, "deleted"})
    BY <2>1, <2>2, <2>3 DEF Points
  <2>5. Request'
    BY <1>1, <1>3, <2>1, <2>2, <2>3, <2>4
       DEF Request, Quiet, Deleting, Writing, Retiring, Points
  <2>6. Scalars'
    BY <1>1, <1>3 DEF Inv, Scalars, boot
  <2> QED
    BY <2>2, <2>5, <2>6 DEF Inv
<1> QED
  BY <1>2, <1>3 DEF MarkOld

LEMMA DeleteInDelStep ==
  ASSUME Inv, DeleteInDel
  PROVE  Inv'
<1>1. pc \in {"deleteInDel", "retireInDel"} /\ UNCHANGED <<pending, req, ftwFailed>> /\ UNCHANGED boot
  BY DEF DeleteInDel
<1>2. CASE WriteFails
  BY <1>1, <1>2, WriteFailsStep DEF Quiet
<1>3. CASE SetState(inDel, "deleted")
           /\ pc' = (IF pc = "deleteInDel" THEN "deleteCurr" ELSE "retireCurr")
           /\ UNCHANGED <<curr, inDel, status, writeFailed, errors>>
  <2>1. /\ curr # 0 /\ Points(cache, curr, {"added", InTransition})
        /\ inDel # 0 /\ inDel < curr /\ Points(cache, inDel, {InTransition, "deleted"})
        /\ curr \in Nat /\ inDel \in Nat
        /\ req.name \in Names /\ req.val \in Contents[req.name] \cup {Deleted}
        /\ req = [name |-> req.name, val |-> req.val]
        /\ pc = "deleteInDel" => req.val = Deleted
        /\ pc = "retireInDel" => /\ req.val # Deleted /\ cache[curr].state = InTransition
                                 /\ cache[Len(cache)] = Record(req.name, req.val, "added")
    BY <1>1 DEF Inv, Request, Quiet, Deleting, Writing, Retiring
  <2>2. /\ Stored(nv', cache') /\ Len(cache') = Len(cache)
        /\ \A j \in 1 .. Len(cache) : j # inDel => cache'[j] = cache[j]
        /\ cache'[inDel].name = cache[inDel].name /\ cache'[inDel].state = "deleted"
    BY <1>3, <2>1, PointedStates DEF Points, InTransition, Stub
  <2>3. curr \in 1 .. Len(cache) /\ inDel \in 1 .. Len(cache) /\ cache'[curr] = cache[curr]
        /\ Len(cache) \in 1 .. Len(cache) /\ Len(cache) # inDel
        /\ cache'[Len(cache)] = cache[Len(cache)]
    BY <2>1, <2>2 DEF Points
  <2>4. /\ Points(cache', curr, {"added", InTransition})
        /\ Points(cache', inDel, {InTransition, "deleted"})
    BY <2>1, <2>2, <2>3 DEF Points
  <2>5. Request'
    <3>1. CASE pc = "deleteInDel"
      BY <1>1, <1>3, <2>1, <2>2, <2>3, <2>4, <3>1
         DEF Request, Quiet, Deleting, Writing, Retiring, Points
    <3>2. CASE pc = "retireInDel"
      BY <1>1, <1>3, <2>1, <2>2, <2>3, <2>4, <3>2
         DEF Request, Quiet, Deleting, Writing, Retiring, Points
    <3> QED
      BY <1>1, <3>1, <3>2
  <2>6. Scalars'
    BY <1>1, <1>3 DEF Inv, Scalars, boot
  <2> QED
    BY <2>2, <2>5, <2>6 DEF Inv
<1> QED
  BY <1>2, <1>3 DEF DeleteInDel

LEMMA DeleteCurrStep ==
  ASSUME Inv, DeleteCurr
  PROVE  Inv'
<1>1. pc \in {"deleteCurr", "retireCurr"} /\ UNCHANGED <<pending, req, ftwFailed>> /\ UNCHANGED boot
  BY DEF DeleteCurr
<1>2. CASE WriteFails
  BY <1>1, <1>2, WriteFailsStep DEF Quiet
<1>3. CASE SetState(curr, "deleted") /\ Return("success") /\ UNCHANGED <<writeFailed, errors>>
  <2>1. curr \in 1 .. Len(cache) /\ ~Stub(cache[curr])
    BY <1>1 DEF Inv, Request, Deleting, Retiring, Points, InTransition, Stub
  <2>2. Stored(nv', cache')
    BY <1>3, <2>1, PointedStates
  <2>3. Request'
    BY <1>1, <1>3, DoneRequest DEF Inv, Quiet, Return
  <2>4. Scalars'
    BY <1>1, <1>3 DEF Inv, Scalars, boot, Return
  <2> QED
    BY <2>2, <2>3, <2>4 DEF Inv
<1> QED
  BY <1>2, <1>3 DEF DeleteCurr

LEMMA TornRecord ==
  ASSUME NEW m \in Names \cup {Torn}, NEW r \in Records
  PROVE  Record(m, Torn, r.state) \in Records
BY DEF Record, Records

\* The record that a request appends.
LEMMA NewRecords ==
  ASSUME Inv, pc \in {"add", "setAdded"}
  PROVE  /\ Record(req.name, req.val, "added") \in Records
         /\ Record(req.name, req.val, "erased") \in Records
         /\ req.name # Torn /\ req.val # Torn /\ req.val # Deleted
         /\ req.name \in Names
         /\ Record(Torn, Torn, "erased") \in Records
         /\ \A m, v, st : /\ Record(m, v, st).name = m /\ Record(m, v, st).val = v
                          /\ Record(m, v, st).state = st
<1>1. req.name \in Names /\ req.val \in Contents[req.name] /\ req.val # Deleted
  BY DEF Inv, Request, Quiet, Writing
<1>2. req.name # Torn /\ req.val # Torn
  BY <1>1, NamesAssumption, ContentsAssumption
<1>3. req.val \in Values
  BY <1>1 DEF Values
<1> QED
  BY <1>1, <1>2, <1>3 DEF Record, Records

\* The flash after Step 1.
NewEntry(r) ==
  /\ r \in Records
  /\ r = Record(req.name, req.val, "erased") \/ r.val = Torn
  /\ r.name \in {req.name, Torn}
  /\ r.name = Torn => r.val = Torn
  /\ Stub(r) \/ r.name = Torn
  /\ EndsInStub(cache) => r.name = Torn
  /\ Programmed \in Seq(Records) /\ Len(Programmed) = Len(cache) + 1
  /\ \A i \in 1 .. Len(cache) : Programmed[i] = nv[i]
  /\ Programmed[Len(cache) + 1] = r
  /\ Programmed = nv \/ Len(nv) = Len(cache) \/ r.val = Torn

LEMMA ProgrammedIs ==
  ASSUME Inv, pc = "add"
  PROVE  \E r : NewEntry(r)
<1> DEFINE n == Len(cache)
           new == Record(req.name, req.val, "erased")
           torn == Record(Torn, Torn, "erased")
           old == nv[n + 1]
           over == Record(IF old.name = req.name THEN old.name ELSE Torn, Torn, old.state)
<1>1. /\ nv \in Seq(Records) /\ cache \in Seq(Records) /\ n \in Nat /\ Len(nv) \in Nat /\ n <= Len(nv)
      /\ \A i \in 1 .. n : nv[i].state = cache[i].state
      /\ \A i \in 1 .. Len(nv) : i < Len(nv) /\ Stub(nv[i]) => nv[i + 1].name = Torn
      /\ Rest(nv, n) /\ n \in 0 .. Len(nv)
  BY DEF Inv, Stored, Flash
<1>2. /\ req.name # Torn /\ req.val # Torn
      /\ new \in Records /\ new.name = req.name /\ new.val = req.val /\ new.state = "erased"
      /\ torn \in Records /\ torn.name = Torn /\ torn.val = Torn /\ torn.state = "erased"
      /\ over.name \in {req.name, Torn} /\ over.name = (IF old.name = req.name THEN req.name ELSE Torn)
      /\ over.val = Torn /\ over.state = old.state
  <2>1. \A m, v, st : /\ Record(m, v, st).name = m /\ Record(m, v, st).val = v
                       /\ Record(m, v, st).state = st
    BY DEF Record
  <2>2. /\ req.name # Torn /\ req.val # Torn /\ new \in Records /\ torn \in Records
    BY NewRecords
  <2> QED
    BY <2>1, <2>2
<1>3. Programmed = IF Len(nv) > n
                   THEN IF old = new THEN nv ELSE Append(SubSeq(nv, 1, n), over)
                   ELSE Append(nv, IF EndsInStub(cache) THEN torn ELSE new)
  BY DEF Programmed
<1>4. EndsInStub(cache) /\ n < Len(nv) => old.name = Torn
  <2> SUFFICES ASSUME EndsInStub(cache), n < Len(nv) PROVE old.name = Torn
    OBVIOUS
  <2>1. n # 0 /\ Stub(cache[n])
    BY <1>1 DEF EndsInStub
  <2>2. n \in 1 .. n /\ n \in 1 .. Len(nv) /\ Stub(nv[n])
    BY <1>1, <2>1 DEF Stub
  <2> QED
    BY <1>1, <2>2
<1>5. CASE Len(nv) > n /\ old = new
  <2>1. ~EndsWalk(nv, n + 1)
    BY <1>2, <1>5 DEF EndsWalk
  <2>2. Len(nv) = n + 1
    BY <1>1, <1>5, <2>1 DEF Rest
  <2>3. ~EndsInStub(cache)
    BY <1>1, <1>2, <1>4, <1>5
  <2>4. Programmed = nv /\ Stub(new)
    BY <1>2, <1>3, <1>5 DEF Stub
  <2> HIDE DEF new, old
  <2>5. NewEntry(new)
    BY <1>1, <1>2, <1>5, <2>2, <2>3, <2>4 DEF NewEntry, new, old
  <2> QED
    BY <2>5
<1>6. CASE Len(nv) > n /\ old # new
  <2> DEFINE p == SubSeq(nv, 1, n)
  <2>1. p \in Seq(Records) /\ Len(p) = n /\ \A i \in 1 .. n : p[i] = nv[i]
    BY <1>1, PrefixEntries
  <2>2. n + 1 \in 1 .. Len(nv) /\ old \in Records
    BY <1>1, <1>6
  <2>3. over \in Records
    <3>1. (IF old.name = req.name THEN old.name ELSE Torn) \in Names \cup {Torn}
      BY NewRecords
    <3> QED
      BY <2>2, <3>1, TornRecord
  <2>4. Stub(over) \/ over.name = Torn
    <3>1. EndsWalk(nv, n + 1) \/ Stub(old)
      BY <1>1, <1>6 DEF Rest
    <3> QED
      BY <1>2, <3>1 DEF EndsWalk, Stub
  <2>5. EndsInStub(cache) => over.name = Torn
    BY <1>1, <1>2, <1>4, <1>6
  <2>6. Programmed = Append(p, over)
    BY <1>3, <1>6
  <2> HIDE DEF p, over, n
  <2>7. /\ Programmed \in Seq(Records) /\ Len(Programmed) = n + 1
        /\ (\A i \in 1 .. n : Programmed[i] = nv[i]) /\ Programmed[n + 1] = over
    BY <2>1, <2>3, <2>6
  <2>8. NewEntry(over)
    BY <1>2, <2>3, <2>4, <2>5, <2>7 DEF NewEntry, n
  <2> QED
    BY <2>8
<1>7. CASE ~(Len(nv) > n)
  <2> DEFINE r == IF EndsInStub(cache) THEN torn ELSE new
  <2>1. Len(nv) = n
    BY <1>1, <1>7
  <2>2. r \in Records /\ r.state = "erased"
    BY <1>2
  <2>3. (r = new \/ r.val = Torn) /\ r.name \in {req.name, Torn} /\ (r.name = Torn => r.val = Torn)
        /\ (EndsInStub(cache) => r.name = Torn)
    BY <1>2
  <2>4. Programmed = Append(nv, r)
    BY <1>3, <1>7
  <2> HIDE DEF r
  <2>5. /\ Programmed \in Seq(Records) /\ Len(Programmed) = n + 1
        /\ (\A i \in 1 .. n : Programmed[i] = nv[i]) /\ Programmed[n + 1] = r
    BY <1>1, <2>1, <2>2, <2>4
  <2>6. NewEntry(r)
    BY <2>1, <2>2, <2>3, <2>5 DEF NewEntry, Stub
  <2> QED
    BY <2>6
<1> QED
  BY <1>5, <1>6, <1>7

LEMMA ProgrammedStored ==
  ASSUME Inv, pc = "add"
  PROVE  Stored(Programmed, cache)
<1> DEFINE n == Len(cache)
           p == Programmed
<1>1. PICK r : NewEntry(r)
  BY ProgrammedIs
<1>2. /\ nv \in Seq(Records) /\ cache \in Seq(Records) /\ n \in Nat /\ Len(nv) \in Nat /\ n <= Len(nv)
      /\ \A i \in 1 .. n : /\ nv[i].state = cache[i].state
                           /\ nv[i] = cache[i] \/ nv[i].val = Torn
      /\ \A i \in 1 .. Len(nv) : i < Len(nv) /\ Stub(nv[i]) => nv[i + 1].name = Torn
      /\ \A i \in 1 .. Len(nv) : nv[i].name = Torn => nv[i].val = Torn
  BY DEF Inv, Stored, Flash
<1>3. /\ p \in Seq(Records) /\ Len(p) = n + 1 /\ (\A i \in 1 .. n : p[i] = nv[i]) /\ p[n + 1] = r
      /\ r.name = Torn => r.val = Torn
      /\ Stub(r) \/ r.name = Torn
      /\ EndsInStub(cache) => r.name = Torn
  BY <1>1 DEF NewEntry
<1> HIDE DEF p, n
<1>4. \A i \in 1 .. n + 1 : i \in 1 .. n \/ i = n + 1
  BY <1>2
<1>5. \A i \in 1 .. n + 1 : p[i].name = Torn => p[i].val = Torn
  BY <1>2, <1>3, <1>4
<1>6. ASSUME NEW i \in 1 .. n + 1, i < n + 1, Stub(p[i]) PROVE p[i + 1].name = Torn
  <2>1. i \in 1 .. n /\ i \in 1 .. Len(nv) /\ Stub(nv[i])
    BY <1>2, <1>3, <1>6
  <2>2. CASE i = n
    <3>1. Stub(cache[n]) /\ cache # <<>>
      BY <1>2, <2>1, <2>2 DEF Stub, n
    <3>2. EndsInStub(cache)
      BY <3>1 DEF EndsInStub, n
    <3> QED
      BY <1>3, <2>2, <3>2
  <2>3. CASE i # n
    <3>1. i < Len(nv) /\ i + 1 \in 1 .. n
      BY <1>2, <2>1, <2>3
    <3>2. nv[i + 1].name = Torn
      BY <1>2, <2>1, <3>1
    <3> QED
      BY <1>3, <3>1, <3>2
  <2> QED
    BY <2>2, <2>3
<1>7. Flash(p)
  BY <1>3, <1>5, <1>6 DEF Flash
<1>8. Rest(p, n)
  <2>1. EndsWalk(p, n + 1) \/ Stub(p[n + 1])
    BY <1>3 DEF EndsWalk
  <2> QED
    BY <1>3, <2>1 DEF Rest
<1>9. n <= Len(p) /\ \A i \in 1 .. n : p[i].state = cache[i].state /\ (p[i] = cache[i] \/ p[i].val = Torn)
  BY <1>2, <1>3
<1> QED
  BY <1>2, <1>7, <1>8, <1>9 DEF Stored, n, p

LEMMA AddStep1Step ==
  ASSUME Inv, AddStep1
  PROVE  Inv'
<1>1. pc = "add" /\ UNCHANGED <<pending, req, ftwFailed>> /\ UNCHANGED boot
  BY DEF AddStep1
<1>2. CASE WriteFails
  BY <1>1, <1>2, WriteFailsStep DEF Quiet
<1>3. CASE RequestFails /\ nv' = Programmed
  <2>1. Stored(nv', cache')
    BY <1>1, <1>3, ProgrammedStored DEF RequestFails
  <2> QED
    BY <1>1, <1>3, <2>1, RequestFailsStep DEF Quiet
<1>4. CASE /\ nv' = Programmed /\ pc' = "setAdded"
           /\ UNCHANGED <<cache, curr, inDel, status, writeFailed, errors>>
  <2>1. Stored(nv', cache')
    BY <1>1, <1>4, ProgrammedStored
  <2>2. Request'
    <3>1. /\ req.name \in Names /\ req.val \in Contents[req.name] \cup {Deleted}
          /\ req = [name |-> req.name, val |-> req.val] /\ req.val # Deleted
          /\ curr # 0 => Points(cache, curr, {"added", InTransition})
          /\ curr # 0 => cache[curr].state = InTransition
          /\ inDel # 0 => curr # 0 /\ inDel < curr /\ Points(cache, inDel, {InTransition, "deleted"})
          /\ inDel # 0 => cache[inDel].state = InTransition
          /\ curr \in Nat /\ inDel \in Nat
      BY <1>1 DEF Inv, Request, Quiet, Deleting, Writing, Retiring
    <3>2. pc' = "setAdded" /\ UNCHANGED <<cache, curr, inDel, req>>
      BY <1>1, <1>4
    <3>3. PICK r : NewEntry(r)
      BY <1>1, ProgrammedIs
    <3>4. Len(nv') = Len(cache') + 1
          /\ (nv'[Len(nv')] = Record(req'.name, req'.val, "erased") \/ nv'[Len(nv')].val = Torn)
      BY <1>4, <3>2, <3>3 DEF NewEntry
    <3> QED
      BY <3>1, <3>2, <3>4 DEF Request, Quiet, Deleting, Writing, Retiring, Points
  <2>3. Scalars'
    BY <1>1, <1>4 DEF Inv, Scalars, boot
  <2> QED
    BY <2>1, <2>2, <2>3 DEF Inv
<1> QED
  BY <1>2, <1>3, <1>4 DEF AddStep1

LEMMA AddStep2Step ==
  ASSUME Inv, AddStep2
  PROVE  Inv'
<1> DEFINE n == Len(cache)
           new == Record(req.name, req.val, "added")
<1>1. pc = "setAdded" /\ UNCHANGED <<pending, req, ftwFailed>> /\ UNCHANGED boot
  BY DEF AddStep2
<1>2. CASE WriteFails
  BY <1>1, <1>2, WriteFailsStep DEF Quiet
<1>3. CASE /\ nv' = [nv EXCEPT ![n + 1].state = "added"]
           /\ cache' = Append(cache, new)
           /\ \/ curr = 0 /\ Return("success")
              \/ /\ curr # 0
                 /\ pc' = IF inDel # 0 THEN "retireInDel" ELSE "retireCurr"
                 /\ UNCHANGED <<curr, inDel, status>>
           /\ UNCHANGED <<writeFailed, errors>>
  <2>1. /\ nv \in Seq(Records) /\ cache \in Seq(Records) /\ n \in Nat /\ Len(nv) = n + 1
        /\ \A i \in 1 .. n : /\ nv[i].state = cache[i].state
                             /\ nv[i] = cache[i] \/ nv[i].val = Torn
        /\ \A i \in 1 .. n + 1 : i < n + 1 /\ Stub(nv[i]) => nv[i + 1].name = Torn
        /\ \A i \in 1 .. n + 1 : nv[i].name = Torn => nv[i].val = Torn
        /\ nv[n + 1] = Record(req.name, req.val, "erased") \/ nv[n + 1].val = Torn
    BY <1>1 DEF Inv, Stored, Flash, Request
  <2>2. new \in Records /\ new.state = "added"
    BY <1>1, NewRecords
  <2> DEFINE r == AsAdded(nv[n + 1])
  <2>3. n + 1 \in 1 .. Len(nv) /\ nv[n + 1] \in Records
    BY <2>1
  <2>4. /\ r \in Records /\ r.state = "added"
        /\ r = new \/ r.val = Torn
        /\ r.name = Torn => r.val = Torn
        /\ r.name = nv[n + 1].name
    <3>1. r \in Records /\ r.state = "added" /\ r.name = nv[n + 1].name /\ r.val = nv[n + 1].val
      BY <2>3, AsAddedRecord
    <3>2. AsAdded(Record(req.name, req.val, "erased")) = new
      BY DEF AsAdded, Record
    <3>3. nv[n + 1].name = Torn => nv[n + 1].val = Torn
      BY <2>1, <2>3
    <3> QED
      BY <2>1, <3>1, <3>2, <3>3
  <2>5. nv' = [nv EXCEPT ![n + 1] = r]
    BY <1>3 DEF AsAdded
  <2> HIDE DEF r, new
  <2>6. nv' \in Seq(Records) /\ Len(nv') = n + 1 /\ nv'[n + 1] = r
        /\ \A i \in 1 .. n : nv'[i] = nv[i]
    <3>1. nv' \in Seq(Records) /\ Len(nv') = Len(nv)
      <4>1. PICK k \in 1 .. Len(nv) : k = n + 1
        BY <2>3
      <4>2. nv' = [nv EXCEPT ![k] = r]
        BY <2>5, <4>1
      <4> QED
        BY <2>1, <2>4, <4>2, ExceptSeq
    <3>2. nv'[n + 1] = r /\ \A i \in 1 .. n : nv'[i] = nv[i]
      BY <2>1, <2>5
    <3> QED
      BY <2>1, <3>1, <3>2
  <2>7. cache' \in Seq(Records) /\ Len(cache') = n + 1 /\ cache'[n + 1] = new
        /\ \A i \in 1 .. n : cache'[i] = cache[i]
    BY <1>3, <2>1, <2>2
  <2>8. ASSUME NEW i \in 1 .. n + 1
        PROVE  /\ nv'[i].state = cache'[i].state
               /\ nv'[i] = cache'[i] \/ nv'[i].val = Torn
               /\ nv'[i].name = Torn => nv'[i].val = Torn
    <3>1. CASE i = n + 1
      BY <2>2, <2>4, <2>6, <2>7, <3>1
    <3>2. CASE i \in 1 .. n
      BY <2>1, <2>6, <2>7, <3>2
    <3> QED
      BY <2>1, <3>1, <3>2
  <2>9. Stored(nv', cache')
    <3>1. Len(cache') <= Len(nv') /\ ~(Len(cache') < Len(nv'))
      BY <2>1, <2>6, <2>7
    <3>2. ASSUME NEW i \in 1 .. n + 1, i < n + 1, Stub(nv'[i]) PROVE nv'[i + 1].name = Torn
      <4>1. i \in 1 .. n /\ (i + 1 \in 1 .. n \/ i + 1 = n + 1)
        BY <2>1, <3>2
      <4>2. nv[i + 1].name = Torn
        BY <2>1, <2>6, <3>2, <4>1
      <4> QED
        BY <2>4, <2>6, <4>1, <4>2
    <3>3. Flash(nv')
      BY <2>6, <2>8, <3>2 DEF Flash
    <3>4. Rest(nv', Len(cache'))
      BY <3>1 DEF Rest
    <3> QED
      BY <2>6, <2>7, <2>8, <3>1, <3>3, <3>4 DEF Stored
  <2>10. Request'
    <3>1. CASE curr = 0 /\ Return("success")
      <4>1. inDel = 0
        BY <3>1 DEF Inv, Request
      <4> QED
        BY <1>1, <3>1, DoneRequest DEF Inv, Quiet, Return
    <3>2. CASE /\ curr # 0 /\ pc' = (IF inDel # 0 THEN "retireInDel" ELSE "retireCurr")
               /\ UNCHANGED <<curr, inDel>>
      <4>1. /\ req.name \in Names /\ req.val \in Contents[req.name] \cup {Deleted}
            /\ req = [name |-> req.name, val |-> req.val] /\ req.val # Deleted
            /\ Points(cache, curr, {"added", InTransition})
            /\ cache[curr].state = InTransition
            /\ inDel # 0 => curr # 0 /\ inDel < curr /\ Points(cache, inDel, {InTransition, "deleted"})
            /\ inDel # 0 => cache[inDel].state = InTransition
            /\ curr \in Nat /\ inDel \in Nat
        BY <1>1, <3>2 DEF Inv, Request, Quiet, Deleting, Writing, Retiring
      <4>2. cache'[curr] = cache[curr] /\ (inDel # 0 => cache'[inDel] = cache[inDel])
        BY <2>7, <4>1 DEF Points
      <4>3. /\ Points(cache', curr, {"added", InTransition})
            /\ inDel # 0 => Points(cache', inDel, {InTransition, "deleted"})
        BY <2>1, <2>7, <4>1, <4>2 DEF Points
      <4>4. req' = req /\ cache'[Len(cache')] = Record(req.name, req.val, "added")
        BY <1>1, <2>7 DEF new
      <4>5. CASE inDel # 0
        <5>1. pc' = "retireInDel"
          BY <3>2, <4>5
        <5> QED
          BY <3>2, <4>1, <4>2, <4>3, <4>4, <4>5, <5>1
             DEF Request, Quiet, Deleting, Writing, Retiring, Points
      <4>6. CASE inDel = 0
        <5>1. pc' = "retireCurr"
          BY <3>2, <4>6
        <5> QED
          BY <3>2, <4>1, <4>2, <4>3, <4>4, <4>6, <5>1
             DEF Request, Quiet, Deleting, Writing, Retiring, Points
      <4> QED
        BY <4>5, <4>6
    <3> QED
      BY <1>3, <3>1, <3>2
  <2>11. Scalars'
    BY <1>1, <1>3 DEF Inv, Scalars, boot, Return
  <2> QED
    BY <2>9, <2>10, <2>11 DEF Inv
<1> QED
  BY <1>2, <1>3 DEF AddStep2

LEMMA ScalarsSplit ==
  ASSUME Inv
  PROVE  Stored(nv, cache) /\ FlashOK
BY DEF Inv, Scalars, FlashOK

LEMMA ReclaimAndAddStep ==
  ASSUME Inv, ReclaimAndAdd
  PROVE  Inv'
<1> DEFINE new == <<Record(req.name, req.val, "added")>>
           image == ReclaimedImage(curr, inDel, new)
<1>1. pc = "add" /\ UNCHANGED <<atRuntime, reclaimedForOS, req>> /\ reclaimedAtRuntime' = atRuntime
  BY DEF ReclaimAndAdd
<1>2. Image(image)
  <2>1. NewRecord(new)
    BY <1>1, NewRecords DEF NewRecord
  <2> HIDE DEF new
  <2> QED
    BY <2>1, ScalarsSplit, ImageOfReclaim
<1> HIDE DEF new, image
<1>3. \E s \in {"success", "deviceError", "outOfResources"} : Return(s)
  BY DEF ReclaimAndAdd
<1>4. Request'
  BY <1>1, <1>3, DoneRequest DEF Inv, Quiet, Return
<1>5. Stored(nv', cache') /\ FlashOK'
  <2>1. CASE FtwVariableSpaceDone(image) \/ FtwVariableSpaceFailed(image)
    BY <1>2, <2>1, ScalarsSplit, FtwStep
  <2>2. CASE /\ cache' = SubSeq(nv, 1, Len(cache))
             /\ UNCHANGED <<nv, pending, writeFailed, ftwFailed, errors>>
    <3>1. nv \in Seq(Records) /\ Len(cache) \in 0 .. Len(nv) /\ Len(nv) \in Nat
      BY DEF Inv, Stored, Flash
    <3>2. cache' \in Seq(Records) /\ Len(cache') = Len(cache)
          /\ \A i \in 1 .. Len(cache) : cache'[i] = nv[i]
      BY <2>2, <3>1, PrefixEntries
    <3>3. Stored(nv', cache')
      <4>1. \A i \in 1 .. Len(cache') : /\ nv'[i].state = cache'[i].state
                                        /\ nv'[i] = cache'[i] \/ nv'[i].val = Torn
        BY <2>2, <3>2
      <4> QED
        BY <2>2, <3>1, <3>2, <4>1 DEF Inv, Stored
    <3> QED
      BY <2>2, <3>3, ScalarsSplit DEF FlashOK
  <2> QED
    BY <2>1, <2>2 DEF ReclaimAndAdd, image, new
<1>6. Scalars'
  BY <1>1, <1>3, <1>5 DEF Inv, Scalars, FlashOK, Return
<1> QED
  BY <1>4, <1>5, <1>6 DEF Inv

\* Reclaim outside of a request.
LEMMA ReclaimStep ==
  ASSUME Inv, WriteServiceInitialize \/ ReclaimForOS
  PROVE  Inv'
<1> DEFINE image == ReclaimedImage(0, 0, <<>>)
<1>1. pc \in Quiet /\ pc' \in Quiet /\ UNCHANGED <<req, curr, inDel, status, atRuntime, reclaimedAtRuntime>>
      /\ reclaimedForOS' \in BOOLEAN
  BY DEF WriteServiceInitialize, ReclaimForOS, Quiet, boot, Inv, Scalars
<1>2. Image(image)
  <2>1. NewRecord(<<>>)
    BY DEF NewRecord
  <2> QED
    BY <2>1, ScalarsSplit, ImageOfReclaim
<1>3. \/ FtwVariableSpaceDone(image) \/ FtwVariableSpaceFailed(image)
      \/ UNCHANGED <<nv, pending, cache, writeFailed, ftwFailed, errors>>
  BY DEF WriteServiceInitialize, ReclaimForOS
<1> HIDE DEF image
<1>4. Stored(nv', cache') /\ FlashOK'
  <2>1. CASE FtwVariableSpaceDone(image) \/ FtwVariableSpaceFailed(image)
    BY <1>2, <2>1, ScalarsSplit, FtwStep
  <2>2. CASE UNCHANGED <<nv, pending, cache, writeFailed, ftwFailed, errors>>
    BY <2>2, ScalarsSplit DEF FlashOK
  <2> QED
    BY <1>3, <2>1, <2>2
<1>5. Request'
  BY <1>1, QuietRequest DEF Inv, Request
<1>6. Scalars'
  BY <1>1, <1>4 DEF Inv, Scalars, FlashOK
<1> QED
  BY <1>4, <1>5, <1>6 DEF Inv

LEMMA PowerCycleStep ==
  ASSUME Inv, PowerCycle
  PROVE  Inv'
<1> DEFINE found == IF pending = {} THEN nv ELSE CHOOSE image \in pending : TRUE
<1>1. nv' = found /\ pending' = {} /\ cache' = Walk(found)
  BY DEF PowerCycle
<1>2. Stored(found, Walk(found))
  <2>1. CASE pending = {}
    <3>1. found = nv
      BY <2>1
    <3>2. Flash(nv)
      BY DEF Inv, Stored
    <3>3. Stored(nv, Walk(nv))
      BY <3>2, WalkIsStored
    <3> HIDE DEF found
    <3> QED
      BY <3>1, <3>3
  <2>2. CASE pending # {}
    <3>1. PICK image : pending = {image} /\ Image(image)
      BY <2>2 DEF Inv, Scalars
    <3>2. found = image
      BY <2>2, <3>1
    <3> QED
      BY <3>1, <3>2, ImageIsStored
  <2> QED
    BY <2>1, <2>2
<1>3. Stored(nv', cache')
  BY <1>1, <1>2
<1>4. Request'
  BY QuietRequest DEF PowerCycle, Quiet
<1>5. Scalars'
  BY DEF PowerCycle, Inv, Scalars
<1> QED
  BY <1>3, <1>4, <1>5 DEF Inv

\* Every step keeps the invariant.
LEMMA InvStep ==
  ASSUME Inv, [Next]_vars
  PROVE  Inv'
<1>1. CASE PowerCycle
  BY <1>1, PowerCycleStep
<1>2. CASE WriteServiceInitialize \/ ReclaimForOS
  BY <1>2, ReclaimStep
<1>3. CASE ExitBootServices
  <2>1. pc = "idle" /\ UNCHANGED <<nv, pending, cache, reclaimedAtRuntime, reclaimedForOS,
                 pc, req, curr, inDel, status, writeFailed, ftwFailed, errors>> /\ atRuntime' = TRUE
    BY <1>3 DEF ExitBootServices
  <2>2. Request'
    BY <2>1, QuietRequest DEF Inv, Request, Quiet
  <2> QED
    BY <2>1, <2>2 DEF Inv, Scalars
<1>4. CASE \E n \in Names : \E v \in Contents[n] \cup {Deleted} : SetVariable(n, v)
  BY <1>4, SetVariableStep
<1>5. CASE SetVariableReturn
  <2>1. pc = "done" /\ pc' = "idle" /\ req' = NoRequest /\ status' = "none" /\ UNCHANGED boot
        /\ UNCHANGED <<nv, pending, cache, curr, inDel, writeFailed, ftwFailed, errors>>
    BY <1>5 DEF SetVariableReturn
  <2>2. Request'
    BY <2>1, QuietRequest DEF Inv, Request, Quiet
  <2> QED
    BY <2>1, <2>2 DEF Inv, Scalars, boot
<1>6. CASE MarkOld \/ DeleteInDel \/ DeleteCurr
  BY <1>6, MarkStep, DeleteInDelStep, DeleteCurrStep
<1>7. CASE OutOfSpace
  <2>1. pc = "add" /\ Return("outOfResources") /\ UNCHANGED boot
        /\ UNCHANGED <<nv, pending, cache, req, writeFailed, ftwFailed, errors>>
    BY <1>7 DEF OutOfSpace
  <2>2. Request'
    BY <2>1, DoneRequest DEF Inv, Quiet, Return
  <2> QED
    BY <2>1, <2>2 DEF Inv, Scalars, boot, Return
<1>8. CASE ReclaimAndAdd \/ AddStep1 \/ AddStep2
  BY <1>8, ReclaimAndAddStep, AddStep1Step, AddStep2Step
<1>9. CASE UNCHANGED vars
  BY <1>9 DEF vars, Inv, Scalars, Request, Points
<1> QED
  BY <1>1, <1>2, <1>3, <1>4, <1>5, <1>6, <1>7, <1>8, <1>9 DEF Next

LEMMA InvInit == Init => Inv
<1> SUFFICES ASSUME Init PROVE Inv
  OBVIOUS
<1>1. Stored(nv, cache)
  BY DEF Init, Stored, Flash, Rest
<1>2. Scalars
  <2>1. 0 \in 0 .. MaxErrors
    BY ErrorsAssumption
  <2> QED
    BY <2>1 DEF Init, Scalars
<1>3. Request
  BY DEF Init, Request, Quiet, Deleting, Writing, Retiring
<1> QED
  BY <1>1, <1>2, <1>3 DEF Inv

----------------------------------------------------------------------------
(* The free area.                                                          *)

\* Behind the last record there is nothing but the record being added.
Room == ~writeFailed /\ pc # "readOnly" =>
          /\ Len(nv) = IF pc = "setAdded" THEN Len(cache) + 1 ELSE Len(cache)
          /\ ~EndsInStub(cache)

LEMMA RoomStep ==
  ASSUME Inv, Room, [Next]_vars
  PROVE  Room'
<1>0. /\ nv \in Seq(Records) /\ cache \in Seq(Records) /\ Len(nv) \in Nat /\ Len(cache) \in Nat
      /\ writeFailed \in BOOLEAN /\ Inv' /\ cache' \in Seq(Records)
  BY InvStep DEF Inv, Stored, Flash, Scalars
<1>0a. ASSUME Len(cache') = Len(cache), Len(cache) # 0 => (Stub(cache'[Len(cache)]) => Stub(cache[Len(cache)])),
              ~EndsInStub(cache)
       PROVE  ~EndsInStub(cache')
  BY <1>0, <1>0a DEF EndsInStub
<1>1. ASSUME NEW image, Image(image), FtwVariableSpaceDone(image) \/ FtwVariableSpaceFailed(image),
             pc' # "setAdded"
      PROVE  Room'
  <2>1. CASE FtwVariableSpaceDone(image)
    <3>1. nv' = image /\ cache' = image
      BY <2>1 DEF FtwVariableSpaceDone
    <3>2. ~EndsInStub(image)
      BY <1>1 DEF Image, EndsInStub, Stub
    <3> QED
      BY <1>1, <3>1, <3>2 DEF Room
  <2>2. CASE FtwVariableSpaceFailed(image)
    BY <2>2 DEF FtwVariableSpaceFailed, Room
  <2> QED
    BY <1>1, <2>1, <2>2
<1>2. ASSUME RequestFails PROVE Room'
  BY <1>2 DEF RequestFails, Room
<1>3. ASSUME UNCHANGED <<nv, cache, writeFailed>>, pc # "readOnly", pc # "setAdded", pc' # "setAdded"
      PROVE  Room'
  BY <1>3 DEF Room
<1>4. ASSUME NEW i, NEW st \in {"inDeletedTransition", "deleted"}, SetState(i, st), UNCHANGED writeFailed,
             pc # "readOnly", pc # "setAdded", pc' # "setAdded"
      PROVE  Room'
  <2> DEFINE Set(r) == [r EXCEPT !.state = st,
                                 !.val = IF st = "deleted" /\ @ # Torn THEN Deleted ELSE @]
  <2>1. nv' = [nv EXCEPT ![i] = Set(nv[i])] /\ cache' = [cache EXCEPT ![i] = Set(cache[i])]
    BY <1>4 DEF SetState
  <2>2. \A j \in 1 .. Len(cache) : cache[j] \in Records
    BY <1>0
  <2>3. \A r \in Records : ~Stub(Set(r))
    BY <1>4 DEF Records, Stub
  <2> HIDE DEF Set
  <2>4. Len(nv') = Len(nv) /\ Len(cache') = Len(cache)
    BY <1>0, <2>1
  <2>5. \A j \in 1 .. Len(cache) : cache'[j] = cache[j] \/ cache'[j] = Set(cache[j])
    BY <1>0, <2>1
  <2>6. Len(cache) # 0 => (Stub(cache'[Len(cache)]) => Stub(cache[Len(cache)]))
    BY <1>0, <2>2, <2>3, <2>5
  <2> QED
    BY <1>0a, <1>4, <2>4, <2>6 DEF Room
<1>5. CASE PowerCycle
  BY <1>5 DEF PowerCycle, Room
<1>5a. \A u, v, new : NewRecord(new) => Image(ReclaimedImage(u, v, new))
  BY ImageOfReclaim DEF Inv
<1>5b. Image(ReclaimedImage(0, 0, <<>>))
  BY <1>5a DEF NewRecord
<1>6. CASE WriteServiceInitialize
  <2>1. pc' = "idle"
    BY <1>6 DEF WriteServiceInitialize
  <2>2. CASE FreeAreaIsFree /\ UNCHANGED <<nv, cache>>
    BY <2>1, <2>2 DEF Room, FreeAreaIsFree
  <2> QED
    BY <1>1, <1>5b, <1>6, <2>1, <2>2 DEF WriteServiceInitialize
<1>7. CASE ReclaimForOS
  <2>1. pc = "idle" /\ pc' = "idle"
    BY <1>7 DEF ReclaimForOS
  <2> QED
    BY <1>1, <1>3, <1>5b, <1>7, <2>1 DEF ReclaimForOS
<1>8. CASE ExitBootServices \/ SetVariableReturn \/ OutOfSpace
  BY <1>3, <1>8 DEF ExitBootServices, SetVariableReturn, OutOfSpace, Return
<1>9. CASE \E n \in Names : \E v \in Contents[n] \cup {Deleted} : SetVariable(n, v)
  <2>1. PICK n \in Names : \E v \in Contents[n] \cup {Deleted} : SetVariable(n, v)
    BY <1>9
  <2>2. pc = "idle" /\ pc' # "setAdded"
    BY <2>1 DEF SetVariable, Return, FirstOperation
  <2> QED
    BY <1>3, <2>1, <2>2 DEF SetVariable
<1>10. CASE MarkOld \/ DeleteInDel \/ DeleteCurr
  BY <1>2, <1>4, <1>10 DEF MarkOld, DeleteInDel, DeleteCurr, WriteFails, Return
<1>11. CASE ReclaimAndAdd
  <2>1. pc = "add" /\ pc' = "done"
    BY <1>11 DEF ReclaimAndAdd, Return
  <2>2. CASE cache' = SubSeq(nv, 1, Len(cache)) /\ UNCHANGED <<nv, writeFailed>>
    <3>1. Len(cache) \in 0 .. Len(nv) /\ \A i \in 1 .. Len(cache) : nv[i].state = cache[i].state
      BY <1>0 DEF Inv, Stored
    <3>2. Len(cache') = Len(cache) /\ \A i \in 1 .. Len(cache) : cache'[i] = nv[i]
      BY <1>0, <2>2, <3>1, PrefixEntries
    <3>3. Len(cache) # 0 => (Stub(cache'[Len(cache)]) => Stub(cache[Len(cache)]))
      BY <1>0, <3>1, <3>2 DEF Stub
    <3> QED
      BY <1>0a, <2>1, <2>2, <3>2, <3>3 DEF Room
  <2>3. Image(ReclaimedImage(curr, inDel, <<Record(req.name, req.val, "added")>>))
    <3>1. NewRecord(<<Record(req.name, req.val, "added")>>)
      BY <2>1, NewRecords DEF NewRecord
    <3> QED
      BY <1>5a, <3>1
  <2> QED
    BY <1>1, <1>11, <2>1, <2>2, <2>3 DEF ReclaimAndAdd
<1>12. CASE AddStep1
  <2>1. pc = "add"
    BY <1>12 DEF AddStep1
  <2>2. CASE pc' = "setAdded" /\ UNCHANGED <<cache, writeFailed>>
    <3>1. Len(nv') = Len(cache') + 1
      BY <1>0, <2>2 DEF Inv, Request
    <3> QED
      BY <2>1, <2>2, <3>1 DEF Room
  <2> QED
    BY <1>2, <1>12, <2>2 DEF AddStep1, WriteFails
<1>13. CASE AddStep2
  <2>1. pc = "setAdded"
    BY <1>13 DEF AddStep2
  <2>2. Len(nv) = Len(cache) + 1
    BY <2>1 DEF Inv, Request
  <2>3. CASE /\ nv' = [nv EXCEPT ![Len(cache) + 1].state = "added"]
             /\ cache' = Append(cache, Record(req.name, req.val, "added"))
             /\ pc' # "setAdded"
    <3> DEFINE new == Record(req.name, req.val, "added")
    <3>1. ~Stub(new)
      BY DEF Record, Stub
    <3> HIDE DEF new
    <3>2. Len(nv') = Len(nv) /\ Len(cache') = Len(cache) + 1 /\ cache'[Len(cache) + 1] = new
      BY <1>0, <2>3 DEF new
    <3>3. ~EndsInStub(cache')
      BY <3>1, <3>2 DEF EndsInStub
    <3> QED
      BY <2>2, <2>3, <3>2, <3>3 DEF Room
  <2> QED
    BY <1>2, <1>13, <2>3 DEF AddStep2, WriteFails, Return
<1>14. CASE UNCHANGED vars
  BY <1>14 DEF vars, Room
<1> QED
  BY <1>5, <1>6, <1>7, <1>8, <1>9, <1>10, <1>11, <1>12, <1>13, <1>14 DEF Next

\* VariableWriteServiceInitialize and Reclaim leave no record behind the last
\* one: while the flash has failed no write, a request finds its free area
\* erased, whenever power failed before.
THEOREM FreeAreaIsErased == Spec => []FreeAreaErased
<1>1. Init => Inv /\ Room
  BY InvInit DEF Init, Room
<1>2. Inv /\ Room /\ [Next]_vars => Inv' /\ Room'
  BY InvStep, RoomStep
<1>3. Room => FreeAreaErased
  BY DEF Room, FreeAreaErased, FreeAreaIsFree
<1> QED
  BY <1>1, <1>2, <1>3, PTL DEF Spec

----------------------------------------------------------------------------
(* Updates are atomic.                                                     *)

\* SetVariable has no status before it returns.
Silent == pc # "done" => status = "none"

LEMMA SilentStep ==
  ASSUME Inv, Silent, [Next]_vars
  PROVE  Silent'
<1>1. ASSUME UNCHANGED status, pc # "done" PROVE Silent'
  BY <1>1 DEF Silent
<1>2. ASSUME NEW s, Return(s) PROVE Silent'
  BY <1>2 DEF Return, Silent
<1>3. CASE PowerCycle \/ SetVariableReturn
  BY <1>3 DEF PowerCycle, SetVariableReturn, Silent
<1>4. CASE WriteServiceInitialize \/ ReclaimForOS \/ ExitBootServices
  BY <1>1, <1>4 DEF WriteServiceInitialize, ReclaimForOS, ExitBootServices
<1>5. CASE \E n \in Names : \E v \in Contents[n] \cup {Deleted} : SetVariable(n, v)
  <2>1. PICK n \in Names : \E v \in Contents[n] \cup {Deleted} : SetVariable(n, v)
    BY <1>5
  <2>2. PICK v \in Contents[n] \cup {Deleted} : SetVariable(n, v)
    BY <2>1
  <2>3. Return("notFound") \/ Return("success") \/ status' = "none"
    BY <2>2 DEF SetVariable
  <2> QED
    BY <1>2, <2>3 DEF Silent
<1>6. CASE MarkOld \/ DeleteInDel \/ DeleteCurr
  BY <1>1, <1>2, <1>6 DEF MarkOld, DeleteInDel, DeleteCurr, WriteFails, RequestFails
<1>7. CASE OutOfSpace \/ ReclaimAndAdd
  BY <1>2, <1>7 DEF OutOfSpace, ReclaimAndAdd
<1>8. CASE AddStep1 \/ AddStep2
  BY <1>1, <1>2, <1>8 DEF AddStep1, AddStep2, WriteFails, RequestFails
<1>9. CASE UNCHANGED vars
  BY <1>9 DEF vars, Silent
<1> QED
  BY <1>3, <1>4, <1>5, <1>6, <1>7, <1>8, <1>9 DEF Next

\* Where no record was programmed over another, a reader of the cache finds what
\* a walk over the flash finds.
Agrees(w, c) ==
  \A n : \A st \in {"added", InTransition} :
    /\ Positions(w, n, st) = Positions(c, n, st)
    /\ \A i \in Positions(c, n, st) : w[i].val = c[i].val

LEMMA AgreesContent ==
  ASSUME NEW w \in Seq(Records), NEW c \in Seq(Records), Agrees(w, c), NEW n
  PROVE  Content(w, n) = Content(c, n) /\ (AtMostOne(w, n) <=> AtMostOne(c, n))
<1>1. /\ \A st \in {"added", InTransition} : Positions(w, n, st) = Positions(c, n, st)
      /\ \A st \in {"added", InTransition} : \A i \in Positions(c, n, st) : w[i].val = c[i].val
  BY DEF Agrees
<1>2. Content(w, n) = Content(c, n)
  BY <1>1, ContentSame
<1> QED
  BY <1>1, <1>2 DEF AtMostOne

Untorn(s) == \A i \in 1 .. Len(s) : s[i].name # Torn /\ s[i].val # Torn

LEMMA CacheIsWalk ==
  ASSUME NEW s, NEW c, Stored(s, c), \A i \in 1 .. Len(c) : s[i].name # Torn /\ s[i].val # Torn
  PROVE  Walk(s) \in Seq(Records) /\ Walk(c) = c /\ Agrees(Walk(s), c)
<1> DEFINE n == Len(c)
<1>1. s \in Seq(Records) /\ c \in Seq(Records) /\ n <= Len(s) /\ n \in Nat /\ Len(s) \in Nat /\ Rest(s, n)
  BY DEF Stored, Flash
<1>2. \A i \in 1 .. n : c[i] = s[i] /\ ~EndsWalk(s, i) /\ ~EndsWalk(c, i)
  <2>1. \A i \in 1 .. n : c[i] = s[i]
    BY DEF Stored
  <2> QED
    BY <2>1 DEF EndsWalk
<1>3. Walk(c) = c
  <2>1. Len(c) <= Len(c) /\ ~(Len(c) < Len(c)) /\ \A i \in 1 .. Len(c) : c[i] = c[i] /\ ~EndsWalk(c, i)
    BY <1>1, <1>2
  <2> QED
    BY <1>1, <2>1, WalkIs
<1>4. CASE n < Len(s) => EndsWalk(s, n + 1)
  <2>1. Walk(s) = c
    BY <1>1, <1>2, <1>4, WalkIs
  <2> QED
    BY <1>1, <1>3, <2>1 DEF Agrees
<1>5. CASE n < Len(s) /\ ~EndsWalk(s, n + 1)
  <2>1. Stub(s[n + 1]) /\ Len(s) = n + 1
    BY <1>5, <1>1 DEF Rest
  <2>2. \A i \in 1 .. n + 1 : i \in 1 .. n \/ i = n + 1
    BY <1>1
  <2>3. \A i \in 1 .. Len(s) : s[i] = s[i] /\ ~EndsWalk(s, i)
    BY <1>2, <1>5, <2>1, <2>2
  <2>4. Walk(s) = s
    BY <1>1, <2>3, WalkIs
  <2>5. DOMAIN s = 1 .. n + 1 /\ DOMAIN c = 1 .. n /\ s[n + 1].state = "erased" /\ 1 .. n \subseteq 1 .. n + 1
    BY <1>1, <2>1 DEF Stub
  <2>6. ASSUME NEW m, NEW st \in {"added", InTransition}
        PROVE  /\ Positions(s, m, st) = Positions(c, m, st)
               /\ \A i \in Positions(c, m, st) : s[i].val = c[i].val
    <3>1. st # "erased"
      BY DEF InTransition
    <3> HIDE DEF n
    <3> QED
      BY <1>2, <2>2, <2>5, <3>1 DEF Positions
  <2> QED
    BY <1>1, <1>3, <2>4, <2>6 DEF Agrees
<1> QED
  BY <1>4, <1>5

\* The records of variable n in any state that FindVariableEx looks at.
Live(w, n) == Positions(w, n, "added") \cup Positions(w, n, InTransition)

LEMMA OrderlyStore ==
  ASSUME Inv, Orderly
  PROVE  /\ Walk(nv) \in Seq(Records) /\ Agrees(Walk(nv), cache)
         /\ Walk(cache) = cache /\ Untorn(nv) /\ pending = {}
         /\ nv \in Seq(Records) /\ cache \in Seq(Records)
         /\ \A n \in Names : n # req.name \/ pc = "done" => AtMostOne(cache, n)
         /\ pc # "done" /\ req.name \in Names =>
              Live(cache, req.name) \subseteq
                {curr, inDel} \cup (IF pc \in Retiring THEN {Len(cache)} ELSE {})
<1>1. Stored(nv, cache) /\ nv \in Seq(Records) /\ cache \in Seq(Records) /\ Len(nv) \in Nat
      /\ Len(cache) <= Len(nv)
  BY DEF Inv, Stored, Flash
<1>2. Untorn(nv) /\ pending = {}
  <2>1. DOMAIN nv = 1 .. Len(nv)
    BY <1>1
  <2> QED
    BY <2>1 DEF Orderly, NothingTorn, Untorn
<1>3. Walk(nv) \in Seq(Records) /\ Walk(cache) = cache /\ Agrees(Walk(nv), cache)
  <2>1. \A i \in 1 .. Len(cache) : i \in 1 .. Len(nv)
    BY <1>1
  <2> QED
    BY <1>1, <1>2, <2>1, CacheIsWalk DEF Untorn
<1>4. ASSUME NEW n \in Names, n # req.name \/ pc = "done" PROVE AtMostOne(cache, n)
  <2>1. Cardinality(Positions(cache, n, "added")) <= 1
        /\ Cardinality(Positions(cache, n, InTransition)) <= 1
    <3>1. Cardinality(Positions(Walk(nv), n, "added")) <= 1
          /\ Cardinality(Positions(Walk(nv), n, InTransition)) <= 1
      BY <1>4 DEF Orderly, RecordsTracked, InTransition
    <3> QED
      BY <1>3, <3>1 DEF Agrees
  <2> QED
    BY <1>1, <2>1, FewAreOne
<1>5. ASSUME pc # "done", req.name \in Names
      PROVE  Live(cache, req.name) \subseteq
                {curr, inDel} \cup (IF pc \in Retiring THEN {Len(cache)} ELSE {})
  <2>1. Live(Walk(nv), req.name) \subseteq
          {curr, inDel} \cup (IF pc \in {"retireInDel", "retireCurr"} THEN {Len(cache)} ELSE {})
    BY <1>5 DEF Orderly, RecordsTracked, InTransition, Live
  <2>2. Live(Walk(nv), req.name) = Live(cache, req.name)
    BY <1>3 DEF Agrees, Live
  <2> QED
    BY <2>1, <2>2 DEF Retiring
<1> QED
  BY <1>1, <1>2, <1>3, <1>4, <1>5

\* The records of the request's variable, operation by operation.
LEMMA RequestRecords ==
  ASSUME Inv, Orderly, pc \notin Quiet \cup {"done"}
  PROVE  /\ req.name \in Names /\ req # NoRequest
         /\ pc \in {"add", "setAdded"} => /\ Positions(cache, req.name, "added") = {}
                                          /\ Positions(cache, req.name, InTransition) \subseteq {curr, inDel}
         /\ pc \in Retiring => /\ Positions(cache, req.name, "added") = {Len(cache)}
                               /\ Len(cache) # curr /\ Len(cache) # inDel
                               /\ One(cache, req.name, req.val)
         /\ pc = "deleteInDel" => Positions(cache, req.name, "added") = {curr}
         /\ pc = "deleteCurr" => Live(cache, req.name) \subseteq {curr}
         /\ pc = "mark" => /\ Live(cache, req.name) \subseteq {curr, inDel}
                           /\ inDel \notin Positions(cache, req.name, "added")
                           /\ curr \in Live(cache, req.name)
                           /\ inDel < curr
         /\ \A n, st : n # req.name => curr \notin Positions(cache, n, st)
                                       /\ inDel \notin Positions(cache, n, st)
<1>0. /\ req.name \in Names
      /\ curr # 0 => Points(cache, curr, {"added", InTransition})
      /\ inDel # 0 => curr # 0 /\ inDel < curr /\ Points(cache, inDel, {InTransition, "deleted"})
      /\ curr \in Nat /\ inDel \in Nat
  BY DEF Inv, Request
<1>1. req # NoRequest
  BY <1>0, NamesAssumption DEF NoRequest
<1>2. cache \in Seq(Records) /\ DOMAIN cache = 1 .. Len(cache) /\ Len(cache) \in Nat
  BY OrderlyStore
<1>3. Live(cache, req.name) \subseteq
         {curr, inDel} \cup (IF pc \in Retiring THEN {Len(cache)} ELSE {})
  BY <1>0, OrderlyStore
<1>4. /\ \A st, i : i \in Positions(cache, req.name, st) <=>
                      i \in 1 .. Len(cache) /\ cache[i].name = req.name /\ cache[i].state = st
  BY <1>2 DEF Positions
<1>5. Positions(cache, req.name, "added") \subseteq Live(cache, req.name)
      /\ Positions(cache, req.name, InTransition) \subseteq Live(cache, req.name)
  BY DEF Live
<1>6. ASSUME pc \in {"add", "setAdded"}
      PROVE  /\ Positions(cache, req.name, "added") = {}
             /\ Positions(cache, req.name, InTransition) \subseteq {curr, inDel}
  <2>1. pc \notin Retiring
    BY <1>6 DEF Retiring
  <2>2. (curr # 0 => cache[curr].state = InTransition) /\ (inDel # 0 => cache[inDel].state = InTransition)
    BY <1>6 DEF Inv, Request, Writing, Retiring
  <2>3. curr \notin Positions(cache, req.name, "added") /\ inDel \notin Positions(cache, req.name, "added")
    BY <1>0, <1>2, <1>4, <2>2 DEF InTransition
  <2> QED
    BY <1>3, <1>5, <2>1, <2>3
<1>7. ASSUME pc \in Retiring
      PROVE  /\ Positions(cache, req.name, "added") = {Len(cache)}
             /\ Len(cache) # curr /\ Len(cache) # inDel
             /\ One(cache, req.name, req.val)
  <2>1. /\ curr # 0 /\ cache[curr].state = InTransition
        /\ inDel # 0 => cache[inDel].state \in {InTransition, "deleted"}
        /\ cache[Len(cache)] = Record(req.name, req.val, "added")
    BY <1>0, <1>7 DEF Inv, Request, Writing, Retiring, Points
  <2>2. cache[Len(cache)].name = req.name /\ cache[Len(cache)].state = "added"
        /\ cache[Len(cache)].val = req.val
    BY <2>1 DEF Record
  <2>3. Len(cache) \in 1 .. Len(cache)
    BY <1>0, <1>2, <2>1 DEF Points
  <2>4. curr \notin Positions(cache, req.name, "added") /\ inDel \notin Positions(cache, req.name, "added")
    BY <1>2, <1>4, <2>1 DEF InTransition
  <2>5. Len(cache) \in Positions(cache, req.name, "added")
    BY <1>4, <2>2, <2>3
  <2>6. Positions(cache, req.name, "added") = {Len(cache)}
    BY <1>3, <1>5, <2>4, <2>5
  <2> QED
    BY <2>2, <2>4, <2>5, <2>6 DEF One
<1>8. ASSUME pc = "deleteInDel" PROVE Positions(cache, req.name, "added") = {curr}
  <2>1. /\ curr # 0 /\ cache[curr].state = "added" /\ inDel # 0 /\ cache[inDel].state = InTransition
        /\ pc \notin Retiring
    BY <1>8 DEF Inv, Request, Deleting, Retiring
  <2>2. curr \in Positions(cache, req.name, "added") /\ inDel \notin Positions(cache, req.name, "added")
    BY <1>0, <1>4, <2>1 DEF Points, InTransition
  <2> QED
    BY <1>3, <1>5, <2>1, <2>2
<1>9. ASSUME pc = "deleteCurr" PROVE Live(cache, req.name) \subseteq {curr}
  <2>1. pc \notin Retiring /\ (inDel # 0 => cache[inDel].state = "deleted")
    BY <1>9 DEF Inv, Request, Retiring
  <2>2. inDel \notin Live(cache, req.name)
    BY <1>2, <1>4, <2>1 DEF Live, InTransition
  <2> QED
    BY <1>3, <2>1, <2>2
<1>10. ASSUME pc = "mark"
       PROVE  /\ Live(cache, req.name) \subseteq {curr, inDel}
              /\ inDel \notin Positions(cache, req.name, "added")
              /\ curr \in Live(cache, req.name)
              /\ inDel < curr
  <2>1. pc \notin Retiring /\ curr # 0 /\ (inDel # 0 => cache[inDel].state = InTransition)
    BY <1>10 DEF Inv, Request, Retiring
  <2>2. inDel \notin Positions(cache, req.name, "added")
    BY <1>2, <1>4, <2>1 DEF InTransition
  <2>3. curr \in Live(cache, req.name)
    BY <1>0, <1>4, <2>1 DEF Points, Live
  <2>4. inDel < curr
    BY <1>0, <2>1
  <2> QED
    BY <1>3, <2>1, <2>2, <2>3, <2>4
<1>11. ASSUME NEW n, NEW st, n # req.name
       PROVE  curr \notin Positions(cache, n, st) /\ inDel \notin Positions(cache, n, st)
  <2>1. \A i \in Positions(cache, n, st) : i \in 1 .. Len(cache) /\ cache[i].name = n
    BY <1>2 DEF Positions
  <2> QED
    BY <1>0, <1>2, <1>11, <2>1 DEF Points
<1> QED
  BY <1>0, <1>1, <1>6, <1>7, <1>8, <1>9, <1>10, <1>11

\* What a change of record i's State makes of the records w.
Restated(w, x, i, st) ==
  /\ x \in Seq(Records) /\ \A j \in 1 .. Len(w) : j # i => x[j] = w[j]
  /\ st # "deleted" => x[i].val = w[i].val
  /\ \A n : w[i].name # n => Content(x, n) = Content(w, n) /\ (AtMostOne(w, n) => AtMostOne(x, n))
  /\ \A t : t # st => Positions(x, w[i].name, t) = Positions(w, w[i].name, t) \ {i}
  /\ Positions(x, w[i].name, st) = Positions(w, w[i].name, st) \cup {i}

LEMMA StateChanged ==
  ASSUME NEW w \in Seq(Records), NEW i \in 1 .. Len(w), NEW st \in {InTransition, "deleted"},
         NEW x, x = [w EXCEPT ![i] = ToState(w[i], st)]
  PROVE  Restated(w, x, i, st)
<1>1. /\ x \in Seq(Records) /\ Len(x) = Len(w)
      /\ \A j \in 1 .. Len(w) : j # i => x[j] = w[j]
      /\ x[i].name = w[i].name /\ x[i].state = st
      /\ st # "deleted" => x[i].val = w[i].val
  BY SetStateRecords
<1>2. DOMAIN x = 1 .. Len(w) /\ DOMAIN w = 1 .. Len(w)
  BY <1>1
<1>3. ASSUME NEW n, w[i].name # n
      PROVE  Content(x, n) = Content(w, n) /\ (AtMostOne(w, n) => AtMostOne(x, n))
  <2>1. \A t : Positions(x, n, t) = Positions(w, n, t)
    BY <1>1, <1>2, <1>3 DEF Positions
  <2>2. \A t : \A j \in Positions(w, n, t) : x[j].val = w[j].val
    BY <1>1, <1>2, <1>3 DEF Positions
  <2>3. /\ \A t \in {"added", InTransition} : Positions(x, n, t) = Positions(w, n, t)
        /\ \A t \in {"added", InTransition} : \A j \in Positions(w, n, t) : x[j].val = w[j].val
    BY <2>1, <2>2
  <2>4. x \in Seq(Records)
    BY <1>1
  <2> QED
    BY ONLY w \in Seq(Records), <2>3, <2>4, ContentSame
<1>4. /\ \A t : t # st => Positions(x, w[i].name, t) = Positions(w, w[i].name, t) \ {i}
      /\ Positions(x, w[i].name, st) = Positions(w, w[i].name, st) \cup {i}
  BY <1>1, <1>2 DEF Positions
<1> QED
  BY <1>1, <1>3, <1>4 DEF Restated

\* What a step does to the records that a walk over the flash finds.
AddedOnce(x, n) == \A i, j \in Positions(x, n, "added") : i = j
OneAdded(x) == \A n \in Names : AddedOnce(x, n)
Same(w, x) == \A n \in Names : Content(x, n) = Content(w, n)
Shows(w, x) == \A n \in Names : Content(x, n) = IF n = req.name THEN req.val ELSE Content(w, n)
Sound(w, x) == OneAdded(x) /\ (Same(w, x) \/ (req # NoRequest /\ Shows(w, x)))
Succeeds == status' = "success" => Content(Walk(nv'), req.name) = req.val
                                   /\ Content(Walk(cache'), req.name) = req.val

LEMMA SoundBy ==
  ASSUME NEW w, NEW x, req.name \in Names, req # NoRequest,
         \A n \in Names : n # req.name => AddedOnce(x, n) /\ Content(x, n) = Content(w, n),
         AddedOnce(x, req.name),
         Content(x, req.name) = Content(w, req.name) \/ Content(x, req.name) = req.val
  PROVE  Sound(w, x)
<1>1. OneAdded(x)
  BY DEF OneAdded
<1>2. CASE Content(x, req.name) = Content(w, req.name)
  BY <1>1, <1>2 DEF Sound, Same
<1>3. CASE Content(x, req.name) = req.val
  BY <1>1, <1>3 DEF Sound, Shows
<1> QED
  BY <1>2, <1>3

\* Sound of the cache is sound of what a walk over the flash finds.
Walks(s, c) == Walk(s) \in Seq(Records) /\ c \in Seq(Records) /\ Agrees(Walk(s), c)

LEMMA WalksSound ==
  ASSUME NEW s, NEW c, NEW t, NEW d, Walks(s, c), Walks(t, d)
  PROVE  /\ Sound(c, d) => Sound(Walk(s), Walk(t))
         /\ Content(Walk(t), req.name) = Content(d, req.name)
<1>1. /\ \A n : Content(Walk(s), n) = Content(c, n)
      /\ \A n : Content(Walk(t), n) = Content(d, n)
  BY AgreesContent DEF Walks
<1>2. \A n : Positions(Walk(t), n, "added") = Positions(d, n, "added")
  BY DEF Walks, Agrees
<1>3. OneAdded(d) => OneAdded(Walk(t))
  BY <1>2 DEF OneAdded, AddedOnce
<1>4. Same(c, d) => Same(Walk(s), Walk(t))
  BY <1>1 DEF Same
<1>5. Shows(c, d) => Shows(Walk(s), Walk(t))
  BY <1>1 DEF Shows
<1> QED
  BY <1>1, <1>3, <1>4, <1>5 DEF Sound

LEMMA SetStateSound ==
  ASSUME Inv, Orderly, pc \notin Quiet \cup {"done"}, NEW i \in {curr, inDel}, i # 0,
         NEW st \in {InTransition, "deleted"}, SetState(i, st)
  PROVE  /\ Walks(nv', cache') /\ Walk(cache') = cache' /\ cache' \in Seq(Records)
         /\ \A j \in 1 .. Len(cache) : j # i => cache'[j] = cache[j]
         /\ st # "deleted" => cache'[i].val = cache[i].val
         /\ \A n \in Names : n # req.name =>
              AddedOnce(cache', n) /\ Content(cache', n) = Content(cache, n)
         /\ \A t : t # st => Positions(cache', req.name, t) = Positions(cache, req.name, t) \ {i}
         /\ Positions(cache', req.name, st) = Positions(cache, req.name, st) \cup {i}
<1>1. i \in 1 .. Len(cache) /\ cache[i].name = req.name /\ ~Stub(cache[i])
  BY DEF Inv, Request, Points, Stub, InTransition
<1>2. /\ Untorn(nv) /\ nv \in Seq(Records) /\ cache \in Seq(Records)
      /\ \A n \in Names : n # req.name \/ pc = "done" => AtMostOne(cache, n)
  BY OrderlyStore
<1>3. /\ Stored(nv', cache')
      /\ nv' = [nv EXCEPT ![i] = ToState(nv[i], st)]
      /\ cache' = [cache EXCEPT ![i] = ToState(cache[i], st)]
  BY <1>1, SetStateStep DEF Inv
<1>4. i \in 1 .. Len(nv) /\ Len(cache) <= Len(nv) /\ Len(cache) \in Nat /\ Len(nv) \in Nat
      /\ Len(cache') = Len(cache)
  BY <1>1, <1>2, <1>3 DEF Inv, Stored, Flash
<1>5. /\ \A j \in 1 .. Len(nv) : j # i => nv'[j] = nv[j]
      /\ nv'[i] = ToState(nv[i], st) /\ nv'[i].name = nv[i].name
  BY <1>2, <1>3, <1>4, SetStateRecords
<1>6. nv'[i].val # Torn
  <2>1. nv[i] \in Records /\ nv[i].val # Torn
    BY <1>2, <1>4 DEF Untorn
  <2>2. ToState(nv[i], st).val \in {nv[i].val, Deleted}
    BY <2>1 DEF ToState, Records
  <2> QED
    BY <1>5, <2>1, <2>2, ContentsAssumption
<1>7. ASSUME NEW j \in 1 .. Len(cache') PROVE nv'[j].name # Torn /\ nv'[j].val # Torn
  <2>1. j \in 1 .. Len(nv)
    BY <1>4
  <2> QED
    BY <1>2, <1>5, <1>6, <2>1 DEF Untorn
<1>8. Walks(nv', cache') /\ Walk(cache') = cache'
  <2>1. cache' \in Seq(Records)
    BY <1>3 DEF Stored
  <2>2. \A j \in 1 .. Len(cache') : nv'[j].name # Torn /\ nv'[j].val # Torn
    BY <1>7
  <2>3. Walk(nv') \in Seq(Records) /\ Walk(cache') = cache' /\ Agrees(Walk(nv'), cache')
    BY <1>3, <2>2, CacheIsWalk
  <2> QED
    BY <2>1, <2>3 DEF Walks
<1>9. Restated(cache, cache', i, st)
  BY <1>1, <1>2, <1>3, StateChanged
<1> QED
  BY <1>1, <1>2, <1>8, <1>9 DEF Restated, AtMostOne, AddedOnce

LEMMA MarkSound ==
  ASSUME Inv, Orderly, Silent, MarkOld
  PROVE  (nv' # nv => Sound(Walk(nv), Walk(nv'))) /\ Succeeds
<1>1. pc = "mark" /\ status' # "success"
  BY DEF MarkOld, WriteFails, RequestFails, Return, Silent
<1>2. CASE nv' = nv
  BY <1>1, <1>2 DEF Succeeds
<1>3. CASE nv' # nv
  <2>1. SetState(curr, InTransition)
    BY <1>3 DEF MarkOld, WriteFails, InTransition
  <2>2. curr # 0 /\ inDel \in Nat /\ curr \in Nat
    BY <1>1 DEF Inv, Request
  <2> DEFINE A == Positions(cache, req.name, "added")
             T == Positions(cache, req.name, InTransition)
             A1 == Positions(cache', req.name, "added")
             T1 == Positions(cache', req.name, InTransition)
  <2>3. /\ req.name \in Names /\ req # NoRequest
        /\ A \cup T \subseteq {curr, inDel} /\ inDel \notin A /\ curr \in A \cup T /\ inDel < curr
    BY <1>1, RequestRecords DEF Quiet, Live
  <2>4. /\ Walks(nv', cache') /\ cache' \in Seq(Records)
        /\ cache'[curr].val = cache[curr].val
        /\ \A n \in Names : n # req.name =>
              AddedOnce(cache', n) /\ Content(cache', n) = Content(cache, n)
        /\ A1 = A \ {curr} /\ T1 = T \cup {curr}
    BY <1>1, <2>1, <2>2, SetStateSound DEF Quiet, InTransition
  <2>5. Walks(nv, cache) /\ cache \in Seq(Records)
    BY OrderlyStore DEF Walks
  <2> HIDE DEF A, T, A1, T1
  <2>6. A1 = {} /\ curr \in T1 /\ \A j \in T1 : j <= curr
    BY <2>2, <2>3, <2>4
  <2>7. Content(cache', req.name) = cache[curr].val
    BY <2>4, <2>6, ContentOf DEF A1, T1
  <2>8. Content(cache, req.name) = cache[curr].val
    <3>1. CASE curr \in A
      <4>1. A = {curr}
        BY <2>3, <3>1
      <4>2. One(cache, req.name, cache[curr].val)
        BY <4>1 DEF One, A
      <4> QED
        BY <2>5, <4>2, ContentOf
    <3>2. CASE curr \notin A
      <4>1. A = {} /\ curr \in T /\ \A j \in T : j <= curr
        BY <2>2, <2>3, <3>2
      <4> QED
        BY <2>5, <4>1, ContentOf DEF A, T
    <3> QED
      BY <3>1, <3>2
  <2>9. Sound(cache, cache')
    BY <2>3, <2>4, <2>6, <2>7, <2>8, SoundBy DEF A1, AddedOnce
  <2> QED
    BY <1>1, <2>4, <2>5, <2>9, WalksSound DEF Succeeds
<1> QED
  BY <1>2, <1>3

LEMMA DeleteInDelSound ==
  ASSUME Inv, Orderly, Silent, DeleteInDel
  PROVE  (nv' # nv => Sound(Walk(nv), Walk(nv'))) /\ Succeeds
<1>1. pc \in {"deleteInDel", "retireInDel"} /\ status' # "success"
  BY DEF DeleteInDel, WriteFails, RequestFails, Return, Silent
<1>2. CASE nv' = nv
  BY <1>1, <1>2 DEF Succeeds
<1>3. CASE nv' # nv
  <2>1. SetState(inDel, "deleted")
    BY <1>3 DEF DeleteInDel, WriteFails
  <2>2. inDel # 0 /\ inDel < curr /\ inDel \in Nat /\ curr \in Nat /\ curr \in 1 .. Len(cache)
    BY <1>1 DEF Inv, Request, Points
  <2>3. /\ req.name \in Names /\ req # NoRequest
        /\ \E k \in 1 .. Len(cache) : k # inDel /\ Positions(cache, req.name, "added") = {k}
    <3>1. Len(cache) \in 1 .. Len(cache)
      BY <2>2
    <3> QED
      BY <1>1, <2>2, <3>1, RequestRecords DEF Quiet, Retiring
  <2>4. PICK k \in 1 .. Len(cache) : k # inDel /\ Positions(cache, req.name, "added") = {k}
    BY <2>3
  <2>5. /\ Walks(nv', cache') /\ cache' \in Seq(Records) /\ cache'[k] = cache[k]
        /\ \A n \in Names : n # req.name =>
              AddedOnce(cache', n) /\ Content(cache', n) = Content(cache, n)
        /\ Positions(cache', req.name, "added") = {k}
    BY <1>1, <2>1, <2>2, <2>4, SetStateSound DEF Quiet
  <2>6. Walks(nv, cache) /\ cache \in Seq(Records)
    BY OrderlyStore DEF Walks
  <2>7. One(cache, req.name, cache[k].val) /\ One(cache', req.name, cache[k].val)
    BY <2>4, <2>5 DEF One
  <2>8. Content(cache', req.name) = Content(cache, req.name)
    BY <2>5, <2>6, <2>7, ContentOf
  <2>9. Sound(cache, cache')
    BY <2>3, <2>5, <2>8, SoundBy DEF AddedOnce
  <2> QED
    BY <1>1, <2>5, <2>6, <2>9, WalksSound DEF Succeeds
<1> QED
  BY <1>2, <1>3

LEMMA DeleteCurrSound ==
  ASSUME Inv, Orderly, Silent, DeleteCurr
  PROVE  (nv' # nv => Sound(Walk(nv), Walk(nv'))) /\ Succeeds
<1>1. pc \in {"deleteCurr", "retireCurr"}
  BY DEF DeleteCurr
<1>2. CASE WriteFails
  BY <1>2 DEF WriteFails, RequestFails, Return, Succeeds
<1>3. CASE SetState(curr, "deleted")
  <2>1. curr # 0 /\ curr \in 1 .. Len(cache) /\ (pc = "deleteCurr" => req.val = Deleted)
    BY <1>1 DEF Inv, Request, Points, Deleting, Retiring
  <2>2. req.name \in Names /\ req # NoRequest
    BY <1>1, RequestRecords DEF Quiet
  <2>3. /\ Walks(nv', cache') /\ Walk(cache') = cache' /\ cache' \in Seq(Records)
        /\ \A j \in 1 .. Len(cache) : j # curr => cache'[j] = cache[j]
        /\ \A n \in Names : n # req.name =>
              AddedOnce(cache', n) /\ Content(cache', n) = Content(cache, n)
        /\ \A t : t # "deleted" => Positions(cache', req.name, t) = Positions(cache, req.name, t) \ {curr}
    BY <1>1, <1>3, <2>1, SetStateSound DEF Quiet
  <2>4. Walks(nv, cache) /\ cache \in Seq(Records)
    BY OrderlyStore DEF Walks
  <2>5. /\ AddedOnce(cache', req.name)
        /\ Content(cache', req.name) = req.val
    <3>1. CASE pc = "deleteCurr"
      <4>1. Live(cache, req.name) \subseteq {curr}
        BY <3>1, RequestRecords DEF Quiet
      <4>2. Gone(cache', req.name)
        BY <2>3, <4>1 DEF Gone, Live, InTransition
      <4> QED
        BY <2>1, <2>3, <3>1, <4>2, ContentOf DEF Gone, AddedOnce
    <3>2. CASE pc = "retireCurr"
      <4>1. /\ Positions(cache, req.name, "added") = {Len(cache)}
            /\ Len(cache) # curr /\ One(cache, req.name, req.val)
        BY <3>2, RequestRecords DEF Quiet, Retiring
      <4>2. Len(cache) \in 1 .. Len(cache) /\ cache[Len(cache)].val = req.val
        BY <2>1, <4>1 DEF One
      <4>3. Positions(cache', req.name, "added") = {Len(cache)}
            /\ cache'[Len(cache)].val = req.val
        BY <2>3, <4>1, <4>2
      <4>4. One(cache', req.name, req.val)
        BY <4>3 DEF One
      <4> QED
        BY <2>3, <4>3, <4>4, ContentOf DEF AddedOnce
    <3> QED
      BY <1>1, <3>1, <3>2
  <2>6. Sound(cache, cache')
    BY <2>2, <2>3, <2>5, SoundBy
  <2> QED
    BY <2>3, <2>4, <2>5, <2>6, WalksSound DEF Succeeds
<1> QED
  BY <1>2, <1>3 DEF DeleteCurr

LEMMA AddStep1Sound ==
  ASSUME Inv, Orderly, Silent, AddStep1
  PROVE  (nv' # nv => Sound(Walk(nv), Walk(nv'))) /\ Succeeds
<1> DEFINE n == Len(cache)
<1>1. pc = "add" /\ status' # "success" /\ cache' = cache
  BY DEF AddStep1, WriteFails, RequestFails, Return, Silent
<1>2. CASE nv' = nv
  BY <1>1, <1>2 DEF Succeeds
<1>3. CASE nv' # nv
  <2>1. nv' = Programmed
    BY <1>3 DEF AddStep1, WriteFails
  <2>2. /\ Walks(nv, cache) /\ Untorn(nv) /\ nv \in Seq(Records) /\ cache \in Seq(Records)
        /\ \A m \in Names : m # req.name \/ pc = "done" => AtMostOne(cache, m)
    BY OrderlyStore DEF Walks
  <2>3. n \in Nat /\ Len(nv) \in Nat /\ n <= Len(nv)
    BY <2>2 DEF Inv, Stored
  <2>4. \A i \in 1 .. n : nv'[i] = nv[i]
    <3>1. PICK r : NewEntry(r)
      BY <1>1, ProgrammedIs
    <3> QED
      BY <2>1, <3>1 DEF NewEntry
  <2>5. \A i \in 1 .. n : nv'[i].name # Torn /\ nv'[i].val # Torn
    BY <2>2, <2>3, <2>4 DEF Untorn
  <2>6. Walks(nv', cache)
    <3>1. Stored(nv', cache)
      BY <1>1, <2>1, ProgrammedStored
    <3> QED
      BY <2>2, <2>5, <3>1, CacheIsWalk DEF Walks
  <2>7. req.name \in Names /\ req # NoRequest /\ Positions(cache, req.name, "added") = {}
    BY <1>1, RequestRecords DEF Quiet
  <2>8. Sound(cache, cache)
    BY <2>2, <2>7, SoundBy DEF AddedOnce, AtMostOne
  <2> QED
    BY <1>1, <2>2, <2>6, <2>8, WalksSound DEF Succeeds
<1> QED
  BY <1>2, <1>3

\* A store with one record more, that of the request.
LEMMA OneMoreSound ==
  ASSUME NEW w \in Seq(Records), NEW p \in Seq(Records), NEW q \in Seq(Records),
         NEW r, r = Record(req.name, req.val, "added"), Len(q) = Len(p) + 1,
         \A i \in 1 .. Len(p) : q[i] = p[i], q[Len(q)] = r,
         req.name \in Names, req # NoRequest, Positions(p, req.name, "added") = {},
         \A n \in Names : n # req.name => AddedOnce(p, n) /\ Content(p, n) = Content(w, n)
  PROVE  Sound(w, q) /\ Content(q, req.name) = req.val
<1>1. r.state = "added" /\ r.name = req.name /\ r.val = req.val
  BY DEF Record
<1>2. One(q, req.name, req.val) /\ Positions(q, req.name, "added") = {Len(q)}
  <2>1. PICK n : n = r.name
    OBVIOUS
  <2>2. r.name = n /\ Positions(p, n, "added") = {}
    BY <1>1, <2>1
  <2>3. One(q, n, r.val) /\ Positions(q, n, "added") = {Len(q)}
    BY <1>1, <2>2, OneMore
  <2> QED
    BY <1>1, <2>1, <2>3
<1>3. ASSUME NEW n \in Names, n # req.name
      PROVE  AddedOnce(q, n) /\ Content(q, n) = Content(w, n)
  <2>1. \A st : Positions(q, n, st) = Positions(p, n, st)
    BY <1>1, <1>3, OneMore
  <2>2. \A st : \A i \in Positions(p, n, st) : q[i].val = p[i].val
    BY DEF Positions
  <2>3. /\ \A t \in {"added", InTransition} : Positions(q, n, t) = Positions(p, n, t)
        /\ \A t \in {"added", InTransition} : \A j \in Positions(p, n, t) : q[j].val = p[j].val
    BY <2>1, <2>2
  <2>4. Content(q, n) = Content(p, n) /\ (AtMostOne(p, n) => AtMostOne(q, n))
    BY ONLY p \in Seq(Records), q \in Seq(Records), <2>3, ContentSame
  <2> QED
    BY <1>3, <2>1, <2>4 DEF AddedOnce
<1>4. Content(q, req.name) = req.val
  BY <1>2, ContentOf
<1> QED
  BY <1>2, <1>3, <1>4, SoundBy DEF AddedOnce

LEMMA AddStep2Sound ==
  ASSUME Inv, Orderly, Silent, AddStep2
  PROVE  (nv' # nv => Sound(Walk(nv), Walk(nv'))) /\ Succeeds
<1> DEFINE n == Len(cache)
           new == Record(req.name, req.val, "added")
<1>1. pc = "setAdded"
  BY DEF AddStep2
<1>2. CASE WriteFails
  BY <1>2 DEF WriteFails, RequestFails, Return, Succeeds
<1>3. CASE /\ nv' = [nv EXCEPT ![n + 1].state = "added"]
           /\ cache' = Append(cache, new)
  <2>1. /\ Walks(nv, cache) /\ Untorn(nv) /\ nv \in Seq(Records) /\ cache \in Seq(Records)
        /\ \A m \in Names : m # req.name \/ pc = "done" => AtMostOne(cache, m)
    BY OrderlyStore DEF Walks
  <2>2. Len(nv) = n + 1 /\ n \in Nat
    BY <1>1, <2>1 DEF Inv, Request
  <2>3. new \in Records
    BY <1>1, NewRecords
  <2>4. cache' \in Seq(Records) /\ Len(cache') = n + 1 /\ cache'[n + 1] = new
        /\ \A i \in 1 .. n : cache'[i] = cache[i]
    <3> HIDE DEF new
    <3> QED
      BY <1>3, <2>1, <2>3
  <2>5. Stored(nv', cache')
    BY AddStep2Step DEF Inv
  <2>6. ASSUME NEW i \in 1 .. Len(cache') PROVE nv'[i].name # Torn /\ nv'[i].val # Torn
    <3>1. i \in 1 .. Len(nv) /\ nv[i] \in Records /\ n + 1 \in 1 .. Len(nv)
      BY <2>1, <2>2, <2>4
    <3>2. nv[i].name # Torn /\ nv[i].val # Torn
      BY <2>1, <3>1 DEF Untorn
    <3>3. nv' = [nv EXCEPT ![n + 1] = AsAdded(nv[n + 1])]
      BY <1>3 DEF AsAdded
    <3>4. nv'[i] = nv[i] \/ nv'[i] = AsAdded(nv[i])
      BY <2>1, <3>1, <3>3
    <3> QED
      BY <3>1, <3>2, <3>4, AsAddedRecord
  <2>7. Walks(nv', cache') /\ Walk(cache') = cache'
    BY <2>4, <2>5, <2>6, CacheIsWalk DEF Walks
  <2>8. req.name \in Names /\ req # NoRequest /\ Positions(cache, req.name, "added") = {}
    BY <1>1, RequestRecords DEF Quiet
  <2> HIDE DEF n, new
  <2>9. Sound(cache, cache') /\ Content(cache', req.name) = req.val
    <3>1. new = Record(req.name, req.val, "added") /\ Len(cache') = Len(cache) + 1
          /\ (\A i \in 1 .. Len(cache) : cache'[i] = cache[i]) /\ cache'[Len(cache')] = new
      BY <2>4 DEF n, new
    <3>2. \A m \in Names : m # req.name => AddedOnce(cache, m) /\ Content(cache, m) = Content(cache, m)
      BY <2>1 DEF AtMostOne, AddedOnce
    <3>3. cache' \in Seq(Records) /\ cache \in Seq(Records)
      BY <2>1, <2>4
    <3> QED
      BY ONLY <2>8, <3>1, <3>2, <3>3, OneMoreSound
  <2> QED
    BY <2>1, <2>7, <2>9, WalksSound DEF Succeeds
<1> QED
  BY <1>2, <1>3 DEF AddStep2

\* What Reclaim keeps of a variable is what a reader finds of it.
LEMMA KeptShows ==
  ASSUME NEW w \in Seq(Records), NEW p \in Seq(Records), NEW u, NEW v, Kept(w, p, u, v),
         NEW n, AtMostOne(w, n),
         \A st \in {"added", InTransition} : Positions(w, n, st) \cap {u, v} = {}
  PROVE  AddedOnce(p, n) /\ Content(p, n) = Content(w, n)
<1>1. One(p, n, Content(w, n)) \/ (Gone(p, n) /\ Content(w, n) = Deleted)
  BY DEF Kept
<1>2. CASE One(p, n, Content(w, n))
  BY <1>2, ContentOf DEF One, AddedOnce
<1>3. CASE Gone(p, n) /\ Content(w, n) = Deleted
  BY <1>3, ContentOf DEF Gone, AddedOnce
<1> QED
  BY <1>1, <1>2, <1>3

LEMMA ReclaimSound ==
  ASSUME Inv, Orderly, WriteServiceInitialize \/ ReclaimForOS
  PROVE  (nv' # nv => Sound(Walk(nv), Walk(nv'))) /\ req = NoRequest
<1> DEFINE image == ReclaimedImage(0, 0, <<>>)
<1>1. req = NoRequest /\ req.name \notin Names
  BY NamesAssumption DEF WriteServiceInitialize, ReclaimForOS, Inv, Request, Quiet, NoRequest
<1>2. nv' = nv \/ nv' = image
  BY DEF WriteServiceInitialize, ReclaimForOS, FtwVariableSpaceDone, FtwVariableSpaceFailed
<1> HIDE DEF image
<1> DEFINE w == Walk(nv)
<1>3. w \in Seq(Records) /\ nv \in Seq(Records) /\ \A n \in Names : AtMostOne(w, n)
  BY <1>1, OrderlyStore, AgreesContent
<1>4. Walk(nv) \in Seq(Records) /\ Whole(Walk(nv))
  BY <1>3, WalkRecords
<1>5. PICK p \in Seq(Records) :
        ReclaimedImage(0, 0, <<>>) = p \o <<>> /\ Image(p) /\ Kept(Walk(nv), p, 0, 0)
  BY <1>4, ReclaimKeeps
<1>6. image = p /\ Walk(p) = p
  BY <1>5, ConcatEmptySeq, ImageIsStored DEF image
<1> HIDE DEF w
<1>7. ASSUME NEW n \in Names PROVE AddedOnce(p, n) /\ Content(p, n) = Content(w, n)
  <2>1. \A st : Positions(w, n, st) \cap {0, 0} = {}
    BY <1>3, PositionsIn
  <2>2. Kept(w, p, 0, 0)
    BY <1>5 DEF w
  <2> QED
    BY <1>3, <2>1, <2>2, KeptShows
<1>8. Sound(w, p)
  BY <1>7 DEF Sound, Same, OneAdded
<1> QED
  BY <1>1, <1>2, <1>6, <1>8 DEF w

LEMMA ReclaimAndAddSound ==
  ASSUME Inv, Orderly, Silent, ReclaimAndAdd
  PROVE  (nv' # nv => Sound(Walk(nv), Walk(nv'))) /\ Succeeds
<1> DEFINE r == Record(req.name, req.val, "added")
           new == <<r>>
           image == ReclaimedImage(curr, inDel, new)
<1>1. pc = "add"
  BY DEF ReclaimAndAdd
<1>2. /\ nv' = nv \/ nv' = image
      /\ status' = "success" => nv' = image /\ cache' = image
  BY DEF ReclaimAndAdd, FtwVariableSpaceDone, FtwVariableSpaceFailed, Return
<1> DEFINE w == Walk(nv)
<1>3. /\ w \in Seq(Records) /\ nv \in Seq(Records) /\ Agrees(w, cache)
      /\ \A n \in Names : n # req.name \/ pc = "done" => AtMostOne(w, n)
  BY OrderlyStore, AgreesContent
<1>4. Walk(nv) \in Seq(Records) /\ Whole(Walk(nv))
  BY <1>3, WalkRecords
<1>5. r \in Records /\ r.state = "added" /\ r.name # Torn
  BY <1>1, NewRecords
<1> HIDE DEF r
<1>6. PICK p \in Seq(Records) :
        ReclaimedImage(curr, inDel, new) = p \o new /\ Image(p) /\ Kept(Walk(nv), p, curr, inDel)
  BY <1>4, ReclaimKeeps
<1>7. Walk(image) = image
  <2>1. NewRecord(new)
    BY <1>5 DEF NewRecord
  <2> HIDE DEF new
  <2>2. Image(image)
    BY <2>1, ImageOfReclaim DEF Inv
  <2> HIDE DEF image
  <2> QED
    BY <2>2, ImageIsStored
<1>8. image = Append(p, r)
  BY <1>5, <1>6, AppendIsConcat
<1> HIDE DEF image, new, w
<1>9. image \in Seq(Records) /\ Len(image) = Len(p) + 1 /\ image[Len(image)] = r
      /\ \A i \in 1 .. Len(p) : image[i] = p[i]
  BY <1>5, <1>8
<1>10. /\ req.name \in Names /\ req # NoRequest
       /\ Positions(w, req.name, "added") = {}
       /\ Positions(w, req.name, InTransition) \subseteq {curr, inDel}
       /\ \A n : \A st \in {"added", InTransition} : n # req.name =>
            curr \notin Positions(w, n, st) /\ inDel \notin Positions(w, n, st)
  <2>1. /\ req.name \in Names /\ req # NoRequest
        /\ Positions(cache, req.name, "added") = {}
        /\ Positions(cache, req.name, InTransition) \subseteq {curr, inDel}
        /\ \A n, st : n # req.name => curr \notin Positions(cache, n, st)
                                      /\ inDel \notin Positions(cache, n, st)
    BY <1>1, RequestRecords DEF Quiet
  <2>2. \A n : \A st \in {"added", InTransition} : Positions(w, n, st) = Positions(cache, n, st)
    BY <1>3 DEF Agrees
  <2> QED
    BY <2>1, <2>2
<1>11. Positions(p, req.name, "added") = {}
  <2>1. Gone(p, req.name)
    BY <1>3, <1>6, <1>10 DEF Kept, w
  <2> QED
    BY <2>1 DEF Gone
<1>12. ASSUME NEW n \in Names, n # req.name PROVE AddedOnce(p, n) /\ Content(p, n) = Content(w, n)
  <2>1. \A st \in {"added", InTransition} : Positions(w, n, st) \cap {curr, inDel} = {}
    BY <1>10, <1>12
  <2>2. AtMostOne(w, n) /\ Kept(w, p, curr, inDel)
    BY <1>3, <1>6, <1>12 DEF w
  <2> QED
    BY <1>3, <2>1, <2>2, KeptShows
<1>13. Sound(w, image) /\ Content(image, req.name) = req.val
  <2>1. r = Record(req.name, req.val, "added")
    BY DEF r
  <2>2. w \in Seq(Records) /\ p \in Seq(Records)
    BY <1>3
  <2>3. req.name \in Names /\ req # NoRequest
    BY <1>10
  <2>4. \A n \in Names : n # req.name => AddedOnce(p, n) /\ Content(p, n) = Content(w, n)
    BY <1>12
  <2> QED
    BY ONLY <1>9, <1>11, <2>1, <2>2, <2>3, <2>4, OneMoreSound
<1> QED
  BY <1>2, <1>7, <1>13 DEF Succeeds, w

\* Every step from an orderly store is sound.
LEMMA SoundStep ==
  ASSUME Inv, Silent, Orderly, [Next]_vars, vars' # vars
  PROVE  /\ nv' # nv => Sound(Walk(nv), Walk(nv'))
         /\ req # NoRequest => Succeeds
<1>1. CASE PowerCycle
  <2>1. nv' = nv /\ status' = "none"
    BY <1>1, OrderlyStore DEF PowerCycle
  <2> QED
    BY <2>1 DEF Succeeds
<1>2. CASE WriteServiceInitialize \/ ReclaimForOS
  BY <1>2, ReclaimSound
<1>3. CASE ExitBootServices
  BY <1>3 DEF ExitBootServices, Silent, Succeeds
<1>4. CASE \E n \in Names : \E v \in Contents[n] \cup {Deleted} : SetVariable(n, v)
  <2>1. PICK n \in Names : \E v \in Contents[n] \cup {Deleted} : SetVariable(n, v)
    BY <1>4
  <2>2. pc = "idle" /\ nv' = nv
    BY <2>1 DEF SetVariable
  <2>3. req = NoRequest
    BY <2>2 DEF Inv, Request, Quiet
  <2> QED
    BY <2>2, <2>3
<1>5. CASE SetVariableReturn
  BY <1>5 DEF SetVariableReturn, Succeeds
<1>6. CASE MarkOld \/ DeleteInDel \/ DeleteCurr
  BY <1>6, MarkSound, DeleteInDelSound, DeleteCurrSound
<1>7. CASE OutOfSpace
  BY <1>7 DEF OutOfSpace, Return, Succeeds
<1>8. CASE ReclaimAndAdd \/ AddStep1 \/ AddStep2
  BY <1>8, ReclaimAndAddSound, AddStep1Sound, AddStep2Sound
<1>9. vars' = vars => FALSE
  OBVIOUS
<1> QED
  BY <1>1, <1>2, <1>3, <1>4, <1>5, <1>6, <1>7, <1>8, <1>9 DEF Next

LEMMA ViewIs ==
  ASSUME NEW s
  PROVE  View(s) = [n \in Names |-> Content(Walk(s), n)]
BY DEF View, Content

\* The two-phase update, Reclaim and the start after a power loss show every
\* reader of the flash the old or the new content of the variable that is
\* being set, and change no other variable, as long as nothing was programmed
\* over what a failed write left.
THEOREM UpdatesAreAtomic == Spec => UpdatesAtomic
<1>1. Init => Inv /\ Silent
  BY InvInit DEF Init, Silent
<1>2. Inv /\ Silent /\ [Next]_vars => Inv' /\ Silent'
  BY InvStep, SilentStep
<1>3. ASSUME Inv, Silent, [Next]_vars
      PROVE  [nv' # nv /\ Orderly =>
                \/ View(nv') = View(nv)
                \/ req # NoRequest /\ View(nv') = [View(nv) EXCEPT ![req.name] = req.val]]_vars
  <2> SUFFICES ASSUME vars' # vars, nv' # nv, Orderly
               PROVE  \/ View(nv') = View(nv)
                      \/ req # NoRequest /\ View(nv') = [View(nv) EXCEPT ![req.name] = req.val]
    OBVIOUS
  <2>1. Sound(Walk(nv), Walk(nv'))
    BY <1>3, SoundStep
  <2>2. View(nv) = [n \in Names |-> Content(Walk(nv), n)]
        /\ View(nv') = [n \in Names |-> Content(Walk(nv'), n)]
    BY ViewIs
  <2>3. CASE Same(Walk(nv), Walk(nv'))
    BY <2>2, <2>3 DEF Same
  <2>4. CASE req # NoRequest /\ Shows(Walk(nv), Walk(nv'))
    <3>1. View(nv') = [View(nv) EXCEPT ![req.name] = req.val]
      BY <2>2, <2>4 DEF Shows
    <3> QED
      BY <2>4, <3>1
  <2> QED
    BY <2>1, <2>3, <2>4 DEF Sound
<1> QED
  BY <1>1, <1>2, <1>3, PTL DEF Spec, UpdatesAtomic

\* When UpdateVariable returns EFI_SUCCESS, flash and cache show the content
\* that was asked for, unless it was programmed over what a failed write left.
THEOREM SuccessStored == Spec => SuccessIsStored
<1>1. Init => Inv /\ Silent
  BY InvInit DEF Init, Silent
<1>2. Inv /\ Silent /\ [Next]_vars => Inv' /\ Silent'
  BY InvStep, SilentStep
<1>3. ASSUME Inv, Silent, [Next]_vars
      PROVE  [status' = "success" /\ req # NoRequest /\ Orderly =>
                View(nv')[req.name] = req.val /\ View(cache')[req.name] = req.val]_vars
  <2> SUFFICES ASSUME vars' # vars, status' = "success", req # NoRequest, Orderly
               PROVE  View(nv')[req.name] = req.val /\ View(cache')[req.name] = req.val
    OBVIOUS
  <2>1. Content(Walk(nv'), req.name) = req.val /\ Content(Walk(cache'), req.name) = req.val
    BY <1>3, SoundStep DEF Succeeds
  <2>2. req.name \in Names
    BY <1>3 DEF Inv, Request
  <2>3. View(cache') = [n \in Names |-> Content(Walk(cache'), n)]
        /\ View(nv') = [n \in Names |-> Content(Walk(nv'), n)]
    BY ViewIs
  <2> QED
    BY <2>1, <2>2, <2>3
<1> QED
  BY <1>1, <1>2, <1>3, PTL DEF Spec, SuccessIsStored

\* No update, promotion by Reclaim or power loss makes a second ADDED record
\* of a variable.
THEOREM OneAddedRecord == Spec => AddedStaysOne
<1>1. Init => Inv /\ Silent
  BY InvInit DEF Init, Silent
<1>2. Inv /\ Silent /\ [Next]_vars => Inv' /\ Silent'
  BY InvStep, SilentStep
<1>3. ASSUME Inv, Silent, [Next]_vars
      PROVE  [nv' # nv /\ Orderly =>
                \A n \in Names : Cardinality(Positions(Walk(nv'), n, "added")) <= 1]_vars
  <2> SUFFICES ASSUME vars' # vars, nv' # nv, Orderly, NEW n \in Names
               PROVE  Cardinality(Positions(Walk(nv'), n, "added")) <= 1
    OBVIOUS
  <2>1. AddedOnce(Walk(nv'), n)
    BY <1>3, SoundStep DEF Sound, OneAdded
  <2> DEFINE S == Positions(Walk(nv'), n, "added")
  <2>2. \A i, j \in S : i = j
    BY <2>1 DEF AddedOnce
  <2> HIDE DEF S
  <2>3. CASE S = {}
    BY <2>3, FS_EmptySet DEF S
  <2>4. ASSUME NEW i \in S PROVE Cardinality(S) <= 1
    <3>1. S = {i}
      BY <2>2
    <3>2. Cardinality({i}) = 1
      BY FS_Singleton
    <3> QED
      BY <3>1, <3>2
  <2> QED
    BY <2>3, <2>4 DEF S
<1> QED
  BY <1>1, <1>2, <1>3, PTL DEF Spec, AddedStaysOne

----------------------------------------------------------------------------
(* Sums over the records of a store.                                       *)

\* f adds up the weights.
Adds(n, w, f) ==
  /\ f \in [0 .. n -> Nat] /\ f[0] = 0
  /\ \A k \in 1 .. n : f[k] = f[k - 1] + w[k]

LEMMA AddsExists ==
  ASSUME NEW n \in Nat, NEW w \in [1 .. n -> Nat]
  PROVE  \E f : Adds(n, w, f)
<1> DEFINE S == {k \in 0 .. n : \E f : Adds(k, w, f)}
<1>1. 0 \in S
  <2>1. Adds(0, w, [k \in 0 .. 0 |-> 0])
    BY DEF Adds
  <2> QED
    BY <2>1
<1>2. ASSUME NEW k \in 1 .. n, k - 1 \in S PROVE k \in S
  <2>1. PICK f : Adds(k - 1, w, f)
    BY <1>2
  <2> DEFINE g == [j \in 0 .. k |-> IF j = k THEN f[k - 1] + w[k] ELSE f[j]]
  <2>2. f \in [0 .. k - 1 -> Nat] /\ f[0] = 0 /\ \A j \in 1 .. k - 1 : f[j] = f[j - 1] + w[j]
    BY <2>1 DEF Adds
  <2>3. k - 1 \in 0 .. k - 1 /\ w[k] \in Nat
    OBVIOUS
  <2>4. g \in [0 .. k -> Nat]
    <3>1. f[k - 1] + w[k] \in Nat
      BY <2>2, <2>3
    <3>2. \A j \in 0 .. k : j = k \/ f[j] \in Nat
      BY <2>2
    <3> QED
      BY <3>1, <3>2
  <2>5. g[0] = 0 /\ \A j \in 1 .. k : g[j] = g[j - 1] + w[j]
    BY <2>2
  <2>6. Adds(k, w, g)
    BY <2>4, <2>5 DEF Adds
  <2> QED
    BY <2>6
<1> HIDE DEF S
<1>3. \A k \in 0 .. n : k \in S
  BY <1>1, <1>2, CountingUp
<1> QED
  BY <1>3 DEF S

\* The weights of the records of s at positions I.
Weights(s, I) == [i \in 1 .. Len(s) |-> IF i \in I THEN RecordSize(s[i]) ELSE 0]

LEMMA WeightsType ==
  ASSUME NEW s \in Seq(Records), NEW I, \A i \in I : Stub(s[i]) \/ s[i].name \in Names
  PROVE  Weights(s, I) \in [1 .. Len(s) -> Nat]
<1>1. \A i \in I : RecordSize(s[i]) \in Nat
  BY SizeAssumption DEF RecordSize
<1> QED
  BY <1>1 DEF Weights

LEMMA TotalIs ==
  ASSUME NEW s \in Seq(Records), NEW I, \A i \in I : Stub(s[i]) \/ s[i].name \in Names
  PROVE  \E f : Adds(Len(s), Weights(s, I), f) /\ TotalSize(s, I) = f[Len(s)]
<1> DEFINE n == Len(s)
           w == Weights(s, I)
           Is(f) == f = [i \in 0 .. n |->
                           IF i = 0 THEN 0 ELSE f[i - 1] + (IF i \in I THEN RecordSize(s[i]) ELSE 0)]
           total == CHOOSE f : Is(f)
<1>1. n \in Nat /\ w \in [1 .. n -> Nat]
  BY WeightsType
<1>2. TotalSize(s, I) = total[n]
  BY DEF TotalSize
<1>3. PICK g : Adds(n, w, g)
  BY <1>1, AddsExists
<1>4. \A i \in 1 .. n : w[i] = IF i \in I THEN RecordSize(s[i]) ELSE 0
  BY DEF Weights
<1> HIDE DEF n, w
<1>5. Is(g)
  <2>1. g \in [0 .. n -> Nat] /\ g[0] = 0 /\ \A k \in 1 .. n : g[k] = g[k - 1] + w[k]
    BY <1>3 DEF Adds
  <2>2. ASSUME NEW i \in 0 .. n
        PROVE  g[i] = IF i = 0 THEN 0 ELSE g[i - 1] + (IF i \in I THEN RecordSize(s[i]) ELSE 0)
    <3>1. i = 0 \/ i \in 1 .. n
      BY <1>1
    <3> QED
      BY <1>4, <2>1, <3>1
  <2> QED
    BY <2>1, <2>2
<1>6. Is(total)
  BY <1>5, Zenon
<1> HIDE DEF total
<1>7. total[0] = 0 /\ \A i \in 1 .. n : total[i] = total[i - 1] + w[i]
  <2>1. 0 \in 0 .. n /\ \A i \in 1 .. n : i \in 0 .. n /\ i # 0
    BY <1>1
  <2> QED
    BY <1>4, <1>6, <2>1
<1>8. total \in [0 .. n -> Nat]
  <2> DEFINE S == {k \in 0 .. n : total[k] \in Nat}
  <2>1. 0 \in S
    BY <1>1, <1>7
  <2>2. ASSUME NEW k \in 1 .. n, k - 1 \in S PROVE k \in S
    <3>1. k \in 0 .. n /\ total[k - 1] \in Nat /\ w[k] \in Nat /\ total[k] = total[k - 1] + w[k]
      BY <1>1, <1>7, <2>2
    <3> QED
      BY <3>1
  <2> HIDE DEF S
  <2>3. \A k \in 0 .. n : k \in S
    BY <1>1, <2>1, <2>2, CountingUp
  <2>4. \A k \in 0 .. n : total[k] \in Nat
    BY <2>3 DEF S
  <2>5. total = [i \in 0 .. n |-> total[i]]
    BY <1>6
  <2> QED
    BY <2>4, <2>5
<1> QED
  BY <1>2, <1>7, <1>8 DEF Adds, n, w

\* Positions I of store s hold records that have a size.
AllNamed(s, I) == I \subseteq 1 .. Len(s) /\ \A i \in I : Stub(s[i]) \/ s[i].name \in Names
Weight(s, i) == RecordSize(s[i])

LEMMA TotalNat ==
  ASSUME NEW s \in Seq(Records), NEW I, AllNamed(s, I)
  PROVE  TotalSize(s, I) \in Nat
<1>1. PICK f : Adds(Len(s), Weights(s, I), f) /\ TotalSize(s, I) = f[Len(s)]
  BY TotalIs DEF AllNamed
<1>2. Len(s) \in 0 .. Len(s)
  OBVIOUS
<1> QED
  BY <1>1, <1>2 DEF Adds

LEMMA TotalUnion ==
  ASSUME NEW s \in Seq(Records), NEW I, NEW J, AllNamed(s, I), AllNamed(s, J), I \cap J = {}
  PROVE  TotalSize(s, I \cup J) = TotalSize(s, I) + TotalSize(s, J)
<1>1. PICK f : Adds(Len(s), Weights(s, I), f) /\ TotalSize(s, I) = f[Len(s)]
  BY TotalIs DEF AllNamed
<1>2. PICK g : Adds(Len(s), Weights(s, J), g) /\ TotalSize(s, J) = g[Len(s)]
  BY TotalIs DEF AllNamed
<1>3. PICK h : Adds(Len(s), Weights(s, I \cup J), h) /\ TotalSize(s, I \cup J) = h[Len(s)]
  <2>1. \A i \in I \cup J : Stub(s[i]) \/ s[i].name \in Names
    BY DEF AllNamed
  <2> QED
    BY <2>1, TotalIs
<1> DEFINE n == Len(s)
           S == {k \in 0 .. n : h[k] = f[k] + g[k]}
<1>4. \A k \in 1 .. n : /\ Weights(s, I \cup J)[k] = Weights(s, I)[k] + Weights(s, J)[k]
                        /\ Weights(s, I)[k] \in Nat /\ Weights(s, J)[k] \in Nat
  <2> TAKE k \in 1 .. n
  <2>1. Weights(s, I)[k] \in Nat /\ Weights(s, J)[k] \in Nat
    BY WeightsType DEF AllNamed
  <2>2. k \in I => k \notin J
    OBVIOUS
  <2> QED
    BY <2>1, <2>2 DEF Weights
<1>5. n \in Nat
  OBVIOUS
<1> HIDE DEF n
<1>6. /\ f \in [0 .. n -> Nat] /\ f[0] = 0 /\ \A k \in 1 .. n : f[k] = f[k - 1] + Weights(s, I)[k]
      /\ g \in [0 .. n -> Nat] /\ g[0] = 0 /\ \A k \in 1 .. n : g[k] = g[k - 1] + Weights(s, J)[k]
      /\ h \in [0 .. n -> Nat] /\ h[0] = 0 /\ \A k \in 1 .. n : h[k] = h[k - 1] + Weights(s, I \cup J)[k]
  BY <1>1, <1>2, <1>3 DEF Adds, n
<1>7. 0 \in S
  BY <1>5, <1>6
<1>8. ASSUME NEW k \in 1 .. n, k - 1 \in S PROVE k \in S
  <2>1. k \in 0 .. n /\ k - 1 \in 0 .. n
    BY <1>5
  <2>2. h[k - 1] = f[k - 1] + g[k - 1] /\ f[k - 1] \in Nat /\ g[k - 1] \in Nat
    BY <1>6, <1>8, <2>1
  <2>3. h[k] = h[k - 1] + (Weights(s, I)[k] + Weights(s, J)[k])
    BY <1>4, <1>6
  <2>4. f[k] = f[k - 1] + Weights(s, I)[k] /\ g[k] = g[k - 1] + Weights(s, J)[k]
        /\ Weights(s, I)[k] \in Nat /\ Weights(s, J)[k] \in Nat
    BY <1>4, <1>6
  <2> QED
    BY <2>1, <2>2, <2>3, <2>4
<1> HIDE DEF S
<1>9. \A k \in 0 .. n : k \in S
  BY <1>5, <1>7, <1>8, CountingUp
<1>10. n \in S
  BY <1>5, <1>9
<1> QED
  BY <1>1, <1>2, <1>3, <1>10 DEF S, n

LEMMA TotalEmpty ==
  ASSUME NEW s \in Seq(Records)
  PROVE  TotalSize(s, {}) = 0
<1>1. AllNamed(s, {})
  BY DEF AllNamed
<1>2. {} \cup {} = {} /\ {} \cap {} = {}
  OBVIOUS
<1>3. TotalSize(s, {}) \in Nat /\ TotalSize(s, {}) = TotalSize(s, {}) + TotalSize(s, {})
  BY <1>1, <1>2, TotalNat, TotalUnion
<1> QED
  BY <1>3

LEMMA TotalSingle ==
  ASSUME NEW s \in Seq(Records), NEW i, AllNamed(s, {i})
  PROVE  TotalSize(s, {i}) = Weight(s, i) /\ Weight(s, i) \in Nat \ {0}
<1>1. PICK f : Adds(Len(s), Weights(s, {i}), f) /\ TotalSize(s, {i}) = f[Len(s)]
  BY TotalIs DEF AllNamed
<1> DEFINE n == Len(s)
           v == Weight(s, i)
           S == {k \in 0 .. n : f[k] = IF k < i THEN 0 ELSE v}
<1>2. n \in Nat /\ i \in 1 .. n /\ v \in Nat \ {0}
  BY SizeAssumption DEF AllNamed, Weight, RecordSize
<1>3. \A k \in 1 .. n : Weights(s, {i})[k] = IF k = i THEN v ELSE 0
  BY DEF Weights, Weight
<1> HIDE DEF n, v
<1>4. f \in [0 .. n -> Nat] /\ f[0] = 0 /\ \A k \in 1 .. n : f[k] = f[k - 1] + Weights(s, {i})[k]
  BY <1>1 DEF Adds, n
<1>5. 0 \in S
  BY <1>2, <1>4
<1>6. ASSUME NEW k \in 1 .. n, k - 1 \in S PROVE k \in S
  <2>1. k \in 0 .. n /\ f[k - 1] = (IF k - 1 < i THEN 0 ELSE v)
    BY <1>2, <1>6
  <2>2. f[k] = f[k - 1] + (IF k = i THEN v ELSE 0)
    BY <1>3, <1>4
  <2>3. f[k] = IF k < i THEN 0 ELSE v
    BY <1>2, <2>1, <2>2
  <2> QED
    BY <2>1, <2>3
<1> HIDE DEF S
<1>7. \A k \in 0 .. n : k \in S
  BY <1>2, <1>5, <1>6, CountingUp
<1>8. n \in S /\ ~(n < i)
  BY <1>2, <1>7
<1> QED
  BY <1>1, <1>2, <1>8 DEF S, n, v

\* Records that are found in another store, each one there once, are no more
\* than that store has.
LEMMA TotalMapped ==
  ASSUME NEW s \in Seq(Records), NEW I, AllNamed(s, I),
         NEW t \in Seq(Records), NEW J, AllNamed(t, J),
         NEW m \in [I -> J], \A i, j \in I : m[i] = m[j] => i = j,
         \A i \in I : Weight(t, m[i]) = Weight(s, i)
  PROVE  TotalSize(s, I) <= TotalSize(t, J)
<1> DEFINE n == Len(s)
           UpTo(k) == {i \in I : i <= k}
           Im(k) == {m[i] : i \in UpTo(k)}
           S == {k \in 0 .. n : TotalSize(s, UpTo(k)) = TotalSize(t, Im(k))}
<1>1. n \in Nat /\ I \subseteq 1 .. n /\ \A i \in I : ~(i <= 0) /\ i <= n
  BY DEF AllNamed
<1>2. \A k : AllNamed(s, UpTo(k)) /\ AllNamed(t, Im(k)) /\ Im(k) \subseteq J
  BY DEF AllNamed
<1> HIDE DEF n
<1>3. 0 \in S
  <2>1. UpTo(0) = {}
    BY <1>1
  <2>2. Im(0) = {}
    BY <2>1
  <2>3. TotalSize(s, {}) = 0 /\ TotalSize(t, {}) = 0
    BY TotalEmpty
  <2> HIDE DEF Im, UpTo
  <2>4. TotalSize(s, UpTo(0)) = 0
    BY <2>1, <2>3
  <2>5. TotalSize(t, Im(0)) = 0
    BY <2>2, <2>3
  <2>6. 0 \in 0 .. n
    BY <1>1
  <2> QED
    BY <2>4, <2>5, <2>6
<1>4. ASSUME NEW k \in 1 .. n, k - 1 \in S PROVE k \in S
  <2>1. k \in 0 .. n /\ TotalSize(s, UpTo(k - 1)) = TotalSize(t, Im(k - 1))
    BY <1>1, <1>4
  <2>2. \A i \in I : i <= k <=> i <= k - 1 \/ i = k
    BY <1>1
  <2>3. CASE k \notin I
    <3>1. UpTo(k) = UpTo(k - 1)
      BY <2>2, <2>3
    <3>2. Im(k) = Im(k - 1)
      BY <3>1
    <3> HIDE DEF Im, UpTo
    <3> QED
      BY <2>1, <3>1, <3>2
  <2>4. CASE k \in I
    <3>1. UpTo(k) = UpTo(k - 1) \cup {k} /\ UpTo(k - 1) \cap {k} = {}
      <4>1. ~(k <= k - 1)
        BY <1>1
      <4> QED
        BY <2>2, <2>4, <4>1
    <3>2. Im(k) = Im(k - 1) \cup {m[k]}
      BY <3>1
    <3>3. Im(k - 1) \cap {m[k]} = {}
      BY <2>4, <3>1
    <3>4. AllNamed(s, {k}) /\ AllNamed(t, {m[k]})
      BY <2>4 DEF AllNamed
    <3>5. TotalSize(s, {k}) = Weight(s, k) /\ TotalSize(t, {m[k]}) = Weight(t, m[k])
          /\ Weight(t, m[k]) = Weight(s, k)
      BY <2>4, <3>4, TotalSingle
    <3>6. AllNamed(s, UpTo(k - 1)) /\ AllNamed(t, Im(k - 1))
      BY <1>2
    <3> HIDE DEF Im, UpTo
    <3>7. TotalSize(s, UpTo(k)) = TotalSize(s, UpTo(k - 1)) + TotalSize(s, {k})
      BY <3>1, <3>4, <3>6, TotalUnion
    <3>8. TotalSize(t, Im(k)) = TotalSize(t, Im(k - 1)) + TotalSize(t, {m[k]})
      BY <3>2, <3>3, <3>4, <3>6, TotalUnion
    <3> QED
      BY <2>1, <3>5, <3>7, <3>8
  <2> QED
    BY <2>3, <2>4
<1>5. n \in S
  <2> HIDE DEF S
  <2>1. \A k \in 0 .. n : k \in S
    BY <1>1, <1>3, <1>4, CountingUp
  <2> QED
    BY <1>1, <2>1
<1>6. UpTo(n) = I
  BY <1>1
<1>7. TotalSize(s, I) = TotalSize(t, Im(n))
  BY <1>5, <1>6
<1>8. J = Im(n) \cup (J \ Im(n)) /\ Im(n) \cap (J \ Im(n)) = {}
  BY <1>2
<1>9. AllNamed(t, Im(n)) /\ AllNamed(t, J \ Im(n))
  BY <1>2 DEF AllNamed
<1> HIDE DEF Im, UpTo
<1>10. TotalSize(t, J) = TotalSize(t, Im(n)) + TotalSize(t, J \ Im(n))
  BY <1>8, <1>9, TotalUnion
<1>11. TotalSize(t, Im(n)) \in Nat /\ TotalSize(t, J \ Im(n)) \in Nat
  BY <1>9, TotalNat
<1> QED
  BY <1>7, <1>10, <1>11

\* The same positions of stores whose names agree there.
LEMMA TotalSame ==
  ASSUME NEW s \in Seq(Records), NEW t \in Seq(Records), NEW I, AllNamed(s, I), AllNamed(t, I),
         \A i \in I : Weight(t, i) = Weight(s, i)
  PROVE  TotalSize(s, I) = TotalSize(t, I)
<1> DEFINE id == [i \in I |-> i]
<1>1. id \in [I -> I] /\ \A i \in I : id[i] = i
  OBVIOUS
<1> HIDE DEF id
<1>2. TotalSize(s, I) <= TotalSize(t, I)
  BY <1>1, TotalMapped
<1>3. TotalSize(t, I) <= TotalSize(s, I)
  BY <1>1, TotalMapped
<1>4. TotalSize(s, I) \in Nat /\ TotalSize(t, I) \in Nat
  BY TotalNat
<1> QED
  BY <1>2, <1>3, <1>4

LEMMA TotalSubset ==
  ASSUME NEW s \in Seq(Records), NEW I, NEW J, AllNamed(s, J), I \subseteq J
  PROVE  AllNamed(s, I) /\ TotalSize(s, I) <= TotalSize(s, J)
<1> DEFINE id == [i \in I |-> i]
<1>1. id \in [I -> J] /\ \A i \in I : id[i] = i
  OBVIOUS
<1>2. AllNamed(s, I)
  BY DEF AllNamed
<1> HIDE DEF id
<1> QED
  BY <1>1, <1>2, TotalMapped

----------------------------------------------------------------------------
(* The inductive invariant.                                                *)

\* The totals bound the records of the cache, and are those of a cache without
\* torn records; the quotas hold until a fault tolerant write fails.
HwLive(c) == HwErrRecords(c, {"deleted"})
Known(c) == {i \in 1 .. Len(c) : Stub(c[i]) \/ c[i].name # Torn}

Mirrors ==
  \A i \in 1 .. Len(cache) : nv[i].state = cache[i].state /\ nv[i].name \in {cache[i].name, Torn}

Counted ==
  /\ TotalSize(cache, HwLive(cache)) <= hwTotal
  /\ TotalSize(cache, Known(cache)) <= hwTotal + commonTotal
  /\ NothingTorn => hwTotal + commonTotal <= TotalSize(cache, Known(cache))
  /\ ~ftwFailed /\ NothingTorn => hwTotal <= TotalSize(cache, HwLive(cache))

InQuota ==
  ~ftwFailed => /\ pending = {}
                /\ hwTotal <= HwErrSpace
                /\ hwTotal + commonTotal <= CommonSpace + HwErrSpace

\* AddStep1 has tested the quotas for the record that AddStep2 makes valid.
Tested ==
  pc = "setAdded" =>
    /\ nv[Len(nv)].name \in {req.name, Torn}
    /\ IF req.name \in HwErr
       THEN Size[req.name] + hwTotal <= HwErrSpace
            /\ Size[req.name] + hwTotal + commonTotal <= HwErrSpace + CommonSpace
       ELSE Size[req.name] + commonTotal <= CommonSpace

\* There is room for the header behind the cache that the next start will count.
Reserved ==
  ~ftwFailed /\ Len(cache) < Len(nv) /\ ~EndsWalk(nv, Len(cache) + 1) =>
    /\ HeaderSize + hwTotal + commonTotal <= CommonSpace + HwErrSpace
    /\ nv[Len(cache) + 1].name \in HwErr => HeaderSize + hwTotal <= HwErrSpace

Space ==
  commonTotal \in Nat /\ hwTotal \in Nat /\ Mirrors /\ Counted /\ InQuota /\ Tested /\ Reserved

LEMMA HwLiveIs ==
  ASSUME NEW c \in Seq(Records)
  PROVE  /\ \A i : i \in HwLive(c) <=> i \in 1 .. Len(c) /\ c[i].name \in HwErr /\ c[i].state # "deleted"
         /\ AllNamed(c, HwLive(c)) /\ AllNamed(c, Known(c))
<1>1. \A i : i \in HwLive(c) <=> i \in 1 .. Len(c) /\ c[i].name \in HwErr /\ c[i].state # "deleted"
  BY DEF HwLive, HwErrRecords
<1>2. \A i \in 1 .. Len(c) : c[i].name \in Names \cup {Torn}
  <2> TAKE i \in 1 .. Len(c)
  <2>1. c[i] \in Records
    OBVIOUS
  <2> QED
    BY <2>1 DEF Records
<1>3. AllNamed(c, HwLive(c))
  BY <1>1, NamesAssumption DEF AllNamed
<1>4. AllNamed(c, Known(c))
  BY <1>2 DEF AllNamed, Known
<1> QED
  BY <1>1, <1>3, <1>4

\* The totals after CountTotals.
LEMMA Recount ==
  ASSUME NEW w \in Seq(Records), Whole(w),
         NEW ex \in {{}, {"deleted"}}, CountTotals(w, ex)
  PROVE  /\ hwTotal' \in Nat /\ commonTotal' \in Nat
         /\ hwTotal' + commonTotal' = TotalSize(w, Known(w))
         /\ TotalSize(w, HwLive(w)) <= hwTotal'
         /\ ex = {"deleted"} \/ (\A i \in 1 .. Len(w) : w[i].state # "deleted") =>
              hwTotal' = TotalSize(w, HwLive(w))
<1> DEFINE H == HwErrRecords(w, ex)
           C == DOMAIN w \ H
<1>1. hwTotal' = TotalSize(w, H) /\ commonTotal' = TotalSize(w, C)
  BY DEF CountTotals
<1>2. DOMAIN w = 1 .. Len(w)
  OBVIOUS
<1>3. \A i : i \in H <=> i \in 1 .. Len(w) /\ w[i].name \in HwErr /\ w[i].state \notin ex
  BY <1>2 DEF HwErrRecords
<1>4. Known(w) = 1 .. Len(w) /\ AllNamed(w, Known(w)) /\ AllNamed(w, HwLive(w))
  BY HwLiveIs DEF Known, Whole
<1>5. Known(w) = H \cup C /\ H \cap C = {} /\ AllNamed(w, H) /\ AllNamed(w, C)
  BY <1>2, <1>3, <1>4 DEF AllNamed
<1> HIDE DEF H, C
<1>6. TotalSize(w, Known(w)) = TotalSize(w, H) + TotalSize(w, C)
      /\ TotalSize(w, H) \in Nat /\ TotalSize(w, C) \in Nat
  BY <1>5, TotalUnion, TotalNat
<1>7. HwLive(w) \subseteq H
  BY <1>3, HwLiveIs
<1>8. TotalSize(w, HwLive(w)) <= TotalSize(w, H)
  BY <1>5, <1>7, TotalSubset
<1>9. ASSUME ex = {"deleted"} \/ (\A i \in 1 .. Len(w) : w[i].state # "deleted") PROVE H = HwLive(w)
  BY <1>3, <1>9, HwLiveIs
<1> QED
  BY <1>1, <1>6, <1>8, <1>9

\* The walk over the flash finds the records of the cache, and at most a header
\* more: they meet the quotas.
LEMMA WalkIsCounted ==
  ASSUME Inv, Space, ~ftwFailed, NEW w, w = Walk(nv)
  PROVE  /\ TotalSize(w, HwLive(w)) <= HwErrSpace
         /\ TotalSize(w, Known(w)) <= CommonSpace + HwErrSpace
<1> DEFINE m == Len(cache)
           Over(I) == I \ (1 .. m)
           Within(I) == I \cap (1 .. m)
<1>1. /\ nv \in Seq(Records) /\ cache \in Seq(Records) /\ Len(nv) \in Nat /\ m \in Nat
      /\ m <= Len(nv) /\ Rest(nv, m) /\ Mirrors
  BY DEF Inv, Stored, Flash, Space
<1>2. PICK n \in 0 .. Len(nv) :
           /\ w \in Seq(Records) /\ Len(w) = n
           /\ \A i \in 1 .. n : w[i] = nv[i] /\ ~EndsWalk(nv, i)
  BY <1>1, WalkFinds
<1>3. \A i \in 1 .. Len(w) : i \notin 1 .. m =>
        /\ i = m + 1 /\ m < Len(nv) /\ w[i] = nv[m + 1] /\ Stub(w[i]) /\ ~EndsWalk(nv, m + 1)
  <2> SUFFICES ASSUME NEW i \in 1 .. Len(w), i \notin 1 .. m
               PROVE  /\ i = m + 1 /\ m < Len(nv) /\ w[i] = nv[m + 1] /\ Stub(w[i])
                      /\ ~EndsWalk(nv, m + 1)
    OBVIOUS
  <2>1. m < Len(nv) /\ m + 1 \in 1 .. n
    BY <1>1, <1>2
  <2>2. ~EndsWalk(nv, m + 1) /\ w[m + 1] = nv[m + 1]
    BY <1>2, <2>1
  <2>3. Stub(nv[m + 1]) /\ Len(nv) = m + 1
    BY <1>1, <2>1, <2>2 DEF Rest
  <2>4. i = m + 1
    BY <1>1, <1>2, <2>3
  <2> QED
    BY <2>1, <2>2, <2>3, <2>4
<1>4. ASSUME NEW i \in 1 .. m, i \in 1 .. Len(w)
      PROVE  /\ w[i].state = cache[i].state
             /\ w[i].name \in HwErr => w[i].name = cache[i].name
             /\ i \in Known(w) => i \in Known(cache) /\ Weight(cache, i) = Weight(w, i)
  <2>1. w[i] = nv[i] /\ nv[i].state = cache[i].state /\ nv[i].name \in {cache[i].name, Torn}
    BY <1>1, <1>2, <1>4 DEF Mirrors
  <2>2. w[i].name \in HwErr => w[i].name = cache[i].name
    BY <2>1, NamesAssumption
  <2>3. Stub(w[i]) <=> Stub(cache[i])
    BY <2>1 DEF Stub
  <2>4. i \in Known(w) => Stub(w[i]) \/ (w[i].name = cache[i].name /\ cache[i].name # Torn)
    BY <2>1 DEF Known
  <2> QED
    BY <2>1, <2>2, <2>3, <2>4 DEF Known, Weight, RecordSize
<1>5. /\ \A i : i \in HwLive(w) <=> i \in 1 .. Len(w) /\ w[i].name \in HwErr /\ w[i].state # "deleted"
      /\ \A i : i \in HwLive(cache) <=>
                  i \in 1 .. m /\ cache[i].name \in HwErr /\ cache[i].state # "deleted"
      /\ AllNamed(w, HwLive(w)) /\ AllNamed(w, Known(w))
      /\ AllNamed(cache, HwLive(cache)) /\ AllNamed(cache, Known(cache))
  BY <1>1, <1>2, HwLiveIs
<1>6. HwLive(w) \subseteq Known(w)
  BY <1>5, NamesAssumption DEF Known
<1>7. Within(HwLive(w)) \subseteq HwLive(cache) /\ Within(Known(w)) \subseteq Known(cache)
  <2>1. Known(w) \subseteq 1 .. Len(w)
    BY DEF Known
  <2> QED
    BY <1>4, <1>5, <2>1
<1> HIDE DEF m
<1>8. ASSUME NEW I, I \subseteq Known(w), AllNamed(w, I),
             NEW J, AllNamed(cache, J), Within(I) \subseteq J
      PROVE  /\ TotalSize(w, I) <= TotalSize(cache, J) + (IF Over(I) = {} THEN 0 ELSE HeaderSize)
             /\ TotalSize(w, I) \in Nat /\ TotalSize(cache, J) \in Nat
  <2>1. I = Within(I) \cup Over(I) /\ Within(I) \cap Over(I) = {}
    OBVIOUS
  <2>2. AllNamed(w, Within(I)) /\ AllNamed(w, Over(I)) /\ Over(I) \subseteq 1 .. Len(w)
    BY <1>8 DEF AllNamed
  <2>3. TotalSize(w, I) = TotalSize(w, Within(I)) + TotalSize(w, Over(I))
    <3> HIDE DEF Within, Over
    <3> QED
      BY <1>2, <2>1, <2>2, TotalUnion
  <2>4. TotalSize(w, Within(I)) <= TotalSize(cache, J)
    <3> DEFINE W == Within(I)
               id == [i \in W |-> i]
    <3>1. id \in [W -> J] /\ \A i \in W : id[i] = i
      BY <1>8
    <3>2. \A i \in W : Weight(cache, i) = Weight(w, i)
      BY <1>4, <1>8 DEF AllNamed
    <3> HIDE DEF id, W
    <3>3. \A i \in W : Weight(cache, id[i]) = Weight(w, i)
      BY <3>1, <3>2
    <3>4. AllNamed(w, W)
      BY <2>2 DEF W
    <3>5. TotalSize(w, W) <= TotalSize(cache, J)
      BY <1>1, <1>2, <1>8, <3>1, <3>3, <3>4, TotalMapped
    <3> QED
      BY <3>5 DEF W
  <2>5. TotalSize(w, Over(I)) = IF Over(I) = {} THEN 0 ELSE HeaderSize
    <3>1. CASE Over(I) = {}
      BY <1>2, <3>1, TotalEmpty
    <3>2. CASE Over(I) # {}
      <4>1. PICK i : i \in Over(I)
        BY <3>2
      <4>2. Over(I) \subseteq {m + 1} /\ Stub(w[i]) /\ i = m + 1
        BY <1>3, <2>2, <4>1
      <4>3. Over(I) = {i}
        BY <4>1, <4>2
      <4>4. TotalSize(w, {i}) = Weight(w, i)
        BY <1>2, <2>2, <4>3, TotalSingle
      <4>5. Weight(w, i) = HeaderSize
        BY <4>2 DEF Weight, RecordSize
      <4> HIDE DEF Over
      <4> QED
        BY <3>2, <4>3, <4>4, <4>5
    <3> QED
      BY <3>1, <3>2
  <2>6. /\ TotalSize(w, Within(I)) \in Nat /\ TotalSize(w, Over(I)) \in Nat
        /\ TotalSize(cache, J) \in Nat
    BY <1>1, <1>2, <1>8, <2>2, TotalNat
  <2> HIDE DEF Within, Over
  <2>7. TotalSize(w, I) <= TotalSize(cache, J) + TotalSize(w, Over(I)) /\ TotalSize(w, I) \in Nat
    BY <2>3, <2>4, <2>6
  <2> QED
    BY <2>5, <2>6, <2>7
<1>9. /\ hwTotal \in Nat /\ commonTotal \in Nat /\ HwErrSpace \in Nat /\ CommonSpace \in Nat
      /\ HeaderSize \in Nat
      /\ TotalSize(cache, HwLive(cache)) <= hwTotal /\ hwTotal <= HwErrSpace
      /\ TotalSize(cache, Known(cache)) <= hwTotal + commonTotal
      /\ hwTotal + commonTotal <= CommonSpace + HwErrSpace
  BY SpaceAssumption, SizeAssumption DEF Space, Counted, InQuota
<1>10. TotalSize(w, HwLive(w)) <= HwErrSpace
  <2>1. /\ TotalSize(w, HwLive(w)) <=
              TotalSize(cache, HwLive(cache)) + (IF Over(HwLive(w)) = {} THEN 0 ELSE HeaderSize)
        /\ TotalSize(w, HwLive(w)) \in Nat /\ TotalSize(cache, HwLive(cache)) \in Nat
    BY <1>5, <1>6, <1>7, <1>8
  <2>2. CASE Over(HwLive(w)) = {}
    BY <1>9, <2>1, <2>2
  <2>3. CASE Over(HwLive(w)) # {}
    <3>1. PICK i : i \in HwLive(w) /\ i \notin 1 .. m
      BY <2>3
    <3>2. i \in 1 .. Len(w) /\ w[i].name \in HwErr
      BY <1>5, <3>1
    <3>3. m < Len(nv) /\ nv[m + 1].name \in HwErr /\ ~EndsWalk(nv, m + 1)
      BY <1>3, <3>1, <3>2
    <3>4. HeaderSize + hwTotal <= HwErrSpace
      BY <3>3 DEF Space, Reserved, m
    <3> HIDE DEF Over
    <3> QED
      BY <1>9, <2>1, <2>3, <3>4
  <2> QED
    BY <2>2, <2>3
<1>11. TotalSize(w, Known(w)) <= CommonSpace + HwErrSpace
  <2>1. /\ TotalSize(w, Known(w)) <=
              TotalSize(cache, Known(cache)) + (IF Over(Known(w)) = {} THEN 0 ELSE HeaderSize)
        /\ TotalSize(w, Known(w)) \in Nat /\ TotalSize(cache, Known(cache)) \in Nat
    BY <1>5, <1>7, <1>8
  <2>2. CASE Over(Known(w)) = {}
    BY <1>9, <2>1, <2>2
  <2>3. CASE Over(Known(w)) # {}
    <3>1. PICK i : i \in Known(w) /\ i \notin 1 .. m
      BY <2>3
    <3>2. i \in 1 .. Len(w)
      BY <3>1 DEF Known
    <3>3. m < Len(nv) /\ ~EndsWalk(nv, m + 1)
      BY <1>3, <3>1, <3>2
    <3>4. HeaderSize + hwTotal + commonTotal <= CommonSpace + HwErrSpace
      BY <3>3 DEF Space, Reserved, m
    <3> HIDE DEF Over
    <3> QED
      BY <1>9, <2>1, <2>3, <3>4
  <2> QED
    BY <2>2, <2>3
<1> QED
  BY <1>10, <1>11

\* Records that Reclaim picks are no more than those it picks them from.
LEMMA PicksAreCounted ==
  ASSUME NEW p \in Seq(Records), NEW w \in Seq(Records), PicksLive(p, w), Whole(w), Image(p)
  PROVE  /\ TotalSize(p, HwLive(p)) <= TotalSize(w, HwLive(w))
         /\ TotalSize(p, Known(p)) <= TotalSize(w, Known(w))
<1>1. PICK I : I \subseteq LiveAt(w) /\ Picks(p, w, I)
  BY DEF PicksLive
<1>2. PICK pos : PicksBy(p, w, I, pos)
  BY <1>1 DEF Picks
<1>3. /\ pos \in [1 .. Len(p) -> I]
      /\ \A k, l \in 1 .. Len(p) : pos[k] = pos[l] => k = l
      /\ \A k \in 1 .. Len(p) : p[k] = AsAdded(w[pos[k]])
  BY <1>2 DEF PicksBy
<1>4. \A k \in 1 .. Len(p) : /\ pos[k] \in 1 .. Len(w) /\ w[pos[k]].state # "deleted"
                             /\ w[pos[k]].name # Torn /\ p[k].name = w[pos[k]].name
                             /\ ~Stub(w[pos[k]]) /\ ~Stub(p[k])
  <2> TAKE k \in 1 .. Len(p)
  <2>1. PICK i \in I : i = pos[k]
    BY <1>3
  <2>2. i \in 1 .. Len(w) /\ w[i].state # "deleted" /\ w[i].name # Torn /\ w[i] \in Records
        /\ ~Stub(w[i]) /\ ~Stub(p[k])
    BY <1>1 DEF LiveAt, Whole, Stub, InTransition, Image
  <2>3. p[k] = AsAdded(w[i])
    BY <1>3, <2>1
  <2> QED
    BY <2>1, <2>2, <2>3, AsAddedRecord
<1>5. \A k \in 1 .. Len(p) : Weight(w, pos[k]) = Weight(p, k)
  BY <1>4 DEF Weight, RecordSize
<1>6. ASSUME NEW J, NEW K, AllNamed(p, J), AllNamed(w, K), \A k \in J : pos[k] \in K
      PROVE  TotalSize(p, J) <= TotalSize(w, K)
  <2> DEFINE m == [k \in J |-> pos[k]]
  <2>1. m \in [J -> K] /\ \A k \in J : k \in 1 .. Len(p) /\ m[k] = pos[k]
    BY <1>6 DEF AllNamed
  <2> HIDE DEF m
  <2>2. (\A k, l \in J : m[k] = m[l] => k = l) /\ \A k \in J : Weight(w, m[k]) = Weight(p, k)
    BY <1>3, <1>5, <2>1
  <2> QED
    BY <1>6, <2>1, <2>2, TotalMapped
<1>7. \A k \in HwLive(p) : pos[k] \in HwLive(w)
  BY <1>4, HwLiveIs
<1>8. \A k \in Known(p) : pos[k] \in Known(w)
  BY <1>4 DEF Known
<1> QED
  BY <1>6, <1>7, <1>8, HwLiveIs

\* The totals are counted again, from the records that the cache now holds.
LEMMA RecountStep ==
  ASSUME NEW w \in Seq(Records), cache' = w, Whole(w), \A i \in 1 .. Len(w) : nv'[i] = w[i],
         Len(w) < Len(nv') => EndsWalk(nv', Len(w) + 1),
         NEW ex \in {{}, {"deleted"}}, CountTotals(w, ex), pc' # "setAdded",
         ~ftwFailed' => /\ pending' = {}
                        /\ ex = {"deleted"} \/ \A i \in 1 .. Len(w) : w[i].state # "deleted"
                        /\ TotalSize(w, HwLive(w)) <= HwErrSpace
                        /\ TotalSize(w, Known(w)) <= CommonSpace + HwErrSpace
  PROVE  Space'
<1>1. /\ hwTotal' \in Nat /\ commonTotal' \in Nat
      /\ hwTotal' + commonTotal' = TotalSize(w, Known(w))
      /\ TotalSize(w, HwLive(w)) <= hwTotal'
      /\ ex = {"deleted"} \/ (\A i \in 1 .. Len(w) : w[i].state # "deleted") =>
              hwTotal' = TotalSize(w, HwLive(w))
  BY Recount
<1>2. Mirrors'
  BY DEF Mirrors
<1>3. TotalSize(w, HwLive(w)) \in Nat /\ TotalSize(w, Known(w)) \in Nat
  BY HwLiveIs, TotalNat
<1>4. Counted'
  BY <1>1, <1>3 DEF Counted
<1>5. InQuota'
  BY <1>1, <1>3 DEF InQuota
<1>6. Reserved'
  BY DEF Reserved
<1> QED
  BY <1>1, <1>2, <1>4, <1>5, <1>6 DEF Space, Tested

\* An image that meets the quotas.
Fits(image) ==
  /\ TotalSize(image, HwLive(image)) <= HwErrSpace
  /\ TotalSize(image, Known(image)) <= CommonSpace + HwErrSpace

\* What a walk finds is what is in flash.
LEMMA WalkEntries ==
  ASSUME NEW s \in Seq(Records)
  PROVE  /\ Walk(s) \in Seq(Records) /\ Whole(Walk(s))
         /\ \A i \in 1 .. Len(Walk(s)) : s[i] = Walk(s)[i]
         /\ Len(Walk(s)) < Len(s) => EndsWalk(s, Len(Walk(s)) + 1)
<1>1. PICK n \in 0 .. Len(s) :
           /\ Walk(s) \in Seq(Records) /\ Len(Walk(s)) = n
           /\ \A i \in 1 .. n : Walk(s)[i] = s[i] /\ ~EndsWalk(s, i)
           /\ n < Len(s) => EndsWalk(s, n + 1)
  BY WalkFinds
<1> QED
  BY <1>1, WalkRecords

LEMMA FtwSpace ==
  ASSUME Inv, Space, NEW image, Image(image), pc' # "setAdded", nv' \in Seq(Records),
         FtwVariableSpaceDone(image) \/ FtwVariableSpaceFailed(image),
         ~ftwFailed => Fits(image)
  PROVE  Space'
<1>1. CASE FtwVariableSpaceDone(image)
  <2>1. nv' = image /\ cache' = image /\ CountTotals(image, {}) /\ pending' = {} /\ ftwFailed' = ftwFailed
    BY <1>1 DEF FtwVariableSpaceDone
  <2>2. image \in Seq(Records)
        /\ \A i \in 1 .. Len(image) : image[i].name # Torn /\ image[i].state # "deleted"
    BY DEF Image
  <2>3. /\ Whole(image) /\ \A i \in 1 .. Len(image) : nv'[i] = image[i]
        /\ ~(Len(image) < Len(nv'))
    BY <2>1, <2>2 DEF Whole
  <2>4. {} \in {{}, {"deleted"}}
    OBVIOUS
  <2> QED
    BY <2>1, <2>2, <2>3, <2>4, RecountStep DEF Fits
<1>2. CASE FtwVariableSpaceFailed(image)
  <2>1. cache' = Walk(nv') /\ CountTotals(Walk(nv'), {}) /\ ftwFailed' = TRUE
    BY <1>2 DEF FtwVariableSpaceFailed
  <2>2. PICK w : w = Walk(nv')
    OBVIOUS
  <2>3. /\ w \in Seq(Records) /\ Whole(w) /\ \A i \in 1 .. Len(w) : nv'[i] = w[i]
        /\ Len(w) < Len(nv') => EndsWalk(nv', Len(w) + 1)
    BY <2>2, WalkEntries
  <2>4. {} \in {{}, {"deleted"}} /\ cache' = w /\ CountTotals(w, {})
    BY <2>1, <2>2
  <2> QED
    BY <2>1, <2>3, <2>4, RecountStep
<1> QED
  BY <1>1, <1>2

LEMMA PowerCycleSpace ==
  ASSUME Inv, Space, PowerCycle, Inv'
  PROVE  Space'
<1>1. /\ cache' = Walk(nv') /\ CountTotals(Walk(nv'), {"deleted"}) /\ pending' = {}
      /\ ftwFailed' = ftwFailed /\ pc' # "setAdded"
  BY DEF PowerCycle
<1>2. nv' \in Seq(Records)
  BY DEF Inv, Stored, Flash
<1>3. PICK w : w = Walk(nv')
  OBVIOUS
<1>4. /\ w \in Seq(Records) /\ Whole(w) /\ \A i \in 1 .. Len(w) : nv'[i] = w[i]
      /\ Len(w) < Len(nv') => EndsWalk(nv', Len(w) + 1)
  BY <1>2, <1>3, WalkEntries
<1>5. ASSUME ~ftwFailed
      PROVE  TotalSize(w, HwLive(w)) <= HwErrSpace /\ TotalSize(w, Known(w)) <= CommonSpace + HwErrSpace
  <2>1. nv' = nv
    BY <1>5 DEF PowerCycle, Space, InQuota
  <2> QED
    BY <1>3, <1>5, <2>1, WalkIsCounted
<1>6. {"deleted"} \in {{}, {"deleted"}} /\ cache' = w /\ CountTotals(w, {"deleted"})
  BY <1>1, <1>3
<1> QED
  BY <1>1, <1>4, <1>5, <1>6, RecountStep

LEMMA ReclaimSpace ==
  ASSUME Inv, Space, WriteServiceInitialize \/ ReclaimForOS, Inv'
  PROVE  Space'
<1> DEFINE image == ReclaimedImage(0, 0, <<>>)
<1>1. pc' # "setAdded"
  BY DEF WriteServiceInitialize, ReclaimForOS
<1>2. \/ FtwVariableSpaceDone(image) \/ FtwVariableSpaceFailed(image)
      \/ UNCHANGED <<nv, pending, cache, commonTotal, hwTotal, ftwFailed>>
  BY DEF WriteServiceInitialize, ReclaimForOS
<1>3. nv \in Seq(Records) /\ nv' \in Seq(Records) /\ cache \in Seq(Records)
  BY DEF Inv, Stored, Flash
<1>4. Walk(nv) \in Seq(Records) /\ Whole(Walk(nv))
  BY <1>3, WalkRecords
<1>5. PICK p \in Seq(Records) :
        ReclaimedImage(0, 0, <<>>) = p \o <<>> /\ Image(p) /\ PicksLive(p, Walk(nv))
  BY <1>4, ReclaimKeeps
<1>6. image = p
  BY <1>5, ConcatEmptySeq
<1> HIDE DEF image
<1>7. ASSUME ~ftwFailed PROVE Fits(p)
  <2>1. PICK w : w = Walk(nv)
    OBVIOUS
  <2>2. w \in Seq(Records) /\ Whole(w) /\ PicksLive(p, w)
    BY <1>4, <1>5, <2>1
  <2>3. /\ TotalSize(p, HwLive(p)) <= TotalSize(w, HwLive(w))
        /\ TotalSize(p, Known(p)) <= TotalSize(w, Known(w))
    BY <1>5, <2>2, PicksAreCounted
  <2>4. TotalSize(w, HwLive(w)) <= HwErrSpace /\ TotalSize(w, Known(w)) <= CommonSpace + HwErrSpace
    BY <1>7, <2>1, WalkIsCounted
  <2>5. /\ TotalSize(w, HwLive(w)) \in Nat /\ TotalSize(w, Known(w)) \in Nat
        /\ TotalSize(p, HwLive(p)) \in Nat /\ TotalSize(p, Known(p)) \in Nat
    BY <2>2, HwLiveIs, TotalNat
  <2>6. HwErrSpace \in Nat /\ CommonSpace \in Nat
    BY SpaceAssumption
  <2> QED
    BY <2>3, <2>4, <2>5, <2>6 DEF Fits
<1>8. CASE FtwVariableSpaceDone(image) \/ FtwVariableSpaceFailed(image)
  BY <1>1, <1>3, <1>5, <1>6, <1>7, <1>8, FtwSpace
<1>9. CASE UNCHANGED <<nv, pending, cache, commonTotal, hwTotal, ftwFailed>>
  BY <1>1, <1>9 DEF Space, Mirrors, Counted, NothingTorn, InQuota, Tested, Reserved
<1> QED
  BY <1>2, <1>8, <1>9

\* The room for the header stays when only deleted records are charged elsewhere.
LEMMA StateReserved ==
  ASSUME Inv, Space, NEW i \in 1 .. Len(cache), ~Stub(cache[i]),
         NEW st \in {InTransition, "deleted"}, SetState(i, st), ftwFailed' = ftwFailed,
         NEW a \in Nat, NEW b \in Nat, hwTotal' = a, commonTotal' = b, a <= hwTotal,
         a + b = hwTotal + commonTotal
  PROVE  Reserved'
<1>1. /\ Stored(nv, cache) /\ nv \in Seq(Records) /\ cache \in Seq(Records)
      /\ Len(cache) <= Len(nv) /\ Len(nv) \in Nat /\ Len(cache) \in Nat /\ i \in 1 .. Len(nv)
  BY DEF Inv, Stored, Flash
<1>2. /\ nv' = [nv EXCEPT ![i] = ToState(nv[i], st)]
      /\ cache' = [cache EXCEPT ![i] = ToState(cache[i], st)]
      /\ \A j \in 1 .. Len(nv) : EndsWalk(nv', j) <=> EndsWalk(nv, j)
  BY <1>1, SetStateStep
<1>3. /\ Len(nv') = Len(nv) /\ Len(cache') = Len(cache)
      /\ \A j \in 1 .. Len(nv) : j # i => nv'[j] = nv[j]
  BY <1>1, <1>2, SetStateRecords
<1>4. HeaderSize \in Nat /\ HwErrSpace \in Nat /\ hwTotal \in Nat /\ commonTotal \in Nat
  BY SizeAssumption, SpaceAssumption DEF Space
<1>5. HeaderSize + a <= HeaderSize + hwTotal /\ HeaderSize + a + b = HeaderSize + hwTotal + commonTotal
  BY <1>4
<1>6. HeaderSize + hwTotal <= HwErrSpace => HeaderSize + a <= HwErrSpace
  BY <1>4, <1>5
<1>7. ASSUME ~ftwFailed, Len(cache) < Len(nv), ~EndsWalk(nv', Len(cache) + 1)
      PROVE  /\ HeaderSize + hwTotal + commonTotal <= CommonSpace + HwErrSpace
             /\ nv'[Len(cache) + 1].name \in HwErr => HeaderSize + hwTotal <= HwErrSpace
  <2>1. Len(cache) + 1 \in 1 .. Len(nv) /\ Len(cache) + 1 # i
    BY <1>1, <1>7
  <2>2. ~EndsWalk(nv, Len(cache) + 1) /\ nv'[Len(cache) + 1] = nv[Len(cache) + 1]
    BY <1>2, <1>3, <1>7, <2>1
  <2> QED
    BY <1>7, <2>2 DEF Space, Reserved
<1> QED
  BY <1>3, <1>5, <1>6, <1>7 DEF Reserved

\* A record that is deleted or marked: a deleted hardware error record is
\* charged to the common quota.
LEMMA StateSpace ==
  ASSUME Inv, Space, NEW i \in 1 .. Len(cache), cache[i].name \in Names,
         cache[i].state # "deleted", ~Stub(cache[i]),
         NEW st \in {InTransition, "deleted"}, SetState(i, st),
         UNCHANGED <<pending, ftwFailed>>, pc' # "setAdded",
         IF st = "deleted" THEN DeletedHwErrRecToCommonQuota(i) ELSE UNCHANGED <<hwTotal, commonTotal>>
  PROVE  Space'
<1>1. /\ Stored(nv, cache) /\ nv \in Seq(Records) /\ cache \in Seq(Records)
      /\ Len(cache) <= Len(nv) /\ Len(nv) \in Nat /\ Len(cache) \in Nat /\ i \in 1 .. Len(nv)
  BY DEF Inv, Stored, Flash
<1>2. /\ nv' = [nv EXCEPT ![i] = ToState(nv[i], st)]
      /\ cache' = [cache EXCEPT ![i] = ToState(cache[i], st)]
      /\ \A j \in 1 .. Len(nv) : EndsWalk(nv', j) <=> EndsWalk(nv, j)
  BY <1>1, SetStateStep
<1>3. /\ nv' \in Seq(Records) /\ Len(nv') = Len(nv)
      /\ \A j \in 1 .. Len(nv) : j # i => nv'[j] = nv[j]
      /\ nv'[i].name = nv[i].name /\ nv'[i].state = st
      /\ nv[i].val = Torn => nv'[i].val = Torn
  BY <1>1, <1>2, SetStateRecords
<1>4. /\ cache' \in Seq(Records) /\ Len(cache') = Len(cache)
      /\ \A j \in 1 .. Len(cache) : j # i => cache'[j] = cache[j]
      /\ cache'[i].name = cache[i].name /\ cache'[i].state = st
  BY <1>1, <1>2, SetStateRecords
<1>5. Mirrors'
  <2>1. ASSUME NEW j \in 1 .. Len(cache)
        PROVE  nv'[j].state = cache'[j].state /\ nv'[j].name \in {cache'[j].name, Torn}
    <3>1. j \in 1 .. Len(nv) /\ nv[j].state = cache[j].state /\ nv[j].name \in {cache[j].name, Torn}
      BY <1>1 DEF Space, Mirrors
    <3> QED
      BY <1>3, <1>4, <3>1
  <2> QED
    BY <1>4, <2>1 DEF Mirrors
<1>6. NothingTorn' => NothingTorn
  <2>1. DOMAIN nv = 1 .. Len(nv) /\ DOMAIN nv' = 1 .. Len(nv)
    BY <1>1, <1>3
  <2>2. ASSUME NEW j \in 1 .. Len(nv), Torn \in {nv[j].name, nv[j].val}
        PROVE  Torn \in {nv'[j].name, nv'[j].val}
    <3>1. CASE j = i
      BY <1>3, <2>2, <3>1
    <3>2. CASE j # i
      BY <1>3, <2>2, <3>2
    <3> QED
      BY <3>1, <3>2
  <2> QED
    BY <2>1, <2>2 DEF NothingTorn
<1> DEFINE H == HwLive(cache)
           H1 == HwLive(cache')
           K == Known(cache)
           s == Weight(cache, i)
<1>6a. ~Stub(cache'[i]) /\ cache'[i].name # Torn /\ cache[i].name # Torn
  BY <1>4, NamesAssumption DEF Stub, InTransition
<1>7. Known(cache') = K
  <2>1. \A j \in 1 .. Len(cache) : j \in Known(cache') <=> j \in Known(cache)
    BY <1>4, <1>6a DEF Known
  <2>2. Known(cache') \subseteq 1 .. Len(cache) /\ Known(cache) \subseteq 1 .. Len(cache)
    BY <1>4 DEF Known
  <2> QED
    BY <2>1, <2>2
<1>8. \A j \in 1 .. Len(cache) : Weight(cache', j) = Weight(cache, j)
  <2> TAKE j \in 1 .. Len(cache)
  <2>1. CASE j = i
    BY <1>4, <1>6a, <2>1 DEF Weight, RecordSize
  <2>2. CASE j # i
    BY <1>4, <2>2 DEF Weight
  <2> QED
    BY <2>1, <2>2
<1>9. AllNamed(cache, H) /\ AllNamed(cache, K) /\ AllNamed(cache', H1) /\ AllNamed(cache', K)
  BY <1>1, <1>4, <1>7, HwLiveIs
<1>10. /\ \A j : j \in H <=> j \in 1 .. Len(cache) /\ cache[j].name \in HwErr /\ cache[j].state # "deleted"
       /\ \A j : j \in H1 <=> j \in 1 .. Len(cache) /\ cache'[j].name \in HwErr /\ cache'[j].state # "deleted"
  BY <1>1, <1>4, HwLiveIs
<1>11. H1 = IF st = "deleted" THEN H \ {i} ELSE H
  <2>1. ASSUME NEW j \in 1 .. Len(cache), j # i PROVE j \in H1 <=> j \in H
    BY <1>4, <1>10, <2>1
  <2>2. i \in H1 <=> (st # "deleted" /\ i \in H)
    BY <1>4, <1>10
  <2>3. H \subseteq 1 .. Len(cache) /\ H1 \subseteq 1 .. Len(cache)
    BY <1>10
  <2> HIDE DEF H, H1
  <2>4. \A j : j \in H1 <=> j \in H /\ (j # i \/ st # "deleted")
    BY <2>1, <2>2, <2>3
  <2>5. CASE st = "deleted"
    BY <2>4, <2>5
  <2>6. CASE st # "deleted"
    BY <2>4, <2>6
  <2> QED
    BY <2>5, <2>6
<1>12. i \in H <=> cache[i].name \in HwErr
  BY <1>10
<1>13. AllNamed(cache, {i}) /\ s = Size[cache[i].name]
  BY DEF AllNamed, Weight, RecordSize
<1> HIDE DEF H, H1, K
<1>14. s \in Nat \ {0} /\ TotalSize(cache, {i}) = s
  BY <1>1, <1>13, TotalSingle
<1>15. TotalSize(cache', K) = TotalSize(cache, K)
  <2>1. \A j \in K : Weight(cache', j) = Weight(cache, j)
    BY <1>8, <1>9 DEF AllNamed
  <2> QED
    BY <1>1, <1>4, <1>9, <2>1, TotalSame
<1>16. AllNamed(cache, H1) /\ TotalSize(cache', H1) = TotalSize(cache, H1)
  <2>1. H1 \subseteq H
    BY <1>11
  <2>2. AllNamed(cache, H1)
    BY <1>9, <2>1 DEF AllNamed
  <2>3. \A j \in H1 : Weight(cache', j) = Weight(cache, j)
    BY <1>8, <2>2 DEF AllNamed
  <2> QED
    BY <1>1, <1>4, <1>9, <2>2, <2>3, TotalSame
<1>17. /\ TotalSize(cache, H) \in Nat /\ TotalSize(cache, H1) \in Nat /\ TotalSize(cache, K) \in Nat
  BY <1>1, <1>9, <1>16, TotalNat
<1>18. i \in H /\ st = "deleted" => TotalSize(cache, H) = TotalSize(cache, H1) + s
  <2> SUFFICES ASSUME i \in H, st = "deleted" PROVE TotalSize(cache, H) = TotalSize(cache, H1) + s
    OBVIOUS
  <2>1. H = H1 \cup {i} /\ H1 \cap {i} = {}
    BY <1>11
  <2> QED
    BY <1>1, <1>13, <1>14, <1>16, <2>1, TotalUnion
<1>19. /\ hwTotal \in Nat /\ commonTotal \in Nat
       /\ TotalSize(cache, H) <= hwTotal /\ TotalSize(cache, K) <= hwTotal + commonTotal
       /\ NothingTorn => hwTotal + commonTotal <= TotalSize(cache, K)
       /\ ~ftwFailed /\ NothingTorn => hwTotal <= TotalSize(cache, H)
       /\ ~ftwFailed => /\ pending = {} /\ hwTotal <= HwErrSpace
                        /\ hwTotal + commonTotal <= CommonSpace + HwErrSpace
  BY DEF Space, Counted, InQuota, H, K
<1>20. CASE i \in H /\ st = "deleted"
  <2>1. /\ hwTotal' = IF hwTotal > s THEN hwTotal - s ELSE 0
        /\ commonTotal' = commonTotal + s
    BY <1>12, <1>13, <1>20 DEF DeletedHwErrRecToCommonQuota
  <2> HIDE DEF s
  <2>2. hwTotal >= s
    BY <1>14, <1>17, <1>18, <1>19, <1>20
  <2>3. hwTotal' = hwTotal - s
    BY <1>14, <1>19, <2>1, <2>2
  <2>4. /\ hwTotal' \in Nat /\ commonTotal' \in Nat /\ hwTotal' <= hwTotal
        /\ hwTotal' + commonTotal' = hwTotal + commonTotal
    BY <1>14, <1>19, <2>1, <2>2, <2>3
  <2>5. Counted'
    <3>1. TotalSize(cache', H1) <= hwTotal'
      BY <1>14, <1>16, <1>17, <1>18, <1>19, <1>20, <2>3
    <3>2. ~ftwFailed' /\ NothingTorn' => hwTotal' <= TotalSize(cache', H1)
      BY <1>6, <1>14, <1>16, <1>17, <1>18, <1>19, <1>20, <2>3
    <3> QED
      BY <1>6, <1>7, <1>15, <1>19, <2>4, <3>1, <3>2 DEF Counted, H1
  <2>6. InQuota'
    BY <1>19, <2>4, SpaceAssumption DEF InQuota
  <2>7. Reserved'
    <3>1. PICK a \in Nat, b \in Nat : hwTotal' = a /\ commonTotal' = b
      BY <2>4
    <3>2. a <= hwTotal /\ a + b = hwTotal + commonTotal
      BY <2>4, <3>1
    <3> QED
      BY <3>1, <3>2, StateReserved
  <2> QED
    BY <1>5, <2>4, <2>5, <2>6, <2>7 DEF Space, Tested
<1>21. CASE ~(i \in H /\ st = "deleted")
  <2>1. H1 = H
    BY <1>11, <1>21
  <2>2. hwTotal' = hwTotal /\ commonTotal' = commonTotal
    BY <1>12, <1>21 DEF DeletedHwErrRecToCommonQuota
  <2>3. Counted'
    BY <1>6, <1>7, <1>15, <1>16, <1>19, <2>1, <2>2 DEF Counted, H1
  <2>4. InQuota'
    BY <1>19, <2>2 DEF InQuota
  <2>5. Reserved'
    <3>1. hwTotal <= hwTotal /\ hwTotal + commonTotal = hwTotal + commonTotal
      BY <1>19
    <3> QED
      BY <1>19, <2>2, <3>1, StateReserved
  <2> QED
    BY <1>5, <1>19, <2>2, <2>3, <2>4, <2>5 DEF Space, Tested
<1> QED
  BY <1>20, <1>21

\* A write that fails, and the steps that change neither flash nor cache.
LEMMA SameSpace ==
  ASSUME Space, UNCHANGED <<nv, pending, cache, commonTotal, hwTotal, ftwFailed>>, pc' # "setAdded"
  PROVE  Space'
BY DEF Space, Mirrors, Counted, NothingTorn, InQuota, Tested, Reserved

LEMMA StatesSpace ==
  ASSUME Inv, Space, MarkOld \/ DeleteInDel \/ DeleteCurr
  PROVE  Space'
<1>1. pc' # "setAdded" /\ UNCHANGED <<pending, ftwFailed>>
  BY DEF MarkOld, DeleteInDel, DeleteCurr, WriteFails, RequestFails, Return
<1>2. CASE WriteFails
  BY <1>1, <1>2, SameSpace DEF WriteFails, RequestFails
<1>3. ASSUME MarkOld, SetState(curr, "inDeletedTransition"), UNCHANGED <<commonTotal, hwTotal>> PROVE Space'
  <2>1. /\ curr \in 1 .. Len(cache) /\ cache[curr].name \in Names /\ cache[curr].state # "deleted"
        /\ ~Stub(cache[curr])
    BY <1>3 DEF MarkOld, Inv, Request, Points, Quiet, InTransition, Stub
  <2>2. SetState(curr, InTransition) /\ InTransition # "deleted"
    BY <1>3 DEF InTransition
  <2> QED
    BY <1>1, <1>3, <2>1, <2>2, StateSpace
<1>4. ASSUME DeleteInDel, SetState(inDel, "deleted"), DeletedHwErrRecToCommonQuota(inDel) PROVE Space'
  <2>1. /\ inDel \in 1 .. Len(cache) /\ cache[inDel].name \in Names /\ cache[inDel].state # "deleted"
        /\ ~Stub(cache[inDel])
    BY <1>4 DEF DeleteInDel, Inv, Request, Points, Quiet, InTransition, Stub
  <2> QED
    BY <1>1, <1>4, <2>1, StateSpace
<1>5. ASSUME DeleteCurr, SetState(curr, "deleted"), DeletedHwErrRecToCommonQuota(curr) PROVE Space'
  <2>1. /\ curr \in 1 .. Len(cache) /\ cache[curr].name \in Names /\ cache[curr].state # "deleted"
        /\ ~Stub(cache[curr])
    BY <1>5 DEF DeleteCurr, Inv, Request, Points, Quiet, InTransition, Deleting, Retiring, Stub
  <2> QED
    BY <1>1, <1>5, <2>1, StateSpace
<1> QED
  BY <1>2, <1>3, <1>4, <1>5 DEF MarkOld, DeleteInDel, DeleteCurr

LEMMA AddStep1Space ==
  ASSUME Inv, Space, AddStep1
  PROVE  Space'
<1> DEFINE n == Len(cache)
           s == Size[req.name]
<1>1. pc = "add" /\ UNCHANGED <<pending, req, ftwFailed>> /\ UNCHANGED <<cache, commonTotal, hwTotal>>
  BY DEF AddStep1, WriteFails, RequestFails
<1>2. CASE WriteFails
  BY <1>1, <1>2, SameSpace DEF WriteFails, RequestFails, Return
<1>3. CASE nv' = Programmed /\ pc' \in {"setAdded", "done"}
  <2>1. PICK r : NewEntry(r)
    BY <1>1, ProgrammedIs
  <2>2. /\ nv \in Seq(Records) /\ cache \in Seq(Records) /\ n \in Nat /\ Len(nv) \in Nat /\ n <= Len(nv)
    BY DEF Inv, Stored, Flash
  <2>3. /\ nv' \in Seq(Records) /\ Len(nv') = n + 1 /\ nv'[n + 1] = r
        /\ \A i \in 1 .. n : nv'[i] = nv[i]
        /\ r.name \in {req.name, Torn}
        /\ nv' = nv \/ Len(nv) = n \/ r.val = Torn
    BY <1>3, <2>1 DEF NewEntry
  <2>4. NothingTorn' => NothingTorn
    <3>1. CASE nv' = nv
      BY <3>1 DEF NothingTorn
    <3>2. CASE Len(nv) = n
      <4>1. DOMAIN nv = 1 .. n /\ \A i \in 1 .. n : i \in DOMAIN nv'
        BY <2>2, <2>3, <3>2
      <4> QED
        BY <2>3, <4>1 DEF NothingTorn
    <3>3. CASE r.val = Torn
      <4>1. n + 1 \in DOMAIN nv'
        BY <2>2, <2>3
      <4> QED
        BY <2>3, <3>3, <4>1 DEF NothingTorn
    <3> QED
      BY <2>3, <3>1, <3>2, <3>3
  <2>5. Mirrors'
    BY <1>1, <2>3 DEF Space, Mirrors
  <2>6. Counted' /\ InQuota' /\ commonTotal' \in Nat /\ hwTotal' \in Nat
    BY <1>1, <2>4 DEF Space, Counted, InQuota
  <2>7. ~(IF req.name \in HwErr THEN HwErrOverQuota(s) ELSE CommonOverQuota(s))
    BY DEF AddStep1
  <2>8. /\ s \in Nat /\ commonTotal \in Nat /\ hwTotal \in Nat /\ HeaderSize \in Nat /\ HeaderSize < s
    <3>1. req.name \in Names /\ commonTotal \in Nat /\ hwTotal \in Nat
      BY <1>1 DEF Inv, Request, Quiet, Space
    <3> QED
      BY <3>1, SizeAssumption
  <2>9. CommonSpace \in Nat /\ HwErrSpace \in Nat /\ RuntimeSpace \in Nat /\ RuntimeSpace <= CommonSpace
    BY SpaceAssumption
  <2> HIDE DEF s
  <2>10. IF req.name \in HwErr
         THEN s + hwTotal <= HwErrSpace /\ s + hwTotal + commonTotal <= HwErrSpace + CommonSpace
         ELSE s + commonTotal <= CommonSpace
    <3>1. CASE req.name \in HwErr
      BY <2>7, <2>8, <2>9, <3>1 DEF HwErrOverQuota
    <3>2. CASE req.name \notin HwErr
      BY <2>7, <2>8, <2>9, <3>2 DEF CommonOverQuota
    <3> QED
      BY <3>1, <3>2
  <2>11. Tested'
    BY <1>1, <2>2, <2>3, <2>10 DEF Tested, s
  <2>12. ASSUME ~ftwFailed
         PROVE  /\ HeaderSize + hwTotal + commonTotal <= CommonSpace + HwErrSpace
                /\ nv'[n + 1].name \in HwErr => HeaderSize + hwTotal <= HwErrSpace
    <3>1. hwTotal <= HwErrSpace
      BY <2>12 DEF Space, InQuota
    <3>2. CASE req.name \in HwErr
      <4>1. s + hwTotal <= HwErrSpace /\ s + hwTotal + commonTotal <= HwErrSpace + CommonSpace
        BY <2>10, <3>2
      <4>2. HeaderSize + hwTotal <= HwErrSpace
        BY <2>8, <2>9, <4>1
      <4>3. HeaderSize + hwTotal + commonTotal <= CommonSpace + HwErrSpace
        BY <2>8, <2>9, <4>1
      <4> QED
        BY <4>2, <4>3
    <3>3. CASE req.name \notin HwErr
      <4>1. s + commonTotal <= CommonSpace
        BY <2>10, <3>3
      <4>2. HeaderSize + hwTotal + commonTotal <= CommonSpace + HwErrSpace
        BY <2>8, <2>9, <3>1, <4>1
      <4>3. nv'[n + 1].name \notin HwErr
        BY <2>3, <3>3, NamesAssumption
      <4> QED
        BY <4>2, <4>3
    <3> QED
      BY <3>2, <3>3
  <2>13. Reserved'
    BY <1>1, <2>12 DEF Reserved
  <2> QED
    BY <2>5, <2>6, <2>11, <2>13 DEF Space
<1>4. \/ WriteFails \/ (nv' = Programmed /\ pc' \in {"setAdded", "done"})
  BY DEF AddStep1, RequestFails, Return
<1> QED
  BY <1>2, <1>3, <1>4

LEMMA AddStep2Space ==
  ASSUME Inv, Space, AddStep2, Inv'
  PROVE  Space'
<1> DEFINE n == Len(cache)
           new == Record(req.name, req.val, "added")
<1>0. pc = "setAdded" /\ pc' # "setAdded" /\ UNCHANGED <<pending, req, ftwFailed>>
  BY DEF AddStep2, WriteFails, RequestFails, Return
<1>1. CASE WriteFails
  BY <1>0, <1>1, SameSpace DEF WriteFails, RequestFails
<1>2. CASE /\ nv' = [nv EXCEPT ![n + 1].state = "added"]
           /\ cache' = Append(cache, new)
           /\ IF req.name \in HwErr
              THEN hwTotal' = hwTotal + Size[req.name] /\ UNCHANGED commonTotal
              ELSE commonTotal' = commonTotal + Size[req.name] /\ UNCHANGED hwTotal
  <2>1. /\ nv \in Seq(Records) /\ cache \in Seq(Records) /\ n \in Nat /\ Len(nv) = n + 1
        /\ nv' \in Seq(Records) /\ cache' \in Seq(Records)
    BY <1>0 DEF Inv, Stored, Flash, Request
  <2>2. new \in Records /\ new.name = req.name /\ new.state = "added" /\ req.name \in Names
    BY <1>0, NewRecords
  <2> HIDE DEF new
  <2>3. Len(cache') = n + 1 /\ cache'[n + 1] = new /\ \A i \in 1 .. n : cache'[i] = cache[i]
    BY <1>2, <2>1, <2>2
  <2>4. n + 1 \in 1 .. Len(nv) /\ nv[n + 1] \in Records /\ nv[n + 1].name \in {req.name, Torn}
    BY <1>0, <2>1 DEF Space, Tested
  <2>5. /\ nv' = [nv EXCEPT ![n + 1] = AsAdded(nv[n + 1])]
    BY <1>2 DEF AsAdded
  <2>6. /\ DOMAIN nv' = DOMAIN nv
        /\ nv'[n + 1] = AsAdded(nv[n + 1]) /\ \A i \in DOMAIN nv : i # n + 1 => nv'[i] = nv[i]
    BY <2>1, <2>4, <2>5
  <2>7. AsAdded(nv[n + 1]).state = "added" /\ AsAdded(nv[n + 1]).name = nv[n + 1].name
        /\ AsAdded(nv[n + 1]).val = nv[n + 1].val
    BY <2>4, AsAddedRecord
  <2>8. Mirrors'
    <3>1. ASSUME NEW i \in 1 .. n + 1
          PROVE  nv'[i].state = cache'[i].state /\ nv'[i].name \in {cache'[i].name, Torn}
      <4>1. CASE i = n + 1
        BY <2>2, <2>3, <2>4, <2>6, <2>7, <4>1
      <4>2. CASE i # n + 1
        <5>1. i \in 1 .. n /\ i \in DOMAIN nv
          BY <2>1, <4>2
        <5>2. nv'[i] = nv[i] /\ cache'[i] = cache[i]
          BY <2>3, <2>6, <4>2, <5>1
        <5> QED
          BY <5>1, <5>2 DEF Space, Mirrors
      <4> QED
        BY <4>1, <4>2
    <3> QED
      BY <2>3, <3>1 DEF Mirrors
  <2>9. NothingTorn' => NothingTorn
    BY <2>6, <2>7 DEF NothingTorn
  <2> DEFINE H == HwLive(cache)
             H1 == HwLive(cache')
             K == Known(cache)
             K1 == Known(cache')
             s == Size[req.name]
  <2>10. 1 .. n + 1 = (1 .. n) \cup {n + 1} /\ n + 1 \notin 1 .. n
    BY <2>1
  <2>11. /\ \A j : j \in H <=> j \in 1 .. n /\ cache[j].name \in HwErr /\ cache[j].state # "deleted"
         /\ \A j : j \in H1 <=> j \in 1 .. n + 1 /\ cache'[j].name \in HwErr /\ cache'[j].state # "deleted"
         /\ AllNamed(cache, H) /\ AllNamed(cache, K) /\ AllNamed(cache', H1) /\ AllNamed(cache', K1)
    BY <2>1, <2>3, HwLiveIs
  <2>12. H1 = IF req.name \in HwErr THEN H \cup {n + 1} ELSE H
    <3>1. \A j \in 1 .. n : j \in H1 <=> j \in H
      BY <2>3, <2>10, <2>11
    <3>2. n + 1 \in H1 <=> req.name \in HwErr
      BY <2>2, <2>3, <2>10, <2>11
    <3>3. H \subseteq 1 .. n /\ H1 \subseteq (1 .. n) \cup {n + 1}
      BY <2>10, <2>11
    <3> HIDE DEF H, H1
    <3>4. \A j : j \in H1 <=> j \in H \/ (j = n + 1 /\ req.name \in HwErr)
      BY <2>10, <3>1, <3>2, <3>3
    <3>5. CASE req.name \in HwErr
      BY <3>4, <3>5
    <3>6. CASE req.name \notin HwErr
      BY <3>4, <3>6
    <3> QED
      BY <3>5, <3>6
  <2>13. K1 = K \cup {n + 1}
    <3>1. req.name # Torn
      BY <2>2, NamesAssumption
    <3> QED
      BY <2>2, <2>3, <2>10, <3>1 DEF Known
  <2>14. \A j \in 1 .. n : Weight(cache', j) = Weight(cache, j)
    BY <2>3 DEF Weight
  <2>15. AllNamed(cache', {n + 1}) /\ AllNamed(cache', H) /\ AllNamed(cache', K)
         /\ H \cap {n + 1} = {} /\ K \cap {n + 1} = {}
    <3>1. H \subseteq 1 .. n /\ K \subseteq 1 .. n
      BY <2>11 DEF AllNamed
    <3>2. \A j \in H \cup K : Stub(cache'[j]) \/ cache'[j].name \in Names
      BY <2>3, <2>11, <3>1 DEF AllNamed
    <3> HIDE DEF H, K
    <3> QED
      BY <2>2, <2>3, <2>10, <3>1, <3>2 DEF AllNamed
  <2> HIDE DEF H, H1, K, K1
  <2>16. TotalSize(cache', H) = TotalSize(cache, H) /\ TotalSize(cache', K) = TotalSize(cache, K)
    <3>1. (\A j \in H : Weight(cache', j) = Weight(cache, j)) /\ \A j \in K : Weight(cache', j) = Weight(cache, j)
      BY <2>11, <2>14 DEF AllNamed
    <3> QED
      BY <2>1, <2>11, <2>15, <3>1, TotalSame
  <2>17. TotalSize(cache', {n + 1}) = s /\ s \in Nat
    <3>1. TotalSize(cache', {n + 1}) = Weight(cache', n + 1)
      BY <2>1, <2>15, TotalSingle
    <3>2. Weight(cache', n + 1) = s
      BY <2>2, <2>3 DEF Weight, RecordSize, Stub
    <3>3. s \in Nat
      BY <2>2, SizeAssumption
    <3> QED
      BY <3>1, <3>2, <3>3
  <2> HIDE DEF s
  <2>18. TotalSize(cache', K1) = TotalSize(cache, K) + s
    BY <2>1, <2>13, <2>15, <2>16, <2>17, TotalUnion
  <2>19. TotalSize(cache', H1) = TotalSize(cache, H) + (IF req.name \in HwErr THEN s ELSE 0)
    <3>1. CASE req.name \in HwErr
      BY <2>1, <2>12, <2>15, <2>16, <2>17, <3>1, TotalUnion
    <3>2. CASE req.name \notin HwErr
      <4>1. TotalSize(cache, H) \in Nat
        BY <2>1, <2>11, TotalNat
      <4> QED
        BY <2>12, <2>16, <3>2, <4>1
    <3> QED
      BY <3>1, <3>2
  <2>20. TotalSize(cache, H) \in Nat /\ TotalSize(cache, K) \in Nat
    BY <2>1, <2>11, TotalNat
  <2>21. /\ hwTotal \in Nat /\ commonTotal \in Nat
         /\ TotalSize(cache, H) <= hwTotal /\ TotalSize(cache, K) <= hwTotal + commonTotal
         /\ NothingTorn => hwTotal + commonTotal <= TotalSize(cache, K)
         /\ ~ftwFailed /\ NothingTorn => hwTotal <= TotalSize(cache, H)
         /\ ~ftwFailed => /\ pending = {} /\ hwTotal <= HwErrSpace
                          /\ hwTotal + commonTotal <= CommonSpace + HwErrSpace
    BY DEF Space, Counted, InQuota, H, K
  <2>22. IF req.name \in HwErr
         THEN s + hwTotal <= HwErrSpace /\ s + hwTotal + commonTotal <= HwErrSpace + CommonSpace
         ELSE s + commonTotal <= CommonSpace
    BY <1>0 DEF Space, Tested, s
  <2>23. HwErrSpace \in Nat /\ CommonSpace \in Nat
    BY SpaceAssumption
  <2>24. /\ hwTotal' = hwTotal + (IF req.name \in HwErr THEN s ELSE 0)
         /\ commonTotal' = commonTotal + (IF req.name \in HwErr THEN 0 ELSE s)
    BY <1>2, <2>21 DEF s
  <2>25. hwTotal' \in Nat /\ commonTotal' \in Nat /\ hwTotal' + commonTotal' = hwTotal + commonTotal + s
    BY <2>17, <2>21, <2>24
  <2>26. Counted'
    <3>1. TotalSize(cache', H1) <= hwTotal'
      BY <2>17, <2>19, <2>20, <2>21, <2>24
    <3>2. TotalSize(cache', K1) <= hwTotal' + commonTotal'
      <4>1. TotalSize(cache, K) <= hwTotal + commonTotal /\ hwTotal \in Nat /\ commonTotal \in Nat
        BY <2>21
      <4>2. hwTotal' + commonTotal' = hwTotal + commonTotal + s
        BY <2>25
      <4>3. TotalSize(cache, K) + s <= hwTotal + commonTotal + s
        BY <2>17, <2>20, <4>1
      <4> QED
        BY <2>18, <4>2, <4>3
    <3>3. NothingTorn' => hwTotal' + commonTotal' <= TotalSize(cache', K1)
      <4> SUFFICES ASSUME NothingTorn' PROVE hwTotal' + commonTotal' <= TotalSize(cache', K1)
        OBVIOUS
      <4>1. hwTotal + commonTotal <= TotalSize(cache, K) /\ hwTotal \in Nat /\ commonTotal \in Nat
        BY <2>9, <2>21
      <4>2. hwTotal' + commonTotal' = hwTotal + commonTotal + s
        BY <2>25
      <4>3. hwTotal + commonTotal + s <= TotalSize(cache, K) + s
        BY <2>17, <2>20, <4>1
      <4> QED
        BY <2>18, <4>2, <4>3
    <3>4. ~ftwFailed' /\ NothingTorn' => hwTotal' <= TotalSize(cache', H1)
      BY <1>0, <2>9, <2>17, <2>19, <2>20, <2>21, <2>24
    <3> QED
      BY <3>1, <3>2, <3>3, <3>4 DEF Counted, H1, K1
  <2>27. InQuota'
    <3> SUFFICES ASSUME ~ftwFailed PROVE InQuota'
      BY <1>0 DEF InQuota
    <3>1. hwTotal' <= HwErrSpace
      BY <2>17, <2>21, <2>22, <2>23, <2>24
    <3>2. hwTotal' + commonTotal' <= CommonSpace + HwErrSpace
      <4>1. hwTotal + commonTotal + s <= CommonSpace + HwErrSpace
        <5>1. CASE req.name \in HwErr
          BY <2>17, <2>21, <2>22, <2>23, <5>1
        <5>2. CASE req.name \notin HwErr
          BY <2>17, <2>21, <2>22, <2>23, <5>2
        <5> QED
          BY <5>1, <5>2
      <4> QED
        BY <2>25, <4>1
    <3> QED
      BY <1>0, <2>21, <3>1, <3>2 DEF InQuota
  <2>28. Reserved'
    <3>1. Len(nv') = n + 1
      BY <2>1, <2>6
    <3>2. ~(Len(cache') < Len(nv'))
      BY <2>1, <2>3, <3>1
    <3> QED
      BY <3>2 DEF Reserved
  <2> QED
    BY <1>0, <2>8, <2>25, <2>26, <2>27, <2>28 DEF Space, Tested
<1> QED
  BY <1>1, <1>2 DEF AddStep2

LEMMA ReclaimAndAddSpace ==
  ASSUME Inv, Space, ReclaimAndAdd, Inv'
  PROVE  Space'
<1> DEFINE new == <<Record(req.name, req.val, "added")>>
           image == ReclaimedImage(curr, inDel, new)
<1>1. pc = "add" /\ pc' # "setAdded"
  BY DEF ReclaimAndAdd, Return
<1>2. Image(image)
  <2>1. NewRecord(new)
    BY <1>1, NewRecords DEF NewRecord
  <2> HIDE DEF new
  <2> QED
    BY <2>1, ScalarsSplit, ImageOfReclaim
<1>3. nv \in Seq(Records) /\ cache \in Seq(Records) /\ nv' \in Seq(Records) /\ cache' \in Seq(Records)
  BY DEF Inv, Stored, Flash
<1>4. \/ ReclaimFits(image) /\ (FtwVariableSpaceDone(image) \/ FtwVariableSpaceFailed(image))
      \/ /\ cache' = SubSeq(nv, 1, Len(cache))
         /\ UNCHANGED <<nv, pending, commonTotal, hwTotal, ftwFailed>>
  BY DEF ReclaimAndAdd
<1> HIDE DEF new, image
<1>5. CASE ReclaimFits(image) /\ (FtwVariableSpaceDone(image) \/ FtwVariableSpaceFailed(image))
  <2>1. image \in Seq(Records) /\ DOMAIN image = 1 .. Len(image)
        /\ \A i \in 1 .. Len(image) : image[i].name # Torn /\ image[i].state = "added"
    BY <1>2 DEF Image
  <2>2. HwErrRecords(image, {}) = HwLive(image) /\ Known(image) = DOMAIN image
    BY <2>1 DEF HwErrRecords, HwLive, Known
  <2>3. Fits(image)
    BY <1>5, <2>2 DEF ReclaimFits, Fits
  <2> QED
    BY <1>1, <1>2, <1>3, <1>5, <2>3, FtwSpace
<1>6. CASE /\ cache' = SubSeq(nv, 1, Len(cache))
           /\ UNCHANGED <<nv, pending, commonTotal, hwTotal, ftwFailed>>
  <2>1. Len(cache) \in 0 .. Len(nv) /\ Len(cache) \in Nat
    BY <1>3 DEF Inv, Stored
  <2>2. Len(cache') = Len(cache) /\ \A i \in 1 .. Len(cache) : cache'[i] = nv[i]
    BY <1>3, <1>6, <2>1, PrefixEntries
  <2>3. \A i \in 1 .. Len(cache) : /\ cache'[i].state = cache[i].state
                                   /\ cache'[i].name \in {cache[i].name, Torn}
    BY <2>2 DEF Space, Mirrors
  <2>4. Mirrors'
    BY <1>6, <2>2 DEF Mirrors
  <2>5. /\ \A j : j \in HwLive(cache) <=>
                    j \in 1 .. Len(cache) /\ cache[j].name \in HwErr /\ cache[j].state # "deleted"
        /\ \A j : j \in HwLive(cache') <=>
                    j \in 1 .. Len(cache) /\ cache'[j].name \in HwErr /\ cache'[j].state # "deleted"
        /\ AllNamed(cache, HwLive(cache)) /\ AllNamed(cache, Known(cache))
        /\ AllNamed(cache', HwLive(cache')) /\ AllNamed(cache', Known(cache'))
    BY <1>3, <2>2, HwLiveIs
  <2>6. HwLive(cache') \subseteq HwLive(cache) /\ Known(cache') \subseteq Known(cache)
    <3>1. Torn \notin HwErr
      BY NamesAssumption
    <3> QED
      BY <2>2, <2>3, <2>5, <3>1 DEF Known, Stub
  <2>7. \A j \in Known(cache') : Weight(cache', j) = Weight(cache, j)
    BY <2>2, <2>3 DEF Known, Weight, RecordSize, Stub
  <2>8. HwLive(cache') \subseteq Known(cache')
    BY <2>2, <2>5, NamesAssumption DEF Known
  <2>9. ASSUME NEW I, I \subseteq Known(cache'), AllNamed(cache', I), AllNamed(cache, I)
        PROVE  TotalSize(cache', I) = TotalSize(cache, I)
    <3>1. \A j \in I : Weight(cache', j) = Weight(cache, j)
      BY <2>7, <2>9
    <3> QED
      BY <1>3, <2>9, <3>1, TotalSame
  <2>10. AllNamed(cache, HwLive(cache')) /\ AllNamed(cache, Known(cache'))
         /\ TotalSize(cache, HwLive(cache')) <= TotalSize(cache, HwLive(cache))
         /\ TotalSize(cache, Known(cache')) <= TotalSize(cache, Known(cache))
    BY <1>3, <2>5, <2>6, TotalSubset
  <2>11. /\ TotalSize(cache', HwLive(cache')) <= TotalSize(cache, HwLive(cache))
         /\ TotalSize(cache', Known(cache')) <= TotalSize(cache, Known(cache))
    BY <2>5, <2>8, <2>9, <2>10
  <2>12. NothingTorn => cache' = cache
    <3> SUFFICES ASSUME NothingTorn PROVE cache' = cache
      OBVIOUS
    <3>1. \A i \in 1 .. Len(cache) : i \in DOMAIN nv
      BY <1>3, <2>1
    <3>2. \A i \in 1 .. Len(cache) : nv[i] = cache[i]
      BY <3>1 DEF NothingTorn, Inv, Stored
    <3> QED
      BY <1>3, <2>2, <3>2, SeqEqual
  <2>13. /\ TotalSize(cache', HwLive(cache')) \in Nat /\ TotalSize(cache', Known(cache')) \in Nat
         /\ TotalSize(cache, HwLive(cache)) \in Nat /\ TotalSize(cache, Known(cache)) \in Nat
    BY <1>3, <2>5, TotalNat
  <2>14. Counted'
    <3>1. /\ hwTotal \in Nat /\ commonTotal \in Nat
          /\ TotalSize(cache, HwLive(cache)) <= hwTotal
          /\ TotalSize(cache, Known(cache)) <= hwTotal + commonTotal
      BY DEF Space, Counted
    <3>2. /\ TotalSize(cache', HwLive(cache')) <= hwTotal
          /\ TotalSize(cache', Known(cache')) <= hwTotal + commonTotal
      BY <2>11, <2>13, <3>1
    <3>3. /\ NothingTorn => hwTotal + commonTotal <= TotalSize(cache', Known(cache'))
          /\ ~ftwFailed /\ NothingTorn => hwTotal <= TotalSize(cache', HwLive(cache'))
      BY <2>12 DEF Space, Counted
    <3>4. NothingTorn' => NothingTorn
      BY <1>6 DEF NothingTorn
    <3> QED
      BY <1>6, <3>2, <3>3, <3>4 DEF Counted
  <2>15. Reserved'
    BY <1>6, <2>2 DEF Space, Reserved
  <2> QED
    BY <1>1, <1>6, <2>4, <2>14, <2>15 DEF Space, InQuota, Tested
<1> QED
  BY <1>4, <1>5, <1>6

LEMMA SpaceStep ==
  ASSUME Inv, Space, [Next]_vars
  PROVE  Space'
<1>0. Inv'
  BY InvStep
<1>1. CASE PowerCycle
  BY <1>0, <1>1, PowerCycleSpace
<1>2. CASE WriteServiceInitialize \/ ReclaimForOS
  BY <1>0, <1>2, ReclaimSpace
<1>3. CASE ExitBootServices \/ SetVariableReturn \/ OutOfSpace
  BY <1>3, SameSpace DEF ExitBootServices, SetVariableReturn, OutOfSpace, Return
<1>4. CASE \E n \in Names : \E v \in Contents[n] \cup {Deleted} : SetVariable(n, v)
  <2>1. PICK n \in Names : \E v \in Contents[n] \cup {Deleted} : SetVariable(n, v)
    BY <1>4
  <2>2. pc' # "setAdded"
    BY <2>1 DEF SetVariable, Return, FirstOperation
  <2> QED
    BY <2>1, <2>2, SameSpace DEF SetVariable
<1>5. CASE MarkOld \/ DeleteInDel \/ DeleteCurr
  BY <1>5, StatesSpace
<1>6. CASE ReclaimAndAdd \/ AddStep1 \/ AddStep2
  BY <1>0, <1>6, ReclaimAndAddSpace, AddStep1Space, AddStep2Space
<1>7. CASE UNCHANGED vars
  BY <1>7 DEF vars, Space, Mirrors, Counted, NothingTorn, InQuota, Tested, Reserved
<1> QED
  BY <1>1, <1>2, <1>3, <1>4, <1>5, <1>6, <1>7 DEF Next

LEMMA SpaceInit == Init => Space
<1> SUFFICES ASSUME Init PROVE Space
  OBVIOUS
<1>1. cache = <<>> /\ nv = <<>> /\ hwTotal = 0 /\ commonTotal = 0 /\ pending = {} /\ pc # "setAdded"
  BY DEF Init
<1>2. cache \in Seq(Records) /\ Len(cache) = 0
  BY <1>1
<1>3. HwLive(cache) = {} /\ Known(cache) = {}
  BY <1>1 DEF HwLive, HwErrRecords, Known
<1>4. TotalSize(cache, {}) = 0
  BY <1>2, TotalEmpty
<1>5. Counted
  BY <1>1, <1>3, <1>4 DEF Counted
<1>6. Mirrors
  BY <1>2 DEF Mirrors
<1>7. InQuota
  BY <1>1, SpaceAssumption DEF InQuota
<1>8. Reserved
  BY <1>1 DEF Reserved
<1> QED
  BY <1>1, <1>5, <1>6, <1>7, <1>8 DEF Space, Tested

----------------------------------------------------------------------------
(* The theorems.                                                           *)

\* Every variable keeps to its type, and the pointers of a request that is
\* under way point at records of the cache.
THEOREM VariableTypes == Spec => []TypeOK
<1>1. Init => Inv /\ Space
  BY InvInit, SpaceInit
<1>2. Inv /\ Space /\ [Next]_vars => Inv' /\ Space'
  BY InvStep, SpaceStep
<1>3. Inv /\ Space => TypeOK
  <2> SUFFICES ASSUME Inv, Space PROVE TypeOK
    OBVIOUS
  <2>1. nv \in Seq(Records) /\ cache \in Seq(Records) /\ DOMAIN cache = 1 .. Len(cache)
    BY DEF Inv, Stored, Flash
  <2>2. pending \subseteq Seq(Records) /\ Cardinality(pending) <= 1
    <3>1. CASE pending = {}
      BY <3>1, FS_EmptySet
    <3>2. ASSUME NEW image, pending = {image}, Image(image)
          PROVE  pending \subseteq Seq(Records) /\ Cardinality(pending) <= 1
      <4>1. Cardinality({image}) = 1
        BY FS_Singleton
      <4> QED
        BY <3>2, <4>1 DEF Image
    <3> QED
      BY <3>1, <3>2 DEF Inv, Scalars
  <2>3. commonTotal \in Nat /\ hwTotal \in Nat
    BY DEF Space
  <2>4. {atRuntime, reclaimedAtRuntime, reclaimedForOS, writeFailed, ftwFailed} \subseteq BOOLEAN
        /\ errors \in 0 .. MaxErrors
        /\ status \in {"none", "success", "notFound", "outOfResources", "deviceError"}
    BY DEF Inv, Scalars
  <2>5. pc \in {"readOnly", "idle", "done", "mark", "add", "setAdded", "deleteInDel", "deleteCurr",
                "retireInDel", "retireCurr"}
    BY DEF Inv, Request, Quiet, Deleting, Writing, Retiring
  <2>6. req \in [name : Names, val : Values \cup {Deleted}] \cup {NoRequest}
    <3>1. CASE pc \in Quiet
      BY <3>1 DEF Inv, Request
    <3>2. CASE pc \notin Quiet
      <4>1. req.name \in Names /\ req.val \in Contents[req.name] \cup {Deleted}
            /\ req = [name |-> req.name, val |-> req.val]
        BY <3>2 DEF Inv, Request
      <4>2. req.val \in Values \cup {Deleted}
        BY <4>1 DEF Values
      <4> QED
        BY <4>1, <4>2
    <3> QED
      BY <3>1, <3>2
  <2>7. {curr, inDel} \subseteq DOMAIN cache \cup {0}
    BY <2>1 DEF Inv, Request, Points
  <2> QED
    BY <2>1, <2>2, <2>3, <2>4, <2>5, <2>6, <2>7 DEF TypeOK
<1> QED
  BY <1>1, <1>2, <1>3, PTL DEF Spec

\* CommonVariableTotalSize and HwErrVariableTotalSize are the sizes of the
\* records in the store, and neither the hardware error quota nor the region
\* is exceeded, until a fault tolerant write fails.
THEOREM SpaceIsAccounted == Spec => []SpaceAccounted
<1>1. Init => Inv /\ Space
  BY InvInit, SpaceInit
<1>2. Inv /\ Space /\ [Next]_vars => Inv' /\ Space'
  BY InvStep, SpaceStep
<1>3. Inv /\ Space => SpaceAccounted
  <2> SUFFICES ASSUME Inv, Space, NothingTorn
               PROVE  /\ hwTotal + commonTotal = TotalSize(cache, DOMAIN cache)
                      /\ ~ftwFailed => /\ hwTotal = TotalSize(cache, HwErrRecords(cache, {"deleted"}))
                                       /\ hwTotal <= HwErrSpace
                                       /\ hwTotal + commonTotal <= CommonSpace + HwErrSpace
    BY DEF SpaceAccounted
  <2>1. cache \in Seq(Records) /\ nv \in Seq(Records) /\ Len(cache) <= Len(nv)
    BY DEF Inv, Stored, Flash
  <2>2. Known(cache) = DOMAIN cache
    <3>1. \A i \in 1 .. Len(cache) : i \in DOMAIN nv
      BY <2>1
    <3>2. \A i \in 1 .. Len(cache) : nv[i] = cache[i] /\ nv[i].name # Torn
      BY <3>1 DEF NothingTorn, Inv, Stored
    <3>3. \A i \in 1 .. Len(cache) : cache[i].name # Torn
      BY <3>2
    <3>4. DOMAIN cache = 1 .. Len(cache)
      BY <2>1
    <3> QED
      BY <3>3, <3>4 DEF Known
  <2>3. TotalSize(cache, Known(cache)) \in Nat /\ TotalSize(cache, HwLive(cache)) \in Nat
    BY <2>1, HwLiveIs, TotalNat
  <2>4. hwTotal + commonTotal = TotalSize(cache, DOMAIN cache)
    BY <2>2, <2>3 DEF Space, Counted
  <2>5. ~ftwFailed => hwTotal = TotalSize(cache, HwErrRecords(cache, {"deleted"}))
    BY <2>3 DEF Space, Counted, HwLive
  <2> QED
    BY <2>4, <2>5 DEF Space, InQuota
<1> QED
  BY <1>1, <1>2, <1>3, PTL DEF Spec

=============================================================================
