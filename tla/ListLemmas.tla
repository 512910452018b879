----------------------------- MODULE ListLemmas -----------------------------
(***************************************************************************)
(* Lemmas that the proofs about several components rest on: the least and  *)
(* the greatest element of a set of numbers, and lists from which an entry *)
(* is taken out.                                                           *)
(***************************************************************************)
EXTENDS Integers, Sequences, FiniteSetsExt, SequenceTheorems, WellFoundedInduction, TLAPS

\* A set of natural numbers has a least element.
LEMMA LeastNatural ==
  ASSUME NEW S, S \subseteq Nat, S # {}
  PROVE  \E x \in S : \A y \in S : x <= y
<1> DEFINE R == {ss \in Nat \X Nat : ss[1] < ss[2]}
<1>1. IsWellFoundedOn(R, Nat)
  BY NatLessThanWellFounded DEF OpToRel
<1> HIDE DEF R
<1>2. PICK x \in S : \A y \in S : ~ (<<y, x>> \in R)
  BY <1>1, WFMin
<1>3. ASSUME NEW y \in S PROVE x <= y
  <2>1. x \in Nat /\ y \in Nat
    OBVIOUS
  <2>2. y < x => <<y, x>> \in R
    BY <2>1 DEF R
  <2> QED
    BY <1>2, <2>1, <2>2
<1> QED
  BY <1>3

\* Min(S) of FiniteSetsExt is the least element of S.
LEMMA MinOfSet ==
  ASSUME NEW S, S \subseteq Nat, S # {}
  PROVE  Min(S) \in S /\ \A y \in S : Min(S) <= y
<1>1. \E x \in S : \A y \in S : x <= y
  BY LeastNatural
<1> QED
  BY <1>1 DEF Min

\* Max(S) of FiniteSetsExt is the greatest element of S, if S is bounded.
LEMMA MaxOfSet ==
  ASSUME NEW S, NEW b \in Nat, S \subseteq 0 .. b, S # {}
  PROVE  Max(S) \in S /\ \A y \in S : Max(S) >= y
<1> DEFINE T == {n \in Nat : b - n \in S}
<1>1. PICK x \in S : TRUE
  OBVIOUS
<1>2. x \in 0 .. b /\ b - (b - x) = x /\ b - x \in Nat
  OBVIOUS
<1>3. T \subseteq Nat /\ T # {}
  BY <1>1, <1>2
<1>4. PICK n \in T : \A m \in T : n <= m
  <2> HIDE DEF T
  <2> QED
    BY <1>3, LeastNatural
<1>5. b - n \in S
  BY <1>4
<1>6. ASSUME NEW y \in S PROVE b - n >= y
  <2>1. b - y \in Nat /\ b - (b - y) = y /\ y \in Nat
    OBVIOUS
  <2>2. b - y \in T
    BY <2>1
  <2>3. n <= b - y /\ n \in Nat
    BY <2>2, <1>4
  <2> QED
    BY <2>3, <2>1
<1>7. \E z \in S : \A y \in S : z >= y
  BY <1>5, <1>6
<1> QED
  BY <1>7 DEF Max

\* Counting up from 0.
LEMMA CountingUp ==
  ASSUME NEW n \in Nat, NEW S, 0 \in S, \A k \in 1 .. n : k - 1 \in S => k \in S
  PROVE  \A k \in 0 .. n : k \in S
<1> DEFINE T == {k \in 0 .. n : k \notin S}
<1> SUFFICES ASSUME T # {} PROVE FALSE
  OBVIOUS
<1>1. T \subseteq Nat
  OBVIOUS
<1>2. PICK k \in T : \A j \in T : k <= j
  <2> HIDE DEF T
  <2> QED
    BY <1>1, LeastNatural
<1>3. k \in 1 .. n /\ k - 1 \in 0 .. n /\ k \notin S
  <2>1. k \in 0 .. n /\ k \notin S /\ k # 0
    BY <1>2
  <2> QED
    BY <2>1
<1>4. k - 1 \notin T
  <2>1. ~(k <= k - 1)
    BY <1>3
  <2> HIDE DEF T
  <2> QED
    BY <1>2, <2>1
<1>5. k - 1 \in S
  BY <1>3, <1>4
<1> QED
  BY <1>3, <1>5

----------------------------------------------------------------------------
\* The first n entries of a list.
LEMMA PrefixEntries ==
  ASSUME NEW S, NEW s \in Seq(S), NEW n \in 0 .. Len(s)
  PROVE  /\ SubSeq(s, 1, n) \in Seq(S)
         /\ Len(SubSeq(s, 1, n)) = n
         /\ \A j \in 1 .. n : SubSeq(s, 1, n)[j] = s[j]
<1>1. n \in Nat /\ n <= Len(s) /\ Len(s) \in Nat
  OBVIOUS
<1>2. \A i \in 1 .. n : s[i] \in S
  BY <1>1
<1>3. /\ SubSeq(s, 1, n) \in Seq(S)
      /\ Len(SubSeq(s, 1, n)) = IF 1 <= n THEN n - 1 + 1 ELSE 0
      /\ \A i \in 1 .. n - 1 + 1 : SubSeq(s, 1, n)[i] = s[1 + i - 1]
  BY <1>1, <1>2, SubSeqProperties
<1> QED
  BY <1>1, <1>3

----------------------------------------------------------------------------
\* A list without its entry m.
CutAt(s, m) == SubSeq(s, 1, m - 1) \o SubSeq(s, m + 1, Len(s))

\* RemoveEntryList: the entries behind the one removed move up.
LEMMA CutAtEntries ==
  ASSUME NEW S, NEW s \in Seq(S), NEW m \in 1 .. Len(s)
  PROVE  /\ CutAt(s, m) \in Seq(S)
         /\ Len(CutAt(s, m)) = Len(s) - 1
         /\ \A j \in 1 .. m - 1 : CutAt(s, m)[j] = s[j]
         /\ \A j \in m .. Len(s) - 1 : CutAt(s, m)[j] = s[j + 1]
<1> DEFINE a == SubSeq(s, 1, m - 1)
           b == SubSeq(s, m + 1, Len(s))
           l == Len(s)
<1>1. l \in Nat /\ m \in Nat /\ 1 <= m /\ m <= l
  OBVIOUS
<1>2. \A i \in 1 .. l : s[i] \in S
  OBVIOUS
<1>3. a \in Seq(S) /\ Len(a) = m - 1 /\ \A j \in 1 .. m - 1 : a[j] = s[j]
  <2>1. \A i \in 1 .. m - 1 : s[i] \in S
    BY <1>1, <1>2
  <2>2. /\ a \in Seq(S)
        /\ Len(a) = IF 1 <= m - 1 THEN (m - 1) - 1 + 1 ELSE 0
        /\ \A i \in 1 .. (m - 1) - 1 + 1 : a[i] = s[1 + i - 1]
    <3> HIDE DEF l
    <3> QED
      BY <1>1, <2>1, SubSeqProperties
  <2> QED
    BY <1>1, <2>2
<1>4. b \in Seq(S) /\ Len(b) = l - m /\ \A j \in 1 .. l - m : b[j] = s[m + j]
  <2>1. \A i \in m + 1 .. l : s[i] \in S
    BY <1>1, <1>2
  <2>2. /\ b \in Seq(S)
        /\ Len(b) = IF m + 1 <= l THEN l - (m + 1) + 1 ELSE 0
        /\ \A i \in 1 .. l - (m + 1) + 1 : b[i] = s[(m + 1) + i - 1]
    BY <1>1, <2>1, SubSeqProperties
  <2>3. Len(b) = l - m
    BY <1>1, <2>2
  <2>4. ASSUME NEW j \in 1 .. l - m PROVE b[j] = s[m + j]
    <3>1. j \in 1 .. l - (m + 1) + 1 /\ (m + 1) + j - 1 = m + j
      BY <1>1
    <3> QED
      BY <2>2, <3>1
  <2> QED
    BY <2>2, <2>3, <2>4
<1> HIDE DEF a, b
<1>5. /\ a \o b \in Seq(S)
      /\ Len(a \o b) = Len(a) + Len(b)
      /\ \A j \in 1 .. Len(a) + Len(b) : (a \o b)[j] = IF j <= Len(a) THEN a[j] ELSE b[j - Len(a)]
  <2> HIDE DEF l
  <2>1. a \in Seq(S) /\ b \in Seq(S)
    BY <1>3, <1>4
  <2> QED
    BY ONLY <2>1, ConcatProperties
<1>6. Len(a) + Len(b) = l - 1
  BY <1>1, <1>3, <1>4
<1>7. ASSUME NEW j \in 1 .. m - 1 PROVE (a \o b)[j] = s[j]
  <2>1. j \in 1 .. Len(a) + Len(b) /\ j <= Len(a)
    BY <1>1, <1>3, <1>6
  <2> QED
    BY <2>1, <1>3, <1>5
<1>8. ASSUME NEW j \in m .. l - 1 PROVE (a \o b)[j] = s[j + 1]
  <2>1. j \in 1 .. Len(a) + Len(b) /\ ~(j <= Len(a)) /\ j - Len(a) \in 1 .. l - m
    BY <1>1, <1>3, <1>6
  <2>2. m + (j - Len(a)) = j + 1
    BY <1>1, <1>3
  <2>3. (a \o b)[j] = b[j - Len(a)]
    BY <2>1, <1>5
  <2> QED
    BY <2>1, <2>2, <2>3, <1>4
<1>9. CutAt(s, m) = a \o b
  BY DEF CutAt, a, b
<1> QED
  BY <1>5, <1>6, <1>7, <1>8, <1>9
=============================================================================
