------------------------ MODULE SmmRendezvousProofs ------------------------
(***************************************************************************)
(* Theorems about the rendezvous in system management mode, for any number *)
(* of processors, any configurations, SMIs and procedures.                 *)
(*                                                                         *)
(* What a processor still has to do is a program that a configuration      *)
(* fixes up to the place it is at.  The proofs number the places, show     *)
(* that todo is the program at a place, and reason about places: whom a    *)
(* count counts, and where an AP can be when the BSP is at a place.        *)
(***************************************************************************)
EXTENDS SmmRendezvous, FiniteSetTheorems, SequenceTheorems, TLAPS

(***************************************************************************)
(* Programs.  The places of a processor are numbered in the order of the   *)
(* code: 0 is outside SMM, 1 to 5 are the ways in and out, 9 to 13 the     *)
(* places of a processor that has checked in and has no role yet, 20 to 39 *)
(* APHandler, 50 to 95 BSPHandler, 96 the last step of the BSP.            *)
(***************************************************************************)
Gathers(g) == g.sync \/ g.mtrrs

Places == 0 .. 5 \cup 9 .. 13 \cup 20 .. 39 \cup 50 .. 96

\* The step that is taken at a place ...
StepAt(p) ==
  CASE p = 1 -> "valid"
    [] p = 2 -> "look"
    [] p \in {3, 4} -> "checkin"
    [] p = 5 -> "spin"
    [] p = 9 -> "giveup"
    [] p = 10 -> "elect"
    [] p = 11 -> "await"
    [] p = 12 -> "who"
    [] p = 13 -> "await2"
    [] p = 20 -> "present"
    [] p \in {21, 24, 27, 29, 33, 36, 39} -> "signal"
    [] p \in {22, 25, 28, 34, 37} -> "waitBsp"
    [] p \in {23, 58} -> "backup"
    [] p \in {26, 61} -> "program"
    [] p = 30 -> "loop"
    [] p = 31 -> "check"
    [] p = 32 -> "procedure"
    [] p \in {35, 89} -> "restore"
    [] p \in {38, 92} -> "absent"
    [] p = 50 -> "inside"
    [] p = 51 -> "status"
    [] p = 52 -> "arrive"
    [] p = 53 -> "arrive2"
    [] p \in {54, 82} -> "sync"
    [] p \in {55, 83} -> "lock"
    [] p \in {56, 59, 62, 64, 87, 90, 93} -> "waitAPs"
    [] p \in {57, 60, 63, 70, 74, 80, 86, 88, 91} -> "release"
    [] p = 65 -> "own"
    [] p = 66 -> "handler"
    [] p = 67 -> "notbusy"
    [] p \in {68, 72, 78} -> "acquire"
    [] p \in {69, 73, 79} -> "assign"
    [] p \in {71, 75, 81} -> "drain"
    [] p = 76 -> "tasks"
    [] p = 77 -> "ran"
    [] p = 84 -> "gather"
    [] p = 85 -> "leave"
    [] p = 94 -> "unelect"
    [] p = 95 -> "reset"
    [] p = 96 -> "unsync"

\* ... and the place behind it.  What Call puts in front of a program, and the
\* ends of the loops, lead back.
NextAt(g, p) ==
  CASE p \in {2, 5} -> 0
    [] p = 3 -> 11
    [] p = 4 -> 10
    [] p \in {9, 11, 12, 13, 39, 96} -> 5
    [] p = 20 -> IF Gathers(g) THEN 21 ELSE 30
    [] p = 22 -> IF g.mtrrs THEN 23 ELSE 29
    [] p = 30 -> IF g.mtrrs THEN 33 ELSE IF g.debug THEN 36 ELSE 38
    [] p \in {31, 32} -> 30
    [] p = 51 -> IF Gathers(g) THEN 52 ELSE 65
    [] p = 57 -> IF g.mtrrs THEN 58 ELSE 64
    [] p = 66 -> 75
    [] p \in {67, 71, 74} -> 66
    [] p = 76 -> IF Gathers(g) THEN 85 ELSE 82
    [] p \in {77, 81} -> 76
    [] p = 86 -> IF g.mtrrs THEN 87 ELSE IF g.debug THEN 90 ELSE 92
    [] OTHER -> p + 1

\* What a processor at place p still has to do, from the end backwards.
R0     == <<>>
R2     == <<"look">> \o R0
R1     == <<"valid">> \o R2
R5     == <<"spin">> \o R0
R11    == <<"await">> \o R5
R3     == <<"checkin">> \o R11
R10    == <<"elect">> \o R11
R4     == <<"checkin">> \o R10
R9     == <<"giveup">> \o R5
R12    == <<"who">> \o R5
R13    == <<"await2">> \o R5
R39    == <<"signal">> \o R5
R38    == <<"absent">> \o R39
R37    == <<"waitBsp">> \o R38
R36    == <<"signal">> \o R37
R35    == <<"restore">> \o R36
R34    == <<"waitBsp">> \o R35
R33    == <<"signal">> \o R34
R30(g) == <<"loop">> \o (IF g.mtrrs THEN R33 ELSE IF g.debug THEN R36 ELSE R38)
R29(g) == <<"signal">> \o R30(g)
R28(g) == <<"waitBsp">> \o R29(g)
R27(g) == <<"signal">> \o R28(g)
R26(g) == <<"program">> \o R27(g)
R25(g) == <<"waitBsp">> \o R26(g)
R24(g) == <<"signal">> \o R25(g)
R23(g) == <<"backup">> \o R24(g)
R22(g) == <<"waitBsp">> \o (IF g.mtrrs THEN R23(g) ELSE R29(g))
R21(g) == <<"signal">> \o R22(g)
R20(g) == <<"present">> \o (IF Gathers(g) THEN R21(g) ELSE R30(g))
R31(g) == <<"check">> \o R30(g)
R32(g) == <<"procedure">> \o R30(g)
R96    == <<"unsync">> \o R5
R95    == <<"reset">> \o R96
R94    == <<"unelect">> \o R95
R93    == <<"waitAPs">> \o R94
R92    == <<"absent">> \o R93
R91    == <<"release">> \o R92
R90    == <<"waitAPs">> \o R91
R89    == <<"restore">> \o R90
R88    == <<"release">> \o R89
R87    == <<"waitAPs">> \o R88
R86(g) == <<"release">> \o (IF g.mtrrs THEN R87 ELSE IF g.debug THEN R90 ELSE R92)
R85(g) == <<"leave">> \o R86(g)
R84(g) == <<"gather">> \o R85(g)
R83(g) == <<"lock">> \o R84(g)
R82(g) == <<"sync">> \o R83(g)
R76(g) == <<"tasks">> \o (IF Gathers(g) THEN R85(g) ELSE R82(g))
R75(g) == <<"drain">> \o R76(g)
R66(g) == <<"handler">> \o R75(g)
R65(g) == <<"own">> \o R66(g)
R64(g) == <<"waitAPs">> \o R65(g)
R63(g) == <<"release">> \o R64(g)
R62(g) == <<"waitAPs">> \o R63(g)
R61(g) == <<"program">> \o R62(g)
R60(g) == <<"release">> \o R61(g)
R59(g) == <<"waitAPs">> \o R60(g)
R58(g) == <<"backup">> \o R59(g)
R57(g) == <<"release">> \o (IF g.mtrrs THEN R58(g) ELSE R64(g))
R56(g) == <<"waitAPs">> \o R57(g)
R55(g) == <<"lock">> \o R56(g)
R54(g) == <<"sync">> \o R55(g)
R53(g) == <<"arrive2">> \o R54(g)
R52(g) == <<"arrive">> \o R53(g)
R51(g) == <<"status">> \o (IF Gathers(g) THEN R52(g) ELSE R65(g))
R50(g) == <<"inside">> \o R51(g)
R67(g) == <<"notbusy">> \o R66(g)
R71(g) == <<"drain">> \o R66(g)
R70(g) == <<"release">> \o R71(g)
R69(g) == <<"assign">> \o R70(g)
R68(g) == <<"acquire">> \o R69(g)
R74(g) == <<"release">> \o R66(g)
R73(g) == <<"assign">> \o R74(g)
R72(g) == <<"acquire">> \o R73(g)
R77(g) == <<"ran">> \o R76(g)
R81(g) == <<"drain">> \o R76(g)
R80(g) == <<"release">> \o R81(g)
R79(g) == <<"assign">> \o R80(g)
R78(g) == <<"acquire">> \o R79(g)

Rest(g, p) ==
  CASE p = 0 -> R0 [] p = 1 -> R1 [] p = 2 -> R2 [] p = 3 -> R3
    [] p = 4 -> R4 [] p = 5 -> R5 [] p = 9 -> R9 [] p = 10 -> R10
    [] p = 11 -> R11 [] p = 12 -> R12 [] p = 13 -> R13 [] p = 20 -> R20(g)
    [] p = 21 -> R21(g) [] p = 22 -> R22(g) [] p = 23 -> R23(g) [] p = 24 -> R24(g)
    [] p = 25 -> R25(g) [] p = 26 -> R26(g) [] p = 27 -> R27(g) [] p = 28 -> R28(g)
    [] p = 29 -> R29(g) [] p = 30 -> R30(g) [] p = 31 -> R31(g) [] p = 32 -> R32(g)
    [] p = 33 -> R33 [] p = 34 -> R34 [] p = 35 -> R35 [] p = 36 -> R36
    [] p = 37 -> R37 [] p = 38 -> R38 [] p = 39 -> R39 [] p = 50 -> R50(g)
    [] p = 51 -> R51(g) [] p = 52 -> R52(g) [] p = 53 -> R53(g) [] p = 54 -> R54(g)
    [] p = 55 -> R55(g) [] p = 56 -> R56(g) [] p = 57 -> R57(g) [] p = 58 -> R58(g)
    [] p = 59 -> R59(g) [] p = 60 -> R60(g) [] p = 61 -> R61(g) [] p = 62 -> R62(g)
    [] p = 63 -> R63(g) [] p = 64 -> R64(g) [] p = 65 -> R65(g) [] p = 66 -> R66(g)
    [] p = 67 -> R67(g) [] p = 68 -> R68(g) [] p = 69 -> R69(g) [] p = 70 -> R70(g)
    [] p = 71 -> R71(g) [] p = 72 -> R72(g) [] p = 73 -> R73(g) [] p = 74 -> R74(g)
    [] p = 75 -> R75(g) [] p = 76 -> R76(g) [] p = 77 -> R77(g) [] p = 78 -> R78(g)
    [] p = 79 -> R79(g) [] p = 80 -> R80(g) [] p = 81 -> R81(g) [] p = 82 -> R82(g)
    [] p = 83 -> R83(g) [] p = 84 -> R84(g) [] p = 85 -> R85(g) [] p = 86 -> R86(g)
    [] p = 87 -> R87 [] p = 88 -> R88 [] p = 89 -> R89 [] p = 90 -> R90
    [] p = 91 -> R91 [] p = 92 -> R92 [] p = 93 -> R93 [] p = 94 -> R94
    [] p = 95 -> R95 [] p = 96 -> R96

\* A step put in front of a program.
LEMMA StepInFront ==
  ASSUME NEW S, NEW x \in S, NEW s \in Seq(S)
  PROVE  /\ <<x>> \o s \in Seq(S)
         /\ <<x>> \o s # <<>>
         /\ Head(<<x>> \o s) = x
         /\ Tail(<<x>> \o s) = s
<1>1. <<x>> \o s \in Seq(S)
  OBVIOUS
<1>2. <<x>> \o s # <<>>
  OBVIOUS
<1>3. Head(<<x>> \o s) = x
  OBVIOUS
<1>4. Tail(<<x>> \o s) = s
  OBVIOUS
<1> QED
  BY <1>1, <1>2, <1>3, <1>4

\* The place behind a place is a place.
LEMMA NextPlace ==
  ASSUME NEW g, NEW p \in Places \ {0}
  PROVE  NextAt(g, p) \in Places
BY DEF NextAt, Places

\* Every program is its first step and the program at the next place.
LEMMA RestIsSteps ==
  ASSUME NEW g, NEW p \in Places \ {0}
  PROVE  Rest(g, p) = <<StepAt(p)>> \o Rest(g, NextAt(g, p))
<1>1. CASE p = 1
  <2>1. Rest(g, 1) = R1 /\ Rest(g, 2) = R2
    BY DEF Rest
  <2>2. StepAt(1) = "valid" /\ NextAt(g, 1) = 2
    BY DEF StepAt, NextAt
  <2> QED
    BY <1>1, <2>1, <2>2 DEF R1
<1>2. CASE p = 2
  <2>1. Rest(g, 2) = R2 /\ Rest(g, 0) = R0
    BY DEF Rest
  <2>2. StepAt(2) = "look" /\ NextAt(g, 2) = 0
    BY DEF StepAt, NextAt
  <2> QED
    BY <1>2, <2>1, <2>2 DEF R2
<1>3. CASE p = 3
  <2>1. Rest(g, 3) = R3 /\ Rest(g, 11) = R11
    BY DEF Rest
  <2>2. StepAt(3) = "checkin" /\ NextAt(g, 3) = 11
    BY DEF StepAt, NextAt
  <2> QED
    BY <1>3, <2>1, <2>2 DEF R3
<1>4. CASE p = 4
  <2>1. Rest(g, 4) = R4 /\ Rest(g, 10) = R10
    BY DEF Rest
  <2>2. StepAt(4) = "checkin" /\ NextAt(g, 4) = 10
    BY DEF StepAt, NextAt
  <2> QED
    BY <1>4, <2>1, <2>2 DEF R4
<1>5. CASE p = 5
  <2>1. Rest(g, 5) = R5 /\ Rest(g, 0) = R0
    BY DEF Rest
  <2>2. StepAt(5) = "spin" /\ NextAt(g, 5) = 0
    BY DEF StepAt, NextAt
  <2> QED
    BY <1>5, <2>1, <2>2 DEF R5
<1>9. CASE p = 9
  <2>1. Rest(g, 9) = R9 /\ Rest(g, 5) = R5
    BY DEF Rest
  <2>2. StepAt(9) = "giveup" /\ NextAt(g, 9) = 5
    BY DEF StepAt, NextAt
  <2> QED
    BY <1>9, <2>1, <2>2 DEF R9
<1>10. CASE p = 10
  <2>1. Rest(g, 10) = R10 /\ Rest(g, 11) = R11
    BY DEF Rest
  <2>2. StepAt(10) = "elect" /\ NextAt(g, 10) = 11
    BY DEF StepAt, NextAt
  <2> QED
    BY <1>10, <2>1, <2>2 DEF R10
<1>11. CASE p = 11
  <2>1. Rest(g, 11) = R11 /\ Rest(g, 5) = R5
    BY DEF Rest
  <2>2. StepAt(11) = "await" /\ NextAt(g, 11) = 5
    BY DEF StepAt, NextAt
  <2> QED
    BY <1>11, <2>1, <2>2 DEF R11
<1>12. CASE p = 12
  <2>1. Rest(g, 12) = R12 /\ Rest(g, 5) = R5
    BY DEF Rest
  <2>2. StepAt(12) = "who" /\ NextAt(g, 12) = 5
    BY DEF StepAt, NextAt
  <2> QED
    BY <1>12, <2>1, <2>2 DEF R12
<1>13. CASE p = 13
  <2>1. Rest(g, 13) = R13 /\ Rest(g, 5) = R5
    BY DEF Rest
  <2>2. StepAt(13) = "await2" /\ NextAt(g, 13) = 5
    BY DEF StepAt, NextAt
  <2> QED
    BY <1>13, <2>1, <2>2 DEF R13
<1>20. CASE p = 20
  <2>1. Rest(g, 20) = R20(g) /\ Rest(g, 21) = R21(g) /\ Rest(g, 30) = R30(g)
    BY DEF Rest
  <2>2. StepAt(20) = "present" /\ NextAt(g, 20) = (IF Gathers(g) THEN 21 ELSE 30)
    BY DEF StepAt, NextAt
  <2> QED
    BY <1>20, <2>1, <2>2 DEF R20
<1>21. CASE p = 21
  <2>1. Rest(g, 21) = R21(g) /\ Rest(g, 22) = R22(g)
    BY DEF Rest
  <2>2. StepAt(21) = "signal" /\ NextAt(g, 21) = 22
    BY DEF StepAt, NextAt
  <2> QED
    BY <1>21, <2>1, <2>2 DEF R21
<1>22. CASE p = 22
  <2>1. Rest(g, 22) = R22(g) /\ Rest(g, 23) = R23(g) /\ Rest(g, 29) = R29(g)
    BY DEF Rest
  <2>2. StepAt(22) = "waitBsp" /\ NextAt(g, 22) = (IF g.mtrrs THEN 23 ELSE 29)
    BY DEF StepAt, NextAt
  <2> QED
    BY <1>22, <2>1, <2>2 DEF R22
<1>23. CASE p = 23
  <2>1. Rest(g, 23) = R23(g) /\ Rest(g, 24) = R24(g)
    BY DEF Rest
  <2>2. StepAt(23) = "backup" /\ NextAt(g, 23) = 24
    BY DEF StepAt, NextAt
  <2> QED
    BY <1>23, <2>1, <2>2 DEF R23
<1>24. CASE p = 24
  <2>1. Rest(g, 24) = R24(g) /\ Rest(g, 25) = R25(g)
    BY DEF Rest
  <2>2. StepAt(24) = "signal" /\ NextAt(g, 24) = 25
    BY DEF StepAt, NextAt
  <2> QED
    BY <1>24, <2>1, <2>2 DEF R24
<1>25. CASE p = 25
  <2>1. Rest(g, 25) = R25(g) /\ Rest(g, 26) = R26(g)
    BY DEF Rest
  <2>2. StepAt(25) = "waitBsp" /\ NextAt(g, 25) = 26
    BY DEF StepAt, NextAt
  <2> QED
    BY <1>25, <2>1, <2>2 DEF R25
<1>26. CASE p = 26
  <2>1. Rest(g, 26) = R26(g) /\ Rest(g, 27) = R27(g)
    BY DEF Rest
  <2>2. StepAt(26) = "program" /\ NextAt(g, 26) = 27
    BY DEF StepAt, NextAt
  <2> QED
    BY <1>26, <2>1, <2>2 DEF R26
<1>27. CASE p = 27
  <2>1. Rest(g, 27) = R27(g) /\ Rest(g, 28) = R28(g)
    BY DEF Rest
  <2>2. StepAt(27) = "signal" /\ NextAt(g, 27) = 28
    BY DEF StepAt, NextAt
  <2> QED
    BY <1>27, <2>1, <2>2 DEF R27
<1>28. CASE p = 28
  <2>1. Rest(g, 28) = R28(g) /\ Rest(g, 29) = R29(g)
    BY DEF Rest
  <2>2. StepAt(28) = "waitBsp" /\ NextAt(g, 28) = 29
    BY DEF StepAt, NextAt
  <2> QED
    BY <1>28, <2>1, <2>2 DEF R28
<1>29. CASE p = 29
  <2>1. Rest(g, 29) = R29(g) /\ Rest(g, 30) = R30(g)
    BY DEF Rest
  <2>2. StepAt(29) = "signal" /\ NextAt(g, 29) = 30
    BY DEF StepAt, NextAt
  <2> QED
    BY <1>29, <2>1, <2>2 DEF R29
<1>30. CASE p = 30
  <2>1. Rest(g, 30) = R30(g) /\ Rest(g, 33) = R33 /\ Rest(g, 36) = R36 /\ Rest(g, 38) = R38
    BY DEF Rest
  <2>2. StepAt(30) = "loop" /\ NextAt(g, 30) = (IF g.mtrrs THEN 33 ELSE IF g.debug THEN 36 ELSE 38)
    BY DEF StepAt, NextAt
  <2> QED
    BY <1>30, <2>1, <2>2 DEF R30
<1>31. CASE p = 31
  <2>1. Rest(g, 31) = R31(g) /\ Rest(g, 30) = R30(g)
    BY DEF Rest
  <2>2. StepAt(31) = "check" /\ NextAt(g, 31) = 30
    BY DEF StepAt, NextAt
  <2> QED
    BY <1>31, <2>1, <2>2 DEF R31
<1>32. CASE p = 32
  <2>1. Rest(g, 32) = R32(g) /\ Rest(g, 30) = R30(g)
    BY DEF Rest
  <2>2. StepAt(32) = "procedure" /\ NextAt(g, 32) = 30
    BY DEF StepAt, NextAt
  <2> QED
    BY <1>32, <2>1, <2>2 DEF R32
<1>33. CASE p = 33
  <2>1. Rest(g, 33) = R33 /\ Rest(g, 34) = R34
    BY DEF Rest
  <2>2. StepAt(33) = "signal" /\ NextAt(g, 33) = 34
    BY DEF StepAt, NextAt
  <2> QED
    BY <1>33, <2>1, <2>2 DEF R33
<1>34. CASE p = 34
  <2>1. Rest(g, 34) = R34 /\ Rest(g, 35) = R35
    BY DEF Rest
  <2>2. StepAt(34) = "waitBsp" /\ NextAt(g, 34) = 35
    BY DEF StepAt, NextAt
  <2> QED
    BY <1>34, <2>1, <2>2 DEF R34
<1>35. CASE p = 35
  <2>1. Rest(g, 35) = R35 /\ Rest(g, 36) = R36
    BY DEF Rest
  <2>2. StepAt(35) = "restore" /\ NextAt(g, 35) = 36
    BY DEF StepAt, NextAt
  <2> QED
    BY <1>35, <2>1, <2>2 DEF R35
<1>36. CASE p = 36
  <2>1. Rest(g, 36) = R36 /\ Rest(g, 37) = R37
    BY DEF Rest
  <2>2. StepAt(36) = "signal" /\ NextAt(g, 36) = 37
    BY DEF StepAt, NextAt
  <2> QED
    BY <1>36, <2>1, <2>2 DEF R36
<1>37. CASE p = 37
  <2>1. Rest(g, 37) = R37 /\ Rest(g, 38) = R38
    BY DEF Rest
  <2>2. StepAt(37) = "waitBsp" /\ NextAt(g, 37) = 38
    BY DEF StepAt, NextAt
  <2> QED
    BY <1>37, <2>1, <2>2 DEF R37
<1>38. CASE p = 38
  <2>1. Rest(g, 38) = R38 /\ Rest(g, 39) = R39
    BY DEF Rest
  <2>2. StepAt(38) = "absent" /\ NextAt(g, 38) = 39
    BY DEF StepAt, NextAt
  <2> QED
    BY <1>38, <2>1, <2>2 DEF R38
<1>39. CASE p = 39
  <2>1. Rest(g, 39) = R39 /\ Rest(g, 5) = R5
    BY DEF Rest
  <2>2. StepAt(39) = "signal" /\ NextAt(g, 39) = 5
    BY DEF StepAt, NextAt
  <2> QED
    BY <1>39, <2>1, <2>2 DEF R39
<1>50. CASE p = 50
  <2>1. Rest(g, 50) = R50(g) /\ Rest(g, 51) = R51(g)
    BY DEF Rest
  <2>2. StepAt(50) = "inside" /\ NextAt(g, 50) = 51
    BY DEF StepAt, NextAt
  <2> QED
    BY <1>50, <2>1, <2>2 DEF R50
<1>51. CASE p = 51
  <2>1. Rest(g, 51) = R51(g) /\ Rest(g, 52) = R52(g) /\ Rest(g, 65) = R65(g)
    BY DEF Rest
  <2>2. StepAt(51) = "status" /\ NextAt(g, 51) = (IF Gathers(g) THEN 52 ELSE 65)
    BY DEF StepAt, NextAt
  <2> QED
    BY <1>51, <2>1, <2>2 DEF R51
<1>52. CASE p = 52
  <2>1. Rest(g, 52) = R52(g) /\ Rest(g, 53) = R53(g)
    BY DEF Rest
  <2>2. StepAt(52) = "arrive" /\ NextAt(g, 52) = 53
    BY DEF StepAt, NextAt
  <2> QED
    BY <1>52, <2>1, <2>2 DEF R52
<1>53. CASE p = 53
  <2>1. Rest(g, 53) = R53(g) /\ Rest(g, 54) = R54(g)
    BY DEF Rest
  <2>2. StepAt(53) = "arrive2" /\ NextAt(g, 53) = 54
    BY DEF StepAt, NextAt
  <2> QED
    BY <1>53, <2>1, <2>2 DEF R53
<1>54. CASE p = 54
  <2>1. Rest(g, 54) = R54(g) /\ Rest(g, 55) = R55(g)
    BY DEF Rest
  <2>2. StepAt(54) = "sync" /\ NextAt(g, 54) = 55
    BY DEF StepAt, NextAt
  <2> QED
    BY <1>54, <2>1, <2>2 DEF R54
<1>55. CASE p = 55
  <2>1. Rest(g, 55) = R55(g) /\ Rest(g, 56) = R56(g)
    BY DEF Rest
  <2>2. StepAt(55) = "lock" /\ NextAt(g, 55) = 56
    BY DEF StepAt, NextAt
  <2> QED
    BY <1>55, <2>1, <2>2 DEF R55
<1>56. CASE p = 56
  <2>1. Rest(g, 56) = R56(g) /\ Rest(g, 57) = R57(g)
    BY DEF Rest
  <2>2. StepAt(56) = "waitAPs" /\ NextAt(g, 56) = 57
    BY DEF StepAt, NextAt
  <2> QED
    BY <1>56, <2>1, <2>2 DEF R56
<1>57. CASE p = 57
  <2>1. Rest(g, 57) = R57(g) /\ Rest(g, 58) = R58(g) /\ Rest(g, 64) = R64(g)
    BY DEF Rest
  <2>2. StepAt(57) = "release" /\ NextAt(g, 57) = (IF g.mtrrs THEN 58 ELSE 64)
    BY DEF StepAt, NextAt
  <2> QED
    BY <1>57, <2>1, <2>2 DEF R57
<1>58. CASE p = 58
  <2>1. Rest(g, 58) = R58(g) /\ Rest(g, 59) = R59(g)
    BY DEF Rest
  <2>2. StepAt(58) = "backup" /\ NextAt(g, 58) = 59
    BY DEF StepAt, NextAt
  <2> QED
    BY <1>58, <2>1, <2>2 DEF R58
<1>59. CASE p = 59
  <2>1. Rest(g, 59) = R59(g) /\ Rest(g, 60) = R60(g)
    BY DEF Rest
  <2>2. StepAt(59) = "waitAPs" /\ NextAt(g, 59) = 60
    BY DEF StepAt, NextAt
  <2> QED
    BY <1>59, <2>1, <2>2 DEF R59
<1>60. CASE p = 60
  <2>1. Rest(g, 60) = R60(g) /\ Rest(g, 61) = R61(g)
    BY DEF Rest
  <2>2. StepAt(60) = "release" /\ NextAt(g, 60) = 61
    BY DEF StepAt, NextAt
  <2> QED
    BY <1>60, <2>1, <2>2 DEF R60
<1>61. CASE p = 61
  <2>1. Rest(g, 61) = R61(g) /\ Rest(g, 62) = R62(g)
    BY DEF Rest
  <2>2. StepAt(61) = "program" /\ NextAt(g, 61) = 62
    BY DEF StepAt, NextAt
  <2> QED
    BY <1>61, <2>1, <2>2 DEF R61
<1>62. CASE p = 62
  <2>1. Rest(g, 62) = R62(g) /\ Rest(g, 63) = R63(g)
    BY DEF Rest
  <2>2. StepAt(62) = "waitAPs" /\ NextAt(g, 62) = 63
    BY DEF StepAt, NextAt
  <2> QED
    BY <1>62, <2>1, <2>2 DEF R62
<1>63. CASE p = 63
  <2>1. Rest(g, 63) = R63(g) /\ Rest(g, 64) = R64(g)
    BY DEF Rest
  <2>2. StepAt(63) = "release" /\ NextAt(g, 63) = 64
    BY DEF StepAt, NextAt
  <2> QED
    BY <1>63, <2>1, <2>2 DEF R63
<1>64. CASE p = 64
  <2>1. Rest(g, 64) = R64(g) /\ Rest(g, 65) = R65(g)
    BY DEF Rest
  <2>2. StepAt(64) = "waitAPs" /\ NextAt(g, 64) = 65
    BY DEF StepAt, NextAt
  <2> QED
    BY <1>64, <2>1, <2>2 DEF R64
<1>65. CASE p = 65
  <2>1. Rest(g, 65) = R65(g) /\ Rest(g, 66) = R66(g)
    BY DEF Rest
  <2>2. StepAt(65) = "own" /\ NextAt(g, 65) = 66
    BY DEF StepAt, NextAt
  <2> QED
    BY <1>65, <2>1, <2>2 DEF R65
<1>66. CASE p = 66
  <2>1. Rest(g, 66) = R66(g) /\ Rest(g, 75) = R75(g)
    BY DEF Rest
  <2>2. StepAt(66) = "handler" /\ NextAt(g, 66) = 75
    BY DEF StepAt, NextAt
  <2> QED
    BY <1>66, <2>1, <2>2 DEF R66
<1>67. CASE p = 67
  <2>1. Rest(g, 67) = R67(g) /\ Rest(g, 66) = R66(g)
    BY DEF Rest
  <2>2. StepAt(67) = "notbusy" /\ NextAt(g, 67) = 66
    BY DEF StepAt, NextAt
  <2> QED
    BY <1>67, <2>1, <2>2 DEF R67
<1>68. CASE p = 68
  <2>1. Rest(g, 68) = R68(g) /\ Rest(g, 69) = R69(g)
    BY DEF Rest
  <2>2. StepAt(68) = "acquire" /\ NextAt(g, 68) = 69
    BY DEF StepAt, NextAt
  <2> QED
    BY <1>68, <2>1, <2>2 DEF R68
<1>69. CASE p = 69
  <2>1. Rest(g, 69) = R69(g) /\ Rest(g, 70) = R70(g)
    BY DEF Rest
  <2>2. StepAt(69) = "assign" /\ NextAt(g, 69) = 70
    BY DEF StepAt, NextAt
  <2> QED
    BY <1>69, <2>1, <2>2 DEF R69
<1>70. CASE p = 70
  <2>1. Rest(g, 70) = R70(g) /\ Rest(g, 71) = R71(g)
    BY DEF Rest
  <2>2. StepAt(70) = "release" /\ NextAt(g, 70) = 71
    BY DEF StepAt, NextAt
  <2> QED
    BY <1>70, <2>1, <2>2 DEF R70
<1>71. CASE p = 71
  <2>1. Rest(g, 71) = R71(g) /\ Rest(g, 66) = R66(g)
    BY DEF Rest
  <2>2. StepAt(71) = "drain" /\ NextAt(g, 71) = 66
    BY DEF StepAt, NextAt
  <2> QED
    BY <1>71, <2>1, <2>2 DEF R71
<1>72. CASE p = 72
  <2>1. Rest(g, 72) = R72(g) /\ Rest(g, 73) = R73(g)
    BY DEF Rest
  <2>2. StepAt(72) = "acquire" /\ NextAt(g, 72) = 73
    BY DEF StepAt, NextAt
  <2> QED
    BY <1>72, <2>1, <2>2 DEF R72
<1>73. CASE p = 73
  <2>1. Rest(g, 73) = R73(g) /\ Rest(g, 74) = R74(g)
    BY DEF Rest
  <2>2. StepAt(73) = "assign" /\ NextAt(g, 73) = 74
    BY DEF StepAt, NextAt
  <2> QED
    BY <1>73, <2>1, <2>2 DEF R73
<1>74. CASE p = 74
  <2>1. Rest(g, 74) = R74(g) /\ Rest(g, 66) = R66(g)
    BY DEF Rest
  <2>2. StepAt(74) = "release" /\ NextAt(g, 74) = 66
    BY DEF StepAt, NextAt
  <2> QED
    BY <1>74, <2>1, <2>2 DEF R74
<1>75. CASE p = 75
  <2>1. Rest(g, 75) = R75(g) /\ Rest(g, 76) = R76(g)
    BY DEF Rest
  <2>2. StepAt(75) = "drain" /\ NextAt(g, 75) = 76
    BY DEF StepAt, NextAt
  <2> QED
    BY <1>75, <2>1, <2>2 DEF R75
<1>76. CASE p = 76
  <2>1. Rest(g, 76) = R76(g) /\ Rest(g, 85) = R85(g) /\ Rest(g, 82) = R82(g)
    BY DEF Rest
  <2>2. StepAt(76) = "tasks" /\ NextAt(g, 76) = (IF Gathers(g) THEN 85 ELSE 82)
    BY DEF StepAt, NextAt
  <2> QED
    BY <1>76, <2>1, <2>2 DEF R76
<1>77. CASE p = 77
  <2>1. Rest(g, 77) = R77(g) /\ Rest(g, 76) = R76(g)
    BY DEF Rest
  <2>2. StepAt(77) = "ran" /\ NextAt(g, 77) = 76
    BY DEF StepAt, NextAt
  <2> QED
    BY <1>77, <2>1, <2>2 DEF R77
<1>78. CASE p = 78
  <2>1. Rest(g, 78) = R78(g) /\ Rest(g, 79) = R79(g)
    BY DEF Rest
  <2>2. StepAt(78) = "acquire" /\ NextAt(g, 78) = 79
    BY DEF StepAt, NextAt
  <2> QED
    BY <1>78, <2>1, <2>2 DEF R78
<1>79. CASE p = 79
  <2>1. Rest(g, 79) = R79(g) /\ Rest(g, 80) = R80(g)
    BY DEF Rest
  <2>2. StepAt(79) = "assign" /\ NextAt(g, 79) = 80
    BY DEF StepAt, NextAt
  <2> QED
    BY <1>79, <2>1, <2>2 DEF R79
<1>80. CASE p = 80
  <2>1. Rest(g, 80) = R80(g) /\ Rest(g, 81) = R81(g)
    BY DEF Rest
  <2>2. StepAt(80) = "release" /\ NextAt(g, 80) = 81
    BY DEF StepAt, NextAt
  <2> QED
    BY <1>80, <2>1, <2>2 DEF R80
<1>81. CASE p = 81
  <2>1. Rest(g, 81) = R81(g) /\ Rest(g, 76) = R76(g)
    BY DEF Rest
  <2>2. StepAt(81) = "drain" /\ NextAt(g, 81) = 76
    BY DEF StepAt, NextAt
  <2> QED
    BY <1>81, <2>1, <2>2 DEF R81
<1>82. CASE p = 82
  <2>1. Rest(g, 82) = R82(g) /\ Rest(g, 83) = R83(g)
    BY DEF Rest
  <2>2. StepAt(82) = "sync" /\ NextAt(g, 82) = 83
    BY DEF StepAt, NextAt
  <2> QED
    BY <1>82, <2>1, <2>2 DEF R82
<1>83. CASE p = 83
  <2>1. Rest(g, 83) = R83(g) /\ Rest(g, 84) = R84(g)
    BY DEF Rest
  <2>2. StepAt(83) = "lock" /\ NextAt(g, 83) = 84
    BY DEF StepAt, NextAt
  <2> QED
    BY <1>83, <2>1, <2>2 DEF R83
<1>84. CASE p = 84
  <2>1. Rest(g, 84) = R84(g) /\ Rest(g, 85) = R85(g)
    BY DEF Rest
  <2>2. StepAt(84) = "gather" /\ NextAt(g, 84) = 85
    BY DEF StepAt, NextAt
  <2> QED
    BY <1>84, <2>1, <2>2 DEF R84
<1>85. CASE p = 85
  <2>1. Rest(g, 85) = R85(g) /\ Rest(g, 86) = R86(g)
    BY DEF Rest
  <2>2. StepAt(85) = "leave" /\ NextAt(g, 85) = 86
    BY DEF StepAt, NextAt
  <2> QED
    BY <1>85, <2>1, <2>2 DEF R85
<1>86. CASE p = 86
  <2>1. Rest(g, 86) = R86(g) /\ Rest(g, 87) = R87 /\ Rest(g, 90) = R90 /\ Rest(g, 92) = R92
    BY DEF Rest
  <2>2. StepAt(86) = "release" /\ NextAt(g, 86) = (IF g.mtrrs THEN 87 ELSE IF g.debug THEN 90 ELSE 92)
    BY DEF StepAt, NextAt
  <2> QED
    BY <1>86, <2>1, <2>2 DEF R86
<1>87. CASE p = 87
  <2>1. Rest(g, 87) = R87 /\ Rest(g, 88) = R88
    BY DEF Rest
  <2>2. StepAt(87) = "waitAPs" /\ NextAt(g, 87) = 88
    BY DEF StepAt, NextAt
  <2> QED
    BY <1>87, <2>1, <2>2 DEF R87
<1>88. CASE p = 88
  <2>1. Rest(g, 88) = R88 /\ Rest(g, 89) = R89
    BY DEF Rest
  <2>2. StepAt(88) = "release" /\ NextAt(g, 88) = 89
    BY DEF StepAt, NextAt
  <2> QED
    BY <1>88, <2>1, <2>2 DEF R88
<1>89. CASE p = 89
  <2>1. Rest(g, 89) = R89 /\ Rest(g, 90) = R90
    BY DEF Rest
  <2>2. StepAt(89) = "restore" /\ NextAt(g, 89) = 90
    BY DEF StepAt, NextAt
  <2> QED
    BY <1>89, <2>1, <2>2 DEF R89
<1>90. CASE p = 90
  <2>1. Rest(g, 90) = R90 /\ Rest(g, 91) = R91
    BY DEF Rest
  <2>2. StepAt(90) = "waitAPs" /\ NextAt(g, 90) = 91
    BY DEF StepAt, NextAt
  <2> QED
    BY <1>90, <2>1, <2>2 DEF R90
<1>91. CASE p = 91
  <2>1. Rest(g, 91) = R91 /\ Rest(g, 92) = R92
    BY DEF Rest
  <2>2. StepAt(91) = "release" /\ NextAt(g, 91) = 92
    BY DEF StepAt, NextAt
  <2> QED
    BY <1>91, <2>1, <2>2 DEF R91
<1>92. CASE p = 92
  <2>1. Rest(g, 92) = R92 /\ Rest(g, 93) = R93
    BY DEF Rest
  <2>2. StepAt(92) = "absent" /\ NextAt(g, 92) = 93
    BY DEF StepAt, NextAt
  <2> QED
    BY <1>92, <2>1, <2>2 DEF R92
<1>93. CASE p = 93
  <2>1. Rest(g, 93) = R93 /\ Rest(g, 94) = R94
    BY DEF Rest
  <2>2. StepAt(93) = "waitAPs" /\ NextAt(g, 93) = 94
    BY DEF StepAt, NextAt
  <2> QED
    BY <1>93, <2>1, <2>2 DEF R93
<1>94. CASE p = 94
  <2>1. Rest(g, 94) = R94 /\ Rest(g, 95) = R95
    BY DEF Rest
  <2>2. StepAt(94) = "unelect" /\ NextAt(g, 94) = 95
    BY DEF StepAt, NextAt
  <2> QED
    BY <1>94, <2>1, <2>2 DEF R94
<1>95. CASE p = 95
  <2>1. Rest(g, 95) = R95 /\ Rest(g, 96) = R96
    BY DEF Rest
  <2>2. StepAt(95) = "reset" /\ NextAt(g, 95) = 96
    BY DEF StepAt, NextAt
  <2> QED
    BY <1>95, <2>1, <2>2 DEF R95
<1>96. CASE p = 96
  <2>1. Rest(g, 96) = R96 /\ Rest(g, 5) = R5
    BY DEF Rest
  <2>2. StepAt(96) = "unsync" /\ NextAt(g, 96) = 5
    BY DEF StepAt, NextAt
  <2> QED
    BY <1>96, <2>1, <2>2 DEF R96
<1>100. CASE p \in 1 .. 5
  BY <1>100, <1>1, <1>2, <1>3, <1>4, <1>5
<1>101. CASE p \in 9 .. 13
  BY <1>101, <1>9, <1>10, <1>11, <1>12, <1>13
<1>102. CASE p \in 20 .. 29
  BY <1>102, <1>20, <1>21, <1>22, <1>23, <1>24, <1>25, <1>26, <1>27, <1>28, <1>29
<1>103. CASE p \in 30 .. 39
  BY <1>103, <1>30, <1>31, <1>32, <1>33, <1>34, <1>35, <1>36, <1>37, <1>38, <1>39
<1>104. CASE p \in 50 .. 59
  BY <1>104, <1>50, <1>51, <1>52, <1>53, <1>54, <1>55, <1>56, <1>57, <1>58, <1>59
<1>105. CASE p \in 60 .. 69
  BY <1>105, <1>60, <1>61, <1>62, <1>63, <1>64, <1>65, <1>66, <1>67, <1>68, <1>69
<1>106. CASE p \in 70 .. 85
  BY <1>106, <1>70, <1>71, <1>72, <1>73, <1>74, <1>75, <1>76, <1>77, <1>78, <1>79, <1>80, <1>81, <1>82, <1>83, <1>84, <1>85
<1>107. CASE p \in 86 .. 96
  BY <1>107, <1>86, <1>87, <1>88, <1>89, <1>90, <1>91, <1>92, <1>93, <1>94, <1>95, <1>96
<1> QED
  BY <1>100, <1>101, <1>102, <1>103, <1>104, <1>105, <1>106, <1>107 DEF Places

\* No place is the rest of a program that never ends: each is a sequence.
LEMMA RestIsSeq ==
  ASSUME NEW g, NEW p \in Places
  PROVE  Rest(g, p) \in Seq(StepNames)
<1>0. R0 \in Seq(StepNames)
  BY DEF R0
<1>2. R2 \in Seq(StepNames)
  BY <1>0, StepInFront DEF R2, StepNames
<1>1. R1 \in Seq(StepNames)
  BY <1>2, StepInFront DEF R1, StepNames
<1>5. R5 \in Seq(StepNames)
  BY <1>0, StepInFront DEF R5, StepNames
<1>11. R11 \in Seq(StepNames)
  BY <1>5, StepInFront DEF R11, StepNames
<1>3. R3 \in Seq(StepNames)
  BY <1>11, StepInFront DEF R3, StepNames
<1>10. R10 \in Seq(StepNames)
  BY <1>11, StepInFront DEF R10, StepNames
<1>4. R4 \in Seq(StepNames)
  BY <1>10, StepInFront DEF R4, StepNames
<1>9. R9 \in Seq(StepNames)
  BY <1>5, StepInFront DEF R9, StepNames
<1>12. R12 \in Seq(StepNames)
  BY <1>5, StepInFront DEF R12, StepNames
<1>13. R13 \in Seq(StepNames)
  BY <1>5, StepInFront DEF R13, StepNames
<1>39. R39 \in Seq(StepNames)
  BY <1>5, StepInFront DEF R39, StepNames
<1>38. R38 \in Seq(StepNames)
  BY <1>39, StepInFront DEF R38, StepNames
<1>37. R37 \in Seq(StepNames)
  BY <1>38, StepInFront DEF R37, StepNames
<1>36. R36 \in Seq(StepNames)
  BY <1>37, StepInFront DEF R36, StepNames
<1>35. R35 \in Seq(StepNames)
  BY <1>36, StepInFront DEF R35, StepNames
<1>34. R34 \in Seq(StepNames)
  BY <1>35, StepInFront DEF R34, StepNames
<1>33. R33 \in Seq(StepNames)
  BY <1>34, StepInFront DEF R33, StepNames
<1>30. R30(g) \in Seq(StepNames)
  BY <1>33, <1>36, <1>38, StepInFront DEF R30, StepNames
<1>29. R29(g) \in Seq(StepNames)
  BY <1>30, StepInFront DEF R29, StepNames
<1>28. R28(g) \in Seq(StepNames)
  BY <1>29, StepInFront DEF R28, StepNames
<1>27. R27(g) \in Seq(StepNames)
  BY <1>28, StepInFront DEF R27, StepNames
<1>26. R26(g) \in Seq(StepNames)
  BY <1>27, StepInFront DEF R26, StepNames
<1>25. R25(g) \in Seq(StepNames)
  BY <1>26, StepInFront DEF R25, StepNames
<1>24. R24(g) \in Seq(StepNames)
  BY <1>25, StepInFront DEF R24, StepNames
<1>23. R23(g) \in Seq(StepNames)
  BY <1>24, StepInFront DEF R23, StepNames
<1>22. R22(g) \in Seq(StepNames)
  BY <1>23, <1>29, StepInFront DEF R22, StepNames
<1>21. R21(g) \in Seq(StepNames)
  BY <1>22, StepInFront DEF R21, StepNames
<1>20. R20(g) \in Seq(StepNames)
  BY <1>21, <1>30, StepInFront DEF R20, StepNames
<1>31. R31(g) \in Seq(StepNames)
  BY <1>30, StepInFront DEF R31, StepNames
<1>32. R32(g) \in Seq(StepNames)
  BY <1>30, StepInFront DEF R32, StepNames
<1>96. R96 \in Seq(StepNames)
  BY <1>5, StepInFront DEF R96, StepNames
<1>95. R95 \in Seq(StepNames)
  BY <1>96, StepInFront DEF R95, StepNames
<1>94. R94 \in Seq(StepNames)
  BY <1>95, StepInFront DEF R94, StepNames
<1>93. R93 \in Seq(StepNames)
  BY <1>94, StepInFront DEF R93, StepNames
<1>92. R92 \in Seq(StepNames)
  BY <1>93, StepInFront DEF R92, StepNames
<1>91. R91 \in Seq(StepNames)
  BY <1>92, StepInFront DEF R91, StepNames
<1>90. R90 \in Seq(StepNames)
  BY <1>91, StepInFront DEF R90, StepNames
<1>89. R89 \in Seq(StepNames)
  BY <1>90, StepInFront DEF R89, StepNames
<1>88. R88 \in Seq(StepNames)
  BY <1>89, StepInFront DEF R88, StepNames
<1>87. R87 \in Seq(StepNames)
  BY <1>88, StepInFront DEF R87, StepNames
<1>86. R86(g) \in Seq(StepNames)
  BY <1>87, <1>90, <1>92, StepInFront DEF R86, StepNames
<1>85. R85(g) \in Seq(StepNames)
  BY <1>86, StepInFront DEF R85, StepNames
<1>84. R84(g) \in Seq(StepNames)
  BY <1>85, StepInFront DEF R84, StepNames
<1>83. R83(g) \in Seq(StepNames)
  BY <1>84, StepInFront DEF R83, StepNames
<1>82. R82(g) \in Seq(StepNames)
  BY <1>83, StepInFront DEF R82, StepNames
<1>76. R76(g) \in Seq(StepNames)
  BY <1>82, <1>85, StepInFront DEF R76, StepNames
<1>75. R75(g) \in Seq(StepNames)
  BY <1>76, StepInFront DEF R75, StepNames
<1>66. R66(g) \in Seq(StepNames)
  BY <1>75, StepInFront DEF R66, StepNames
<1>65. R65(g) \in Seq(StepNames)
  BY <1>66, StepInFront DEF R65, StepNames
<1>64. R64(g) \in Seq(StepNames)
  BY <1>65, StepInFront DEF R64, StepNames
<1>63. R63(g) \in Seq(StepNames)
  BY <1>64, StepInFront DEF R63, StepNames
<1>62. R62(g) \in Seq(StepNames)
  BY <1>63, StepInFront DEF R62, StepNames
<1>61. R61(g) \in Seq(StepNames)
  BY <1>62, StepInFront DEF R61, StepNames
<1>60. R60(g) \in Seq(StepNames)
  BY <1>61, StepInFront DEF R60, StepNames
<1>59. R59(g) \in Seq(StepNames)
  BY <1>60, StepInFront DEF R59, StepNames
<1>58. R58(g) \in Seq(StepNames)
  BY <1>59, StepInFront DEF R58, StepNames
<1>57. R57(g) \in Seq(StepNames)
  BY <1>58, <1>64, StepInFront DEF R57, StepNames
<1>56. R56(g) \in Seq(StepNames)
  BY <1>57, StepInFront DEF R56, StepNames
<1>55. R55(g) \in Seq(StepNames)
  BY <1>56, StepInFront DEF R55, StepNames
<1>54. R54(g) \in Seq(StepNames)
  BY <1>55, StepInFront DEF R54, StepNames
<1>53. R53(g) \in Seq(StepNames)
  BY <1>54, StepInFront DEF R53, StepNames
<1>52. R52(g) \in Seq(StepNames)
  BY <1>53, StepInFront DEF R52, StepNames
<1>51. R51(g) \in Seq(StepNames)
  BY <1>52, <1>65, StepInFront DEF R51, StepNames
<1>50. R50(g) \in Seq(StepNames)
  BY <1>51, StepInFront DEF R50, StepNames
<1>67. R67(g) \in Seq(StepNames)
  BY <1>66, StepInFront DEF R67, StepNames
<1>71. R71(g) \in Seq(StepNames)
  BY <1>66, StepInFront DEF R71, StepNames
<1>70. R70(g) \in Seq(StepNames)
  BY <1>71, StepInFront DEF R70, StepNames
<1>69. R69(g) \in Seq(StepNames)
  BY <1>70, StepInFront DEF R69, StepNames
<1>68. R68(g) \in Seq(StepNames)
  BY <1>69, StepInFront DEF R68, StepNames
<1>74. R74(g) \in Seq(StepNames)
  BY <1>66, StepInFront DEF R74, StepNames
<1>73. R73(g) \in Seq(StepNames)
  BY <1>74, StepInFront DEF R73, StepNames
<1>72. R72(g) \in Seq(StepNames)
  BY <1>73, StepInFront DEF R72, StepNames
<1>77. R77(g) \in Seq(StepNames)
  BY <1>76, StepInFront DEF R77, StepNames
<1>81. R81(g) \in Seq(StepNames)
  BY <1>76, StepInFront DEF R81, StepNames
<1>80. R80(g) \in Seq(StepNames)
  BY <1>81, StepInFront DEF R80, StepNames
<1>79. R79(g) \in Seq(StepNames)
  BY <1>80, StepInFront DEF R79, StepNames
<1>78. R78(g) \in Seq(StepNames)
  BY <1>79, StepInFront DEF R78, StepNames
<1>200. CASE p = 0
  BY <1>200, <1>0 DEF Rest
<1>201. CASE p = 1
  BY <1>201, <1>1 DEF Rest
<1>202. CASE p = 2
  BY <1>202, <1>2 DEF Rest
<1>203. CASE p = 3
  BY <1>203, <1>3 DEF Rest
<1>204. CASE p = 4
  BY <1>204, <1>4 DEF Rest
<1>205. CASE p = 5
  BY <1>205, <1>5 DEF Rest
<1>209. CASE p = 9
  BY <1>209, <1>9 DEF Rest
<1>210. CASE p = 10
  BY <1>210, <1>10 DEF Rest
<1>211. CASE p = 11
  BY <1>211, <1>11 DEF Rest
<1>212. CASE p = 12
  BY <1>212, <1>12 DEF Rest
<1>213. CASE p = 13
  BY <1>213, <1>13 DEF Rest
<1>220. CASE p = 20
  BY <1>220, <1>20 DEF Rest
<1>221. CASE p = 21
  BY <1>221, <1>21 DEF Rest
<1>222. CASE p = 22
  BY <1>222, <1>22 DEF Rest
<1>223. CASE p = 23
  BY <1>223, <1>23 DEF Rest
<1>224. CASE p = 24
  BY <1>224, <1>24 DEF Rest
<1>225. CASE p = 25
  BY <1>225, <1>25 DEF Rest
<1>226. CASE p = 26
  BY <1>226, <1>26 DEF Rest
<1>227. CASE p = 27
  BY <1>227, <1>27 DEF Rest
<1>228. CASE p = 28
  BY <1>228, <1>28 DEF Rest
<1>229. CASE p = 29
  BY <1>229, <1>29 DEF Rest
<1>230. CASE p = 30
  BY <1>230, <1>30 DEF Rest
<1>231. CASE p = 31
  BY <1>231, <1>31 DEF Rest
<1>232. CASE p = 32
  BY <1>232, <1>32 DEF Rest
<1>233. CASE p = 33
  BY <1>233, <1>33 DEF Rest
<1>234. CASE p = 34
  BY <1>234, <1>34 DEF Rest
<1>235. CASE p = 35
  BY <1>235, <1>35 DEF Rest
<1>236. CASE p = 36
  BY <1>236, <1>36 DEF Rest
<1>237. CASE p = 37
  BY <1>237, <1>37 DEF Rest
<1>238. CASE p = 38
  BY <1>238, <1>38 DEF Rest
<1>239. CASE p = 39
  BY <1>239, <1>39 DEF Rest
<1>250. CASE p = 50
  BY <1>250, <1>50 DEF Rest
<1>251. CASE p = 51
  BY <1>251, <1>51 DEF Rest
<1>252. CASE p = 52
  BY <1>252, <1>52 DEF Rest
<1>253. CASE p = 53
  BY <1>253, <1>53 DEF Rest
<1>254. CASE p = 54
  BY <1>254, <1>54 DEF Rest
<1>255. CASE p = 55
  BY <1>255, <1>55 DEF Rest
<1>256. CASE p = 56
  BY <1>256, <1>56 DEF Rest
<1>257. CASE p = 57
  BY <1>257, <1>57 DEF Rest
<1>258. CASE p = 58
  BY <1>258, <1>58 DEF Rest
<1>259. CASE p = 59
  BY <1>259, <1>59 DEF Rest
<1>260. CASE p = 60
  BY <1>260, <1>60 DEF Rest
<1>261. CASE p = 61
  BY <1>261, <1>61 DEF Rest
<1>262. CASE p = 62
  BY <1>262, <1>62 DEF Rest
<1>263. CASE p = 63
  BY <1>263, <1>63 DEF Rest
<1>264. CASE p = 64
  BY <1>264, <1>64 DEF Rest
<1>265. CASE p = 65
  BY <1>265, <1>65 DEF Rest
<1>266. CASE p = 66
  BY <1>266, <1>66 DEF Rest
<1>267. CASE p = 67
  BY <1>267, <1>67 DEF Rest
<1>268. CASE p = 68
  BY <1>268, <1>68 DEF Rest
<1>269. CASE p = 69
  BY <1>269, <1>69 DEF Rest
<1>270. CASE p = 70
  BY <1>270, <1>70 DEF Rest
<1>271. CASE p = 71
  BY <1>271, <1>71 DEF Rest
<1>272. CASE p = 72
  BY <1>272, <1>72 DEF Rest
<1>273. CASE p = 73
  BY <1>273, <1>73 DEF Rest
<1>274. CASE p = 74
  BY <1>274, <1>74 DEF Rest
<1>275. CASE p = 75
  BY <1>275, <1>75 DEF Rest
<1>276. CASE p = 76
  BY <1>276, <1>76 DEF Rest
<1>277. CASE p = 77
  BY <1>277, <1>77 DEF Rest
<1>278. CASE p = 78
  BY <1>278, <1>78 DEF Rest
<1>279. CASE p = 79
  BY <1>279, <1>79 DEF Rest
<1>280. CASE p = 80
  BY <1>280, <1>80 DEF Rest
<1>281. CASE p = 81
  BY <1>281, <1>81 DEF Rest
<1>282. CASE p = 82
  BY <1>282, <1>82 DEF Rest
<1>283. CASE p = 83
  BY <1>283, <1>83 DEF Rest
<1>284. CASE p = 84
  BY <1>284, <1>84 DEF Rest
<1>285. CASE p = 85
  BY <1>285, <1>85 DEF Rest
<1>286. CASE p = 86
  BY <1>286, <1>86 DEF Rest
<1>287. CASE p = 87
  BY <1>287, <1>87 DEF Rest
<1>288. CASE p = 88
  BY <1>288, <1>88 DEF Rest
<1>289. CASE p = 89
  BY <1>289, <1>89 DEF Rest
<1>290. CASE p = 90
  BY <1>290, <1>90 DEF Rest
<1>291. CASE p = 91
  BY <1>291, <1>91 DEF Rest
<1>292. CASE p = 92
  BY <1>292, <1>92 DEF Rest
<1>293. CASE p = 93
  BY <1>293, <1>93 DEF Rest
<1>294. CASE p = 94
  BY <1>294, <1>94 DEF Rest
<1>295. CASE p = 95
  BY <1>295, <1>95 DEF Rest
<1>296. CASE p = 96
  BY <1>296, <1>96 DEF Rest
<1>400. CASE p \in 0 .. 5
  BY <1>400, <1>200, <1>201, <1>202, <1>203, <1>204, <1>205
<1>401. CASE p \in 9 .. 13
  BY <1>401, <1>209, <1>210, <1>211, <1>212, <1>213
<1>402. CASE p \in 20 .. 29
  BY <1>402, <1>220, <1>221, <1>222, <1>223, <1>224, <1>225, <1>226, <1>227, <1>228, <1>229
<1>403. CASE p \in 30 .. 39
  BY <1>403, <1>230, <1>231, <1>232, <1>233, <1>234, <1>235, <1>236, <1>237, <1>238, <1>239
<1>404. CASE p \in 50 .. 59
  BY <1>404, <1>250, <1>251, <1>252, <1>253, <1>254, <1>255, <1>256, <1>257, <1>258, <1>259
<1>405. CASE p \in 60 .. 69
  BY <1>405, <1>260, <1>261, <1>262, <1>263, <1>264, <1>265, <1>266, <1>267, <1>268, <1>269
<1>406. CASE p \in 70 .. 85
  BY <1>406, <1>270, <1>271, <1>272, <1>273, <1>274, <1>275, <1>276, <1>277, <1>278, <1>279, <1>280, <1>281, <1>282, <1>283, <1>284, <1>285
<1>407. CASE p \in 86 .. 96
  BY <1>407, <1>286, <1>287, <1>288, <1>289, <1>290, <1>291, <1>292, <1>293, <1>294, <1>295, <1>296
<1> QED
  BY <1>400, <1>401, <1>402, <1>403, <1>404, <1>405, <1>406, <1>407 DEF Places

\* The steps at the places of the entry to SMM, of APHandler and of BSPHandler.
LEMMA StepsOfEntry ==
  /\ StepAt(1) = "valid" /\ StepAt(2) = "look" /\ StepAt(3) = "checkin"
  /\ StepAt(4) = "checkin" /\ StepAt(5) = "spin" /\ StepAt(9) = "giveup"
  /\ StepAt(10) = "elect" /\ StepAt(11) = "await" /\ StepAt(12) = "who"
  /\ StepAt(13) = "await2"
BY DEF StepAt

\* The same, for the places from 20.
LEMMA StepsOfAp ==
  /\ StepAt(20) = "present" /\ StepAt(21) = "signal" /\ StepAt(22) = "waitBsp"
  /\ StepAt(23) = "backup" /\ StepAt(24) = "signal" /\ StepAt(25) = "waitBsp"
  /\ StepAt(26) = "program" /\ StepAt(27) = "signal" /\ StepAt(28) = "waitBsp"
  /\ StepAt(29) = "signal" /\ StepAt(30) = "loop" /\ StepAt(31) = "check"
  /\ StepAt(32) = "procedure" /\ StepAt(33) = "signal" /\ StepAt(34) = "waitBsp"
  /\ StepAt(35) = "restore" /\ StepAt(36) = "signal" /\ StepAt(37) = "waitBsp"
  /\ StepAt(38) = "absent" /\ StepAt(39) = "signal"
BY DEF StepAt

\* The same, for the places from 50.
LEMMA StepsOfBsp ==
  /\ StepAt(50) = "inside" /\ StepAt(51) = "status" /\ StepAt(52) = "arrive"
  /\ StepAt(53) = "arrive2" /\ StepAt(54) = "sync" /\ StepAt(55) = "lock"
  /\ StepAt(56) = "waitAPs" /\ StepAt(57) = "release" /\ StepAt(58) = "backup"
  /\ StepAt(59) = "waitAPs" /\ StepAt(60) = "release" /\ StepAt(61) = "program"
  /\ StepAt(62) = "waitAPs" /\ StepAt(63) = "release" /\ StepAt(64) = "waitAPs"
  /\ StepAt(65) = "own" /\ StepAt(66) = "handler" /\ StepAt(67) = "notbusy"
  /\ StepAt(68) = "acquire" /\ StepAt(69) = "assign" /\ StepAt(70) = "release"
  /\ StepAt(71) = "drain" /\ StepAt(72) = "acquire" /\ StepAt(73) = "assign"
  /\ StepAt(74) = "release" /\ StepAt(75) = "drain" /\ StepAt(76) = "tasks"
  /\ StepAt(77) = "ran" /\ StepAt(78) = "acquire" /\ StepAt(79) = "assign"
  /\ StepAt(80) = "release" /\ StepAt(81) = "drain" /\ StepAt(82) = "sync"
  /\ StepAt(83) = "lock" /\ StepAt(84) = "gather" /\ StepAt(85) = "leave"
  /\ StepAt(86) = "release" /\ StepAt(87) = "waitAPs" /\ StepAt(88) = "release"
  /\ StepAt(89) = "restore" /\ StepAt(90) = "waitAPs" /\ StepAt(91) = "release"
  /\ StepAt(92) = "absent" /\ StepAt(93) = "waitAPs" /\ StepAt(94) = "unelect"
  /\ StepAt(95) = "reset" /\ StepAt(96) = "unsync"
BY DEF StepAt

\* The places at which a step is taken.
PlacesOf(s) ==
  CASE s = "valid" -> {1}
    [] s = "look" -> {2}
    [] s = "checkin" -> {3, 4}
    [] s = "spin" -> {5}
    [] s = "giveup" -> {9}
    [] s = "elect" -> {10}
    [] s = "await" -> {11}
    [] s = "who" -> {12}
    [] s = "await2" -> {13}
    [] s = "present" -> {20}
    [] s = "signal" -> {21, 24, 27, 29, 33, 36, 39}
    [] s = "waitBsp" -> {22, 25, 28, 34, 37}
    [] s = "backup" -> {23, 58}
    [] s = "program" -> {26, 61}
    [] s = "loop" -> {30}
    [] s = "check" -> {31}
    [] s = "procedure" -> {32}
    [] s = "restore" -> {35, 89}
    [] s = "absent" -> {38, 92}
    [] s = "inside" -> {50}
    [] s = "status" -> {51}
    [] s = "arrive" -> {52}
    [] s = "arrive2" -> {53}
    [] s = "sync" -> {54, 82}
    [] s = "lock" -> {55, 83}
    [] s = "waitAPs" -> {56, 59, 62, 64, 87, 90, 93}
    [] s = "release" -> {57, 60, 63, 70, 74, 80, 86, 88, 91}
    [] s = "own" -> {65}
    [] s = "handler" -> {66}
    [] s = "notbusy" -> {67}
    [] s = "acquire" -> {68, 72, 78}
    [] s = "assign" -> {69, 73, 79}
    [] s = "drain" -> {71, 75, 81}
    [] s = "tasks" -> {76}
    [] s = "ran" -> {77}
    [] s = "gather" -> {84}
    [] s = "leave" -> {85}
    [] s = "unelect" -> {94}
    [] s = "reset" -> {95}
    [] s = "unsync" -> {96}

\* The step that a processor takes tells at which places it can be.
LEMMA StepPlaces ==
  ASSUME NEW p \in Places \ {0}
  PROVE  p \in PlacesOf(StepAt(p))
<1>1. CASE p \in 1 .. 13
  <2>0. p = 1 \/ p = 2 \/ p = 3 \/ p = 4 \/ p = 5
        \/ p = 9 \/ p = 10 \/ p = 11 \/ p = 12 \/ p = 13
    BY <1>1 DEF Places
  <2>1. 1 \in PlacesOf(StepAt(1))
    BY StepsOfEntry DEF PlacesOf
  <2>2. 2 \in PlacesOf(StepAt(2))
    BY StepsOfEntry DEF PlacesOf
  <2>3. 3 \in PlacesOf(StepAt(3))
    BY StepsOfEntry DEF PlacesOf
  <2>4. 4 \in PlacesOf(StepAt(4))
    BY StepsOfEntry DEF PlacesOf
  <2>5. 5 \in PlacesOf(StepAt(5))
    BY StepsOfEntry DEF PlacesOf
  <2>9. 9 \in PlacesOf(StepAt(9))
    BY StepsOfEntry DEF PlacesOf
  <2>10. 10 \in PlacesOf(StepAt(10))
    BY StepsOfEntry DEF PlacesOf
  <2>11. 11 \in PlacesOf(StepAt(11))
    BY StepsOfEntry DEF PlacesOf
  <2>12. 12 \in PlacesOf(StepAt(12))
    BY StepsOfEntry DEF PlacesOf
  <2>13. 13 \in PlacesOf(StepAt(13))
    BY StepsOfEntry DEF PlacesOf
  <2> QED
    BY <2>0, <2>1, <2>2, <2>3, <2>4, <2>5, <2>9, <2>10, <2>11, <2>12, <2>13
<1>2. CASE p \in 20 .. 39
  <2>0. p = 20 \/ p = 21 \/ p = 22 \/ p = 23 \/ p = 24 \/ p = 25 \/ p = 26 \/ p = 27 \/ p = 28 \/ p = 29
        \/ p = 30 \/ p = 31 \/ p = 32 \/ p = 33 \/ p = 34 \/ p = 35 \/ p = 36 \/ p = 37 \/ p = 38 \/ p = 39
    BY <1>2 DEF Places
  <2>20. 20 \in PlacesOf(StepAt(20))
    BY StepsOfAp DEF PlacesOf
  <2>21. 21 \in PlacesOf(StepAt(21))
    BY StepsOfAp DEF PlacesOf
  <2>22. 22 \in PlacesOf(StepAt(22))
    BY StepsOfAp DEF PlacesOf
  <2>23. 23 \in PlacesOf(StepAt(23))
    BY StepsOfAp DEF PlacesOf
  <2>24. 24 \in PlacesOf(StepAt(24))
    BY StepsOfAp DEF PlacesOf
  <2>25. 25 \in PlacesOf(StepAt(25))
    BY StepsOfAp DEF PlacesOf
  <2>26. 26 \in PlacesOf(StepAt(26))
    BY StepsOfAp DEF PlacesOf
  <2>27. 27 \in PlacesOf(StepAt(27))
    BY StepsOfAp DEF PlacesOf
  <2>28. 28 \in PlacesOf(StepAt(28))
    BY StepsOfAp DEF PlacesOf
  <2>29. 29 \in PlacesOf(StepAt(29))
    BY StepsOfAp DEF PlacesOf
  <2>30. 30 \in PlacesOf(StepAt(30))
    BY StepsOfAp DEF PlacesOf
  <2>31. 31 \in PlacesOf(StepAt(31))
    BY StepsOfAp DEF PlacesOf
  <2>32. 32 \in PlacesOf(StepAt(32))
    BY StepsOfAp DEF PlacesOf
  <2>33. 33 \in PlacesOf(StepAt(33))
    BY StepsOfAp DEF PlacesOf
  <2>34. 34 \in PlacesOf(StepAt(34))
    BY StepsOfAp DEF PlacesOf
  <2>35. 35 \in PlacesOf(StepAt(35))
    BY StepsOfAp DEF PlacesOf
  <2>36. 36 \in PlacesOf(StepAt(36))
    BY StepsOfAp DEF PlacesOf
  <2>37. 37 \in PlacesOf(StepAt(37))
    BY StepsOfAp DEF PlacesOf
  <2>38. 38 \in PlacesOf(StepAt(38))
    BY StepsOfAp DEF PlacesOf
  <2>39. 39 \in PlacesOf(StepAt(39))
    BY StepsOfAp DEF PlacesOf
  <2> QED
    BY <2>0, <2>20, <2>21, <2>22, <2>23, <2>24, <2>25, <2>26, <2>27, <2>28, <2>29, <2>30, <2>31, <2>32, <2>33, <2>34, <2>35, <2>36, <2>37, <2>38, <2>39
<1>3. CASE p \in 50 .. 69
  <2>0. p = 50 \/ p = 51 \/ p = 52 \/ p = 53 \/ p = 54 \/ p = 55 \/ p = 56 \/ p = 57 \/ p = 58 \/ p = 59
        \/ p = 60 \/ p = 61 \/ p = 62 \/ p = 63 \/ p = 64 \/ p = 65 \/ p = 66 \/ p = 67 \/ p = 68 \/ p = 69
    BY <1>3 DEF Places
  <2>50. 50 \in PlacesOf(StepAt(50))
    BY StepsOfBsp DEF PlacesOf
  <2>51. 51 \in PlacesOf(StepAt(51))
    BY StepsOfBsp DEF PlacesOf
  <2>52. 52 \in PlacesOf(StepAt(52))
    BY StepsOfBsp DEF PlacesOf
  <2>53. 53 \in PlacesOf(StepAt(53))
    BY StepsOfBsp DEF PlacesOf
  <2>54. 54 \in PlacesOf(StepAt(54))
    BY StepsOfBsp DEF PlacesOf
  <2>55. 55 \in PlacesOf(StepAt(55))
    BY StepsOfBsp DEF PlacesOf
  <2>56. 56 \in PlacesOf(StepAt(56))
    BY StepsOfBsp DEF PlacesOf
  <2>57. 57 \in PlacesOf(StepAt(57))
    BY StepsOfBsp DEF PlacesOf
  <2>58. 58 \in PlacesOf(StepAt(58))
    BY StepsOfBsp DEF PlacesOf
  <2>59. 59 \in PlacesOf(StepAt(59))
    BY StepsOfBsp DEF PlacesOf
  <2>60. 60 \in PlacesOf(StepAt(60))
    BY StepsOfBsp DEF PlacesOf
  <2>61. 61 \in PlacesOf(StepAt(61))
    BY StepsOfBsp DEF PlacesOf
  <2>62. 62 \in PlacesOf(StepAt(62))
    BY StepsOfBsp DEF PlacesOf
  <2>63. 63 \in PlacesOf(StepAt(63))
    BY StepsOfBsp DEF PlacesOf
  <2>64. 64 \in PlacesOf(StepAt(64))
    BY StepsOfBsp DEF PlacesOf
  <2>65. 65 \in PlacesOf(StepAt(65))
    BY StepsOfBsp DEF PlacesOf
  <2>66. 66 \in PlacesOf(StepAt(66))
    BY StepsOfBsp DEF PlacesOf
  <2>67. 67 \in PlacesOf(StepAt(67))
    BY StepsOfBsp DEF PlacesOf
  <2>68. 68 \in PlacesOf(StepAt(68))
    BY StepsOfBsp DEF PlacesOf
  <2>69. 69 \in PlacesOf(StepAt(69))
    BY StepsOfBsp DEF PlacesOf
  <2> QED
    BY <2>0, <2>50, <2>51, <2>52, <2>53, <2>54, <2>55, <2>56, <2>57, <2>58, <2>59, <2>60, <2>61, <2>62, <2>63, <2>64, <2>65, <2>66, <2>67, <2>68, <2>69
<1>4. CASE p \in 70 .. 96
  <2>0. p = 70 \/ p = 71 \/ p = 72 \/ p = 73 \/ p = 74 \/ p = 75 \/ p = 76 \/ p = 77 \/ p = 78 \/ p = 79 \/ p = 80 \/ p = 81 \/ p = 82
        \/ p = 83 \/ p = 84 \/ p = 85 \/ p = 86 \/ p = 87 \/ p = 88 \/ p = 89 \/ p = 90 \/ p = 91 \/ p = 92 \/ p = 93 \/ p = 94 \/ p = 95 \/ p = 96
    BY <1>4 DEF Places
  <2>70. 70 \in PlacesOf(StepAt(70))
    BY StepsOfBsp DEF PlacesOf
  <2>71. 71 \in PlacesOf(StepAt(71))
    BY StepsOfBsp DEF PlacesOf
  <2>72. 72 \in PlacesOf(StepAt(72))
    BY StepsOfBsp DEF PlacesOf
  <2>73. 73 \in PlacesOf(StepAt(73))
    BY StepsOfBsp DEF PlacesOf
  <2>74. 74 \in PlacesOf(StepAt(74))
    BY StepsOfBsp DEF PlacesOf
  <2>75. 75 \in PlacesOf(StepAt(75))
    BY StepsOfBsp DEF PlacesOf
  <2>76. 76 \in PlacesOf(StepAt(76))
    BY StepsOfBsp DEF PlacesOf
  <2>77. 77 \in PlacesOf(StepAt(77))
    BY StepsOfBsp DEF PlacesOf
  <2>78. 78 \in PlacesOf(StepAt(78))
    BY StepsOfBsp DEF PlacesOf
  <2>79. 79 \in PlacesOf(StepAt(79))
    BY StepsOfBsp DEF PlacesOf
  <2>80. 80 \in PlacesOf(StepAt(80))
    BY StepsOfBsp DEF PlacesOf
  <2>81. 81 \in PlacesOf(StepAt(81))
    BY StepsOfBsp DEF PlacesOf
  <2>82. 82 \in PlacesOf(StepAt(82))
    BY StepsOfBsp DEF PlacesOf
  <2>83. 83 \in PlacesOf(StepAt(83))
    BY StepsOfBsp DEF PlacesOf
  <2>84. 84 \in PlacesOf(StepAt(84))
    BY StepsOfBsp DEF PlacesOf
  <2>85. 85 \in PlacesOf(StepAt(85))
    BY StepsOfBsp DEF PlacesOf
  <2>86. 86 \in PlacesOf(StepAt(86))
    BY StepsOfBsp DEF PlacesOf
  <2>87. 87 \in PlacesOf(StepAt(87))
    BY StepsOfBsp DEF PlacesOf
  <2>88. 88 \in PlacesOf(StepAt(88))
    BY StepsOfBsp DEF PlacesOf
  <2>89. 89 \in PlacesOf(StepAt(89))
    BY StepsOfBsp DEF PlacesOf
  <2>90. 90 \in PlacesOf(StepAt(90))
    BY StepsOfBsp DEF PlacesOf
  <2>91. 91 \in PlacesOf(StepAt(91))
    BY StepsOfBsp DEF PlacesOf
  <2>92. 92 \in PlacesOf(StepAt(92))
    BY StepsOfBsp DEF PlacesOf
  <2>93. 93 \in PlacesOf(StepAt(93))
    BY StepsOfBsp DEF PlacesOf
  <2>94. 94 \in PlacesOf(StepAt(94))
    BY StepsOfBsp DEF PlacesOf
  <2>95. 95 \in PlacesOf(StepAt(95))
    BY StepsOfBsp DEF PlacesOf
  <2>96. 96 \in PlacesOf(StepAt(96))
    BY StepsOfBsp DEF PlacesOf
  <2> QED
    BY <2>0, <2>70, <2>71, <2>72, <2>73, <2>74, <2>75, <2>76, <2>77, <2>78, <2>79, <2>80, <2>81, <2>82, <2>83, <2>84, <2>85, <2>86, <2>87, <2>88, <2>89, <2>90, <2>91, <2>92, <2>93, <2>94, <2>95, <2>96
<1> QED
  BY <1>1, <1>2, <1>3, <1>4 DEF Places
(***************************************************************************)
(* Counting processors by their places.                                    *)
(***************************************************************************)
Count(w, S) == Cardinality({c \in Cpu : w[c] \in S})

\* A count is at most the number of processors.
LEMMA CountType ==
  ASSUME NEW w, NEW S
  PROVE  /\ Count(w, S) \in Nat /\ Count(w, S) \in 0 .. N
         /\ IsFiniteSet({c \in Cpu : w[c] \in S})
<1>1. IsFiniteSet(Cpu) /\ Cardinality(Cpu) = N
  BY FS_Interval, SmmAssumption DEF Cpu
<1>2. {c \in Cpu : w[c] \in S} \subseteq Cpu
  OBVIOUS
<1>3. /\ IsFiniteSet({c \in Cpu : w[c] \in S})
      /\ Cardinality({c \in Cpu : w[c] \in S}) <= N
  BY <1>1, <1>2, FS_Subset
<1>4. N \in Nat
  BY SmmAssumption
<1> QED
  BY <1>3, <1>4, FS_CardinalityType DEF Count

\* v is w after processor c has gone to place q.
Moved(w, v, c, q) == v = [w EXCEPT ![c] = q]

\* A count changes only when the processor that moves enters or leaves the set.
LEMMA CountMove ==
  ASSUME NEW w \in [Cpu -> Places], NEW c \in Cpu, NEW q \in Places, NEW S,
         NEW v, Moved(w, v, c, q)
  PROVE  Count(v, S) =   Count(w, S) + (IF q \in S THEN 1 ELSE 0)
                       - (IF w[c] \in S THEN 1 ELSE 0)
<1> DEFINE A == {d \in Cpu : w[d] \in S}
           B == {d \in Cpu : v[d] \in S}
<1>0. v = [w EXCEPT ![c] = q]
  BY DEF Moved
<1>1. IsFiniteSet(A) /\ IsFiniteSet(B)
  BY CountType
<1>2. Count(w, S) = Cardinality(A) /\ Count(v, S) = Cardinality(B)
  BY DEF Count
<1>3. Count(w, S) \in Nat /\ Count(v, S) \in Nat
  BY CountType
<1>4. c \in A <=> w[c] \in S
  OBVIOUS
<1>5. B = IF q \in S THEN A \cup {c} ELSE A \ {c}
  BY <1>0
<1> HIDE DEF A, B
<1>6. CASE q \in S
  <2>1. Cardinality(A \cup {c})
          = IF c \in A THEN Cardinality(A) ELSE Cardinality(A) + 1
    BY <1>1, FS_AddElement
  <2> QED
    BY <1>2, <1>3, <1>4, <1>5, <1>6, <2>1
<1>7. CASE q \notin S
  <2>1. Cardinality(A \ {c})
          = IF c \in A THEN Cardinality(A) - 1 ELSE Cardinality(A)
    BY <1>1, FS_RemoveElement
  <2> QED
    BY <1>2, <1>3, <1>4, <1>5, <1>7, <2>1
<1> QED
  BY <1>6, <1>7

\* Counts over disjoint sets of places add up.
LEMMA CountJoin ==
  ASSUME NEW w, NEW S, NEW T, S \cap T = {}
  PROVE  Count(w, S \cup T) = Count(w, S) + Count(w, T)
<1> DEFINE A == {d \in Cpu : w[d] \in S}
           B == {d \in Cpu : w[d] \in T}
<1>1. Count(w, S \cup T) = Cardinality(A \cup B)
  <2>1. {d \in Cpu : w[d] \in S \cup T} = A \cup B
    OBVIOUS
  <2> QED
    BY <2>1 DEF Count
<1>2. A \cap B = {}
  OBVIOUS
<1>3. Count(w, S) = Cardinality(A) /\ Count(w, T) = Cardinality(B)
  BY DEF Count
<1>4. Cardinality(A) \in Nat /\ Cardinality(B) \in Nat
  BY <1>3, CountType
<1>5. IsFiniteSet(A) /\ IsFiniteSet(B)
  BY CountType
<1> HIDE DEF A, B
<1>6. Cardinality(A \cap B) = 0
  BY <1>2, FS_EmptySet
<1>7. Cardinality(A \cup B) = Cardinality(A) + Cardinality(B) - Cardinality(A \cap B)
  BY <1>5, FS_Union
<1> QED
  BY <1>1, <1>3, <1>4, <1>6, <1>7

\* A count is zero when nobody is there.
LEMMA CountZero ==
  ASSUME NEW w, NEW S
  PROVE  Count(w, S) = 0 <=> \A c \in Cpu : w[c] \notin S
<1> DEFINE A == {d \in Cpu : w[d] \in S}
<1>1. IsFiniteSet(A)
  BY CountType
<1>2. Count(w, S) = Cardinality(A)
  BY DEF Count
<1>3. A = {} <=> \A c \in Cpu : w[c] \notin S
  OBVIOUS
<1> HIDE DEF A
<1>4. Cardinality(A) = 0 <=> A = {}
  BY <1>1, FS_EmptySet
<1> QED
  BY <1>2, <1>3, <1>4

\* If as many are in a part as in the whole, all of the whole are in the part.
LEMMA CountAll ==
  ASSUME NEW w, NEW S, NEW T, S \subseteq T
  PROVE  /\ Count(w, S) <= Count(w, T)
         /\ Count(w, S) = Count(w, T) => \A c \in Cpu : w[c] \in T => w[c] \in S
<1>1. S \cup (T \ S) = T /\ S \cap (T \ S) = {}
  OBVIOUS
<1>2. Count(w, S \cup (T \ S)) = Count(w, S) + Count(w, T \ S)
  BY <1>1, CountJoin
<1>3. Count(w, T) = Count(w, S) + Count(w, T \ S)
  BY <1>1, <1>2
<1>4. Count(w, S) \in Nat /\ Count(w, T \ S) \in Nat
  BY CountType
<1>5. Count(w, T \ S) = 0 => \A c \in Cpu : w[c] \notin T \ S
  BY CountZero
<1>6. Count(w, S) <= Count(w, T)
  BY <1>3, <1>4
<1>7. Count(w, S) = Count(w, T) => Count(w, T \ S) = 0
  BY <1>3, <1>4
<1> QED
  BY <1>5, <1>6, <1>7

\* A set with one processor in it counts one.
LEMMA CountOne ==
  ASSUME NEW w, NEW S, NEW b \in Cpu, w[b] \in S,
         \A c \in Cpu : w[c] \in S => c = b
  PROVE  Count(w, S) = 1
<1>1. {c \in Cpu : w[c] \in S} = {b}
  OBVIOUS
<1> QED
  BY <1>1, FS_Singleton DEF Count

(***************************************************************************)
(* The inductive invariant.  g is the configuration and w[c] the place of  *)
(* processor c; both are fixed in a state by config and todo.              *)
(***************************************************************************)
\* The places that the configuration leaves out.
OnPath(g, p) ==
  /\ p \in 21 .. 29 \cup 52 .. 57 \cup {64} => Gathers(g)
  /\ p \in 23 .. 28 \cup 33 .. 35 \cup 58 .. 63 \cup 87 .. 89 => g.mtrrs
  /\ p \in 36 .. 37 \cup 90 .. 91 => g.mtrrs \/ g.debug
  /\ p \in 82 .. 84 => ~Gathers(g)

Where(g, w) ==
  /\ config = g
  /\ todo = [c \in Cpu |-> Rest(g, w[c])]
  /\ \A c \in Cpu : OnPath(g, w[c])

Typed ==
  /\ run \in [Cpu -> Nat]
  /\ insideSmm \in BOOLEAN /\ allCpusInSync \in BOOLEAN
  /\ bspIndex \in Cpu \cup {NoBsp}
  /\ present \in [Cpu -> BOOLEAN] /\ busy \in [Cpu -> BOOLEAN]
  /\ requested \in [Cpu -> BOOLEAN]
  /\ mtrr \in [Cpu -> {"os", "smm"}]
  /\ smiStatus \in BOOLEAN /\ smiPending \in [Cpu -> BOOLEAN]
  /\ smis \in 0 .. MaxSmis
  /\ validSmi \in [Cpu -> BOOLEAN] /\ bsp \in [Cpu -> Cpu \cup {NoBsp}]
  /\ apCount \in 0 .. N - 1 /\ calls \in 0 .. MaxCalls
  /\ waitFor \in Cpu \cup {NoBsp}

BspPlaces == 50 .. 95
ApPlaces  == 10 .. 39
CheckedIn == 9 .. 39 \cup 50 .. 95

\* The BSP at place p has locked the door, and has seen every AP it counted.
IsLocked(g, p) == p \in (IF Gathers(g) THEN 56 ELSE 84) .. 95
IsGathered(g, p) == p \in (IF Gathers(g) THEN 57 ELSE 85) .. 95

\* One BSP, and BspIndex and InsideSmm tell which and whether.
Leader(g, w) ==
  /\ \A b, c \in Cpu : w[b] \in BspPlaces /\ w[c] \in BspPlaces => b = c
  /\ ~g.election => /\ bspIndex = BootBsp
                    /\ \A b \in Cpu : w[b] \in BspPlaces => b = BootBsp
  /\ g.election => /\ \A b \in Cpu : w[b] \in 50 .. 94 => bspIndex = b
                   /\ bspIndex # NoBsp => w[bspIndex] \in 50 .. 94
  /\ \A b \in Cpu : w[b] \in 51 .. 85 => insideSmm
  /\ insideSmm => \E b \in Cpu : w[b] \in 51 .. 85

\* Whom the BSP b has left behind.
Quiesced(g, w) ==
  \A b, c \in Cpu :
    /\ w[b] \in 52 .. 95 => w[c] # 9 /\ w[c] # 96
    /\ IsGathered(g, w[b]) => w[c] \notin 10 .. 13
    /\ w[b] \in 94 .. 95 => w[c] \notin ApPlaces

\* Where an AP is that has signalled for the wait a BSP at p comes to next.
SignalledFrom(g, p) ==
  IF Gathers(g) /\ p <= 56 THEN 22
  ELSE IF g.mtrrs /\ p <= 59 THEN 25
  ELSE IF g.mtrrs /\ p <= 62 THEN 28
  ELSE IF Gathers(g) /\ p <= 64 THEN 30
  ELSE IF g.mtrrs /\ p <= 87 THEN 34
  ELSE IF (g.mtrrs \/ g.debug) /\ p <= 90 THEN 37
  ELSE 40

Signalled(g, p) == SignalledFrom(g, p) .. 39

\* CpuCount and the BSP's semaphore count processors by their places.
Counts(g, w) ==
  /\ (\A b \in Cpu : ~IsLocked(g, w[b])) => cpuCount = Count(w, CheckedIn)
  /\ \A b \in Cpu :
       /\ IsLocked(g, w[b]) => cpuCount = Locked
       /\ IsLocked(g, w[b]) /\ w[b] < 92 => apCount = Count(w, ApPlaces)
       /\ w[b] \in 50 .. 91 => run[b] = Count(w, Signalled(g, w[b]))
       /\ w[b] \in 92 .. 93 => run[b] + Count(w, ApPlaces) = apCount

(***************************************************************************)
(* What an AP in APHandler may be at when the BSP is at p: i is the AP's   *)
(* place, r its semaphore, u and q its Busy and its requested procedure.   *)
(***************************************************************************)
Idle(i, r, u, q) == i = 30 /\ r = 0 /\ ~u /\ ~q
Working(i, r, u, q) ==
  /\ (i = 30 /\ r = 1) \/ (i \in {31, 32} /\ r = 0)
  /\ u /\ q
Finishing(i, r, u, q) == i = 32 /\ r = 0 /\ u /\ ~q

\* In the loops of a broadcast, and where no procedure is being run.
Assigning == {69, 73, 79}
Releasing == {70, 74, 80}
Drained   == {76, 78} \cup 82 .. 86

Looping(i, r, u, q, p) ==
  /\ p \in Assigning => i = 30 /\ r = 0 /\ u /\ ~q
  /\ p \in Releasing => i = 30 /\ r = 0 /\ u /\ q
  /\ p \in Drained => Idle(i, r, u, q) \/ Finishing(i, r, u, q)
  /\ p \notin Assigning \cup Releasing \cup Drained =>
       Idle(i, r, u, q) \/ Working(i, r, u, q) \/ Finishing(i, r, u, q)
Released(i, r, j) == i = j /\ r = 1
LeavesLoop(i, r, u) ==
  Released(i, r, 30) \/ (Released(i, r, 32) /\ u) \/ (i = 31 /\ r = 0)
Between(i, r, lo, hi) == i \in lo .. hi /\ r = 0

Match(g, i, r, u, q, p) ==
  /\ p \in 51 .. 93
  /\ Gathers(g) =>
       /\ p \in 51 .. 57 => Between(i, r, 20, 22)
       /\ p = 57 => i = 22
       /\ p \in 58 .. 60 => Released(i, r, 22) \/ Between(i, r, 23, 25)
       /\ p = 60 => i = 25
       /\ p \in 61 .. 63 => Released(i, r, 25) \/ Between(i, r, 26, 28)
       /\ p = 63 => i = 28
       /\ p = 64 => \/ Released(i, r, IF g.mtrrs THEN 28 ELSE 22)
                    \/ Between(i, r, 29, 29)
                    \/ Idle(i, r, u, q)
       /\ p \in 65 .. 86 => Looping(i, r, u, q, p)
  /\ ~Gathers(g) =>
       /\ p \in 51 .. 84 => Between(i, r, 20, 20) \/ Looping(i, r, u, q, p)
       /\ p \in 85 .. 86 => Looping(i, r, u, q, p)
  /\ p \in 87 .. 88 => LeavesLoop(i, r, u) \/ Between(i, r, 33, 34)
  /\ p = 88 => i = 34
  /\ p \in 89 .. 91 =>
       IF g.mtrrs THEN Released(i, r, 34) \/ Between(i, r, 35, 37)
                  ELSE LeavesLoop(i, r, u) \/ Between(i, r, 36, 37)
  /\ p = 91 => i = 37
  /\ p \in 92 .. 93 =>
       \/ IF g.mtrrs \/ g.debug THEN Released(i, r, 37) ELSE LeavesLoop(i, r, u)
       \/ Between(i, r, 38, 39)
  /\ p >= 87 => ~q

Members(g, w) ==
  \A c \in Cpu : w[c] \in 20 .. 39 =>
    /\ bsp[c] \in Cpu
    /\ Match(g, w[c], run[c], busy[c], requested[c], w[bsp[c]])

\* What a processor's own variables are at its place i.
Own(g, i, r, a, u, q, m) ==
  /\ a <=> i \in 21 .. 38 \cup 52 .. 92
  /\ i \notin 30 .. 32 => ~q
  /\ i \in 10 .. 29 => ~u
  /\ i \notin 20 .. 39 \cup 50 .. 93 => r = 0
  /\ g.mtrrs => (m = "smm" <=> i \in 27 .. 35 \cup 62 .. 89)

Flags(g, w) ==
  \A c \in Cpu :
    Own(g, w[c], run[c], present[c], busy[c], requested[c], mtrr[c])

\* The BSP of the traditional flow has called everybody in.
Reached(g, w) ==
  Gathers(g) => \A b \in Cpu :
    /\ w[b] \in 55 .. 95 => allCpusInSync
    /\ w[b] \in 53 .. 85 =>
         \A c \in Cpu : /\ w[c] = 0 => smiPending[c]
                        /\ w[c] = 5 => smiPending[c] \/ allCpusInSync

Inv(g, w) ==
  /\ g \in Configs /\ w \in [Cpu -> Places]
  /\ Where(g, w) /\ Typed /\ Leader(g, w) /\ Quiesced(g, w) /\ Counts(g, w)
  /\ Members(g, w) /\ Flags(g, w) /\ Reached(g, w)

(***************************************************************************)
(* A step and the places it starts from and leads to.                      *)
(***************************************************************************)
LEMMA StepAtType ==
  ASSUME NEW p \in Places \ {0}
  PROVE  StepAt(p) \in StepNames
<1>1. CASE p \in 1 .. 39
  BY <1>1 DEF Places, StepAt, StepNames
<1>2. CASE p \in 50 .. 96
  BY <1>2 DEF Places, StepAt, StepNames
<1> QED
  BY <1>1, <1>2 DEF Places

\* Outside SMM nothing is left to do.
LEMMA Outside ==
  ASSUME NEW g
  PROVE  Rest(g, 0) = <<>>
BY DEF Rest, R0

\* The step at a place is the first of its program.
LEMMA FirstAndRest ==
  ASSUME NEW g, NEW p \in Places \ {0}
  PROVE  /\ Rest(g, p) # <<>>
         /\ Head(Rest(g, p)) = StepAt(p)
         /\ Tail(Rest(g, p)) = Rest(g, NextAt(g, p))
<1>1. NextAt(g, p) \in Places
  BY NextPlace
<1>2. Rest(g, NextAt(g, p)) \in Seq(StepNames)
  BY <1>1, RestIsSeq
<1>3. StepAt(p) \in StepNames
  BY StepAtType
<1>4. Rest(g, p) = <<StepAt(p)>> \o Rest(g, NextAt(g, p))
  BY RestIsSteps
<1> QED
  BY <1>2, <1>3, <1>4, StepInFront

\* The place of a processor that takes a step.
LEMMA AtPlace ==
  ASSUME NEW g, NEW w \in [Cpu -> Places], Where(g, w), NEW c \in Cpu, NEW s,
         At(c, s)
  PROVE  w[c] \in Places \ {0} /\ StepAt(w[c]) = s
<1>1. todo[c] = Rest(g, w[c]) /\ w[c] \in Places
  BY DEF Where
<1>2. todo[c] # <<>> /\ Head(todo[c]) = s
  BY DEF At
<1>3. w[c] # 0
  BY <1>1, <1>2, Outside
<1> QED
  BY <1>1, <1>2, <1>3, FirstAndRest

\* A processor is outside SMM exactly when it has nothing to do.
LEMMA OutsideSmm ==
  ASSUME NEW g, NEW w \in [Cpu -> Places], Where(g, w), NEW c \in Cpu
  PROVE  todo[c] = <<>> <=> w[c] = 0
<1>1. todo[c] = Rest(g, w[c]) /\ w[c] \in Places
  BY DEF Where
<1>2. CASE w[c] = 0
  BY <1>1, <1>2, Outside
<1>3. CASE w[c] # 0
  BY <1>1, <1>3, FirstAndRest
<1> QED
  BY <1>2, <1>3

\* A jump moves a processor to the place of the program it jumps to.
LEMMA WhereGoto ==
  ASSUME NEW g, NEW w \in [Cpu -> Places], Where(g, w), NEW c \in Cpu,
         NEW q \in Places, OnPath(g, q), NEW v, Moved(w, v, c, q),
         config' = config, todo' = [todo EXCEPT ![c] = Rest(g, q)]
  PROVE  v \in [Cpu -> Places] /\ Where(g, v)'
BY DEF Where, Moved

\* A step moves a processor to the next place.
LEMMA WhereContinue ==
  ASSUME NEW g, NEW w \in [Cpu -> Places], Where(g, w), NEW c \in Cpu,
         w[c] # 0, OnPath(g, NextAt(g, w[c])),
         NEW v, Moved(w, v, c, NextAt(g, w[c])),
         config' = config, Continue(c)
  PROVE  v \in [Cpu -> Places] /\ Where(g, v)'
<1>1. w[c] \in Places \ {0}
  OBVIOUS
<1>2. Tail(todo[c]) = Rest(g, NextAt(g, w[c])) /\ NextAt(g, w[c]) \in Places
  BY <1>1, FirstAndRest, NextPlace DEF Where
<1>3. todo' = [todo EXCEPT ![c] = Rest(g, NextAt(g, w[c]))]
  BY <1>2 DEF Continue
<1> QED
  BY <1>2, <1>3, WhereGoto

(***************************************************************************)
(* Programs that are not the rest of one: the entry, BSPHandler, APHandler *)
(* and what the handlers call.                                             *)
(***************************************************************************)
LEMMA TwoSteps ==
  ASSUME NEW S, NEW a \in S, NEW b \in S
  PROVE  <<a, b>> = <<a>> \o <<b>>
<1>1. <<a>> \in Seq(S) /\ <<b>> \in Seq(S) /\ <<a, b>> \in Seq(S)
  OBVIOUS
<1>2. Len(<<a>> \o <<b>>) = 2 /\ Len(<<a, b>>) = 2
  OBVIOUS
<1>3. (<<a>> \o <<b>>)[1] = a /\ (<<a>> \o <<b>>)[2] = b
  OBVIOUS
<1>4. <<a>> \o <<b>> \in Seq(S)
  BY <1>1
<1>5. \A i \in 1 .. 2 : (<<a>> \o <<b>>)[i] = <<a, b>>[i]
  BY <1>3
<1> QED
  BY <1>1, <1>2, <1>4, <1>5, SeqEqual

\* Sequences of steps taken apart.
LEMMA ThreeSteps ==
  ASSUME NEW a, NEW b, NEW c
  PROVE  <<a, b, c>> = <<a>> \o <<b, c>>
OBVIOUS

\* Four steps are one and three.
LEMMA FourSteps ==
  ASSUME NEW a, NEW b, NEW c, NEW d
  PROVE  <<a, b, c, d>> = <<a>> \o <<b, c, d>>
OBVIOUS

\* Six steps are three and three.
LEMMA SixSteps ==
  ASSUME NEW a, NEW b, NEW c, NEW d, NEW e, NEW f
  PROVE  <<a, b, c, d, e, f>> = <<a, b, c>> \o <<d, e, f>>
OBVIOUS

\* The jumps of SmiRendezvous and of the waits of APHandler lead to places.
LEMMA EntryPrograms ==
  ASSUME NEW g
  PROVE  /\ <<>> = Rest(g, 0)
         /\ <<"valid", "look">> = Rest(g, 1)
         /\ <<"checkin", "await", "spin">> = Rest(g, 3)
         /\ <<"checkin", "elect", "await", "spin">> = Rest(g, 4)
         /\ <<"spin">> = Rest(g, 5)
         /\ <<"giveup", "spin">> = Rest(g, 9)
         /\ <<"who", "spin">> = Rest(g, 12)
         /\ <<"await2", "spin">> = Rest(g, 13)
<1>0. \A a, b \in StepNames : <<a, b>> = <<a>> \o <<b>>
  BY TwoSteps
<1>1. /\ Rest(g, 0) = R0 /\ Rest(g, 1) = R1 /\ Rest(g, 3) = R3
      /\ Rest(g, 4) = R4 /\ Rest(g, 5) = R5 /\ Rest(g, 9) = R9
      /\ Rest(g, 12) = R12 /\ Rest(g, 13) = R13
  BY DEF Rest
<1>2. <<"spin">> = R5 /\ <<"look">> = R2 /\ <<>> = R0
  BY DEF R5, R2, R0
<1>3. <<"valid", "look">> = R1
  BY <1>0, <1>2 DEF R1, StepNames
<1>4. <<"await", "spin">> = R11
  BY <1>0, <1>2 DEF R11, StepNames
<1>5. <<"elect", "await", "spin">> = R10
  BY <1>4, ThreeSteps DEF R10
<1>6. <<"checkin", "await", "spin">> = R3
  BY <1>4, ThreeSteps DEF R3
<1>7. <<"checkin", "elect", "await", "spin">> = R4
  BY <1>5, FourSteps DEF R4
<1>8. <<"giveup", "spin">> = R9
  BY <1>0, <1>2 DEF R9, StepNames
<1>9. <<"who", "spin">> = R12
  BY <1>0, <1>2 DEF R12, StepNames
<1>10. <<"await2", "spin">> = R13
  BY <1>0, <1>2 DEF R13, StepNames
<1> QED
  BY <1>1, <1>2, <1>3, <1>6, <1>7, <1>8, <1>9, <1>10

\* What the start of a procedure puts in front of the handlers.
LEMMA BroadcastProgram ==
  ASSUME NEW g
  PROVE  /\ <<"acquire", "assign", "release", "drain">> \o Rest(g, 66) = Rest(g, 68)
         /\ <<"acquire", "assign", "release">> \o Rest(g, 66) = Rest(g, 72)
         /\ <<"notbusy">> \o Rest(g, 66) = Rest(g, 67)
<1>0. Rest(g, 66) = R66(g) /\ R66(g) \in Seq(StepNames)
  <2>1. Rest(g, 66) = R66(g)
    BY DEF Rest
  <2>2. Rest(g, 66) \in Seq(StepNames)
    BY RestIsSeq DEF Places
  <2> QED
    BY <2>1, <2>2
<1>1. <<"notbusy">> \o Rest(g, 66) = Rest(g, 67)
  BY <1>0 DEF Rest, R67
<1>2. <<"acquire", "assign", "release">> \o Rest(g, 66) = Rest(g, 72)
  <2>1. <<"acquire", "assign", "release">> \o R66(g)
          = <<"acquire">> \o (<<"assign">> \o (<<"release">> \o R66(g)))
    BY <1>0
  <2> QED
    BY <1>0, <2>1 DEF Rest, R72, R73, R74
<1>3. <<"acquire", "assign", "release", "drain">> \o Rest(g, 66) = Rest(g, 68)
  <2>1. <<"acquire", "assign", "release", "drain">>
          = <<"acquire">> \o <<"assign", "release", "drain">>
    BY FourSteps
  <2>2. (<<"acquire">> \o <<"assign", "release", "drain">>) \o R66(g)
          = <<"acquire">> \o (<<"assign", "release", "drain">> \o R66(g))
    <3>1. <<"acquire">> \in Seq(StepNames) /\ <<"assign", "release", "drain">> \in Seq(StepNames)
      BY DEF StepNames
    <3> QED
      BY <1>0, <3>1, ConcatAssociative
  <2>3. <<"assign", "release", "drain">> \o R66(g)
          = <<"assign">> \o (<<"release">> \o (<<"drain">> \o R66(g)))
    BY <1>0
  <2> QED
    BY <1>0, <2>1, <2>2, <2>3 DEF Rest, R68, R69, R70, R71
<1> QED
  BY <1>1, <1>2, <1>3

\* ... and in front of the remaining tasks.
LEMMA TasksProgram ==
  ASSUME NEW g
  PROVE  /\ <<"acquire", "assign", "release", "drain">> \o Rest(g, 76) = Rest(g, 78)
         /\ <<"ran">> \o Rest(g, 76) = Rest(g, 77)
<1>0. Rest(g, 76) = R76(g) /\ R76(g) \in Seq(StepNames)
  <2>1. Rest(g, 76) = R76(g)
    BY DEF Rest
  <2>2. Rest(g, 76) \in Seq(StepNames)
    BY RestIsSeq DEF Places
  <2> QED
    BY <2>1, <2>2
<1>1. <<"ran">> \o Rest(g, 76) = Rest(g, 77)
  BY <1>0 DEF Rest, R77
<1>3. <<"acquire", "assign", "release", "drain">> \o Rest(g, 76) = Rest(g, 78)
  <2>1. <<"acquire", "assign", "release", "drain">>
          = <<"acquire">> \o <<"assign", "release", "drain">>
    BY FourSteps
  <2>2. (<<"acquire">> \o <<"assign", "release", "drain">>) \o R76(g)
          = <<"acquire">> \o (<<"assign", "release", "drain">> \o R76(g))
    <3>1. <<"acquire">> \in Seq(StepNames) /\ <<"assign", "release", "drain">> \in Seq(StepNames)
      BY DEF StepNames
    <3> QED
      BY <1>0, <3>1, ConcatAssociative
  <2>3. <<"assign", "release", "drain">> \o R76(g)
          = <<"assign">> \o (<<"release">> \o (<<"drain">> \o R76(g)))
    BY <1>0
  <2> QED
    BY <1>0, <2>1, <2>2, <2>3 DEF Rest, R78, R79, R80, R81
<1> QED
  BY <1>1, <1>3

\* Parts of programs step by step.
LEMMA StepByStep1 ==
  ASSUME NEW r \in Seq(StepNames)
  PROVE  <<"waitAPs", "release">> \o r
           = <<"waitAPs">> \o (<<"release">> \o r)
OBVIOUS

\* From waitAPs to restore.
LEMMA StepByStep2 ==
  ASSUME NEW r \in Seq(StepNames)
  PROVE  <<"waitAPs", "release", "restore">> \o r
           = <<"waitAPs">> \o (<<"release">> \o (<<"restore">> \o r))
OBVIOUS

\* From leave to release.
LEMMA StepByStep3 ==
  ASSUME NEW r \in Seq(StepNames)
  PROVE  <<"leave", "release">> \o r
           = <<"leave">> \o (<<"release">> \o r)
OBVIOUS

\* From sync to gather.
LEMMA StepByStep4 ==
  ASSUME NEW r \in Seq(StepNames)
  PROVE  <<"sync", "lock", "gather">> \o r
           = <<"sync">> \o (<<"lock">> \o (<<"gather">> \o r))
OBVIOUS

\* From own to tasks.
LEMMA StepByStep5 ==
  ASSUME NEW r \in Seq(StepNames)
  PROVE  <<"own", "handler", "drain", "tasks">> \o r
           = <<"own">> \o (<<"handler">> \o (<<"drain">> \o (<<"tasks">> \o r)))
OBVIOUS

\* From backup to release.
LEMMA StepByStep6 ==
  ASSUME NEW r \in Seq(StepNames)
  PROVE  <<"backup", "waitAPs", "release", "program", "waitAPs", "release">> \o r
           = <<"backup">> \o (<<"waitAPs">> \o (<<"release">> \o (<<"program">> \o (<<"waitAPs">> \o (<<"release">> \o r)))))
OBVIOUS

\* From arrive to release.
LEMMA StepByStep7 ==
  ASSUME NEW r \in Seq(StepNames)
  PROVE  <<"arrive", "arrive2", "sync", "lock", "waitAPs", "release">> \o r
           = <<"arrive">> \o (<<"arrive2">> \o (<<"sync">> \o (<<"lock">> \o (<<"waitAPs">> \o (<<"release">> \o r)))))
OBVIOUS

\* From inside to status.
LEMMA StepByStep8 ==
  ASSUME NEW r \in Seq(StepNames)
  PROVE  <<"inside", "status">> \o r
           = <<"inside">> \o (<<"status">> \o r)
OBVIOUS

\* From signal to waitBsp.
LEMMA StepByStep9 ==
  ASSUME NEW r \in Seq(StepNames)
  PROVE  <<"signal", "waitBsp">> \o r
           = <<"signal">> \o (<<"waitBsp">> \o r)
OBVIOUS

\* From signal to restore.
LEMMA StepByStep10 ==
  ASSUME NEW r \in Seq(StepNames)
  PROVE  <<"signal", "waitBsp", "restore">> \o r
           = <<"signal">> \o (<<"waitBsp">> \o (<<"restore">> \o r))
OBVIOUS

\* From backup to waitBsp.
LEMMA StepByStep11 ==
  ASSUME NEW r \in Seq(StepNames)
  PROVE  <<"backup", "signal", "waitBsp", "program", "signal", "waitBsp">> \o r
           = <<"backup">> \o (<<"signal">> \o (<<"waitBsp">> \o (<<"program">> \o (<<"signal">> \o (<<"waitBsp">> \o r)))))
OBVIOUS

\* From absent to unelect.
LEMMA StepByStep12 ==
  ASSUME NEW r \in Seq(StepNames)
  PROVE  <<"absent", "waitAPs", "unelect">> \o r
           = <<"absent">> \o (<<"waitAPs">> \o (<<"unelect">> \o r))
OBVIOUS

\* BspProgram begins at place 50, whatever the configuration.
LEMMA BspProgramPlace ==
  ASSUME NEW g, g \in ConfigType, config = g
  PROVE  BspProgram = Rest(g, 50)
<1> DEFINE S == Seq(StepNames)
           a == <<"inside", "status">>
           b == If(Gather, <<"arrive", "arrive2", "sync", "lock", "waitAPs", "release">>)
           c == If(config.mtrrs, ProgramMtrrs)
           d == If(Gather, <<"waitAPs">>)
           e == <<"own", "handler", "drain", "tasks">>
           f == If(~Gather, <<"sync", "lock", "gather">>)
           h == <<"leave", "release">>
           i == If(config.mtrrs, <<"waitAPs", "release", "restore">>)
           j == If(config.mtrrs \/ config.debug, <<"waitAPs", "release">>)
           k == EndSmi
           P1 == a \o b
           P2 == P1 \o c
           P3 == P2 \o d
           P4 == P3 \o e
           P5 == P4 \o f
           P6 == P5 \o h
           P7 == P6 \o i
           P8 == P7 \o j
           Q0 == R50(g)
           Q1 == IF Gathers(g) THEN R52(g) ELSE R65(g)
           Q2 == IF g.mtrrs THEN R58(g) ELSE IF Gathers(g) THEN R64(g) ELSE R65(g)
           Q3 == IF Gathers(g) THEN R64(g) ELSE R65(g)
           Q4 == R65(g)
           Q5 == IF Gathers(g) THEN R85(g) ELSE R82(g)
           Q6 == R85(g)
           Q7 == IF g.mtrrs THEN R87 ELSE IF g.debug THEN R90 ELSE R92
           Q8 == IF g.mtrrs \/ g.debug THEN R90 ELSE R92
           Q9 == R92
<1>1. BspProgram = P8 \o k
  BY DEF BspProgram
<1>2. Gather = Gathers(g) /\ config = g
  BY DEF Gather, Gathers
<1>3. /\ R50(g) \in S /\ R52(g) \in S /\ R58(g) \in S /\ R64(g) \in S
      /\ R65(g) \in S /\ R82(g) \in S /\ R85(g) \in S /\ R87 \in S
      /\ R90 \in S /\ R92 \in S
  <2>1. /\ Rest(g, 50) = R50(g) /\ Rest(g, 52) = R52(g) /\ Rest(g, 58) = R58(g)
        /\ Rest(g, 64) = R64(g) /\ Rest(g, 65) = R65(g) /\ Rest(g, 82) = R82(g)
        /\ Rest(g, 85) = R85(g) /\ Rest(g, 87) = R87 /\ Rest(g, 90) = R90
        /\ Rest(g, 92) = R92
    BY DEF Rest
  <2> QED
    BY <2>1, RestIsSeq DEF Places
<1>4. Q0 \in S /\ Q1 \in S /\ Q2 \in S /\ Q3 \in S /\ Q4 \in S /\ Q5 \in S /\ Q6 \in S /\ Q7 \in S /\ Q8 \in S /\ Q9 \in S
  BY <1>3
<1>102. Q2 \in S
  BY <1>4
<1>103. Q3 \in S
  BY <1>4
<1>104. Q4 \in S
  BY <1>4
<1>105. Q5 \in S
  BY <1>4
<1>106. Q6 \in S
  BY <1>4
<1>107. Q7 \in S
  BY <1>4
<1>108. Q8 \in S
  BY <1>4
<1>109. Q9 \in S
  BY <1>4
<1>10. a \in S
  BY DEF StepNames
<1>11. b \in S
  <2>1. <<"arrive", "arrive2", "sync", "lock", "waitAPs", "release">> \in S
    BY DEF StepNames
  <2>2. <<>> \in S
    OBVIOUS
  <2> QED
    BY <2>1, <2>2 DEF If
<1>12. c \in S
  <2>1. ProgramMtrrs \in S
    BY DEF StepNames, ProgramMtrrs
  <2>2. <<>> \in S
    OBVIOUS
  <2> QED
    BY <2>1, <2>2 DEF If
<1>13. d \in S
  <2>1. <<"waitAPs">> \in S
    BY DEF StepNames
  <2>2. <<>> \in S
    OBVIOUS
  <2> QED
    BY <2>1, <2>2 DEF If
<1>14. e \in S
  BY DEF StepNames
<1>15. f \in S
  <2>1. <<"sync", "lock", "gather">> \in S
    BY DEF StepNames
  <2>2. <<>> \in S
    OBVIOUS
  <2> QED
    BY <2>1, <2>2 DEF If
<1>16. h \in S
  BY DEF StepNames
<1>17. i \in S
  <2>1. <<"waitAPs", "release", "restore">> \in S
    BY DEF StepNames
  <2>2. <<>> \in S
    OBVIOUS
  <2> QED
    BY <2>1, <2>2 DEF If
<1>18. j \in S
  <2>1. <<"waitAPs", "release">> \in S
    BY DEF StepNames
  <2>2. <<>> \in S
    OBVIOUS
  <2> QED
    BY <2>1, <2>2 DEF If
<1>21. P1 \in S
  BY <1>10, <1>11, ConcatProperties
<1>22. P2 \in S
  BY <1>21, <1>12, ConcatProperties
<1>23. P3 \in S
  BY <1>22, <1>13, ConcatProperties
<1>24. P4 \in S
  BY <1>23, <1>14, ConcatProperties
<1>25. P5 \in S
  BY <1>24, <1>15, ConcatProperties
<1>26. P6 \in S
  BY <1>25, <1>16, ConcatProperties
<1>27. P7 \in S
  BY <1>26, <1>17, ConcatProperties
<1>28. P8 \in S
  BY <1>27, <1>18, ConcatProperties
<1>40. k = Q9
  <2>1. <<"unsync", "spin">> = R96
    BY TwoSteps DEF R96, R5, R0, StepNames
  <2>2. <<"reset", "unsync", "spin">> = R95
    BY <2>1, ThreeSteps DEF R95
  <2>3. R95 \in Seq(StepNames)
    BY <2>2 DEF StepNames
  <2>4. <<"absent", "waitAPs", "unelect">> \o R95
          = <<"absent">> \o (<<"waitAPs">> \o (<<"unelect">> \o R95))
    BY <2>3, StepByStep12
  <2>5. EndSmi = <<"absent", "waitAPs", "unelect">> \o <<"reset", "unsync", "spin">>
    BY SixSteps DEF EndSmi
  <2> QED
    BY <2>2, <2>4, <2>5 DEF R92, R93, R94
<1>58. j \o Q9 = Q8
  <2>6. R92 \in Seq(StepNames)
    BY <1>3
  <2>1. <<"waitAPs", "release">> \o R92
          = <<"waitAPs">> \o (<<"release">> \o R92)
    BY <2>6, StepByStep1
  <2>2. <<"waitAPs", "release">> \o R92 = R90
    BY <2>1 DEF R90, R91
  <2>3. CASE config.mtrrs \/ config.debug
    BY <1>2, <2>2, <2>3 DEF If, Gathers
  <2>4. CASE ~(config.mtrrs \/ config.debug)
    <3>1. j = <<>>
      BY <2>4 DEF If
    <3> QED
      BY <1>2, <1>4, <2>4, <3>1, ConcatEmptySeq DEF Gathers
  <2> QED
    BY <2>3, <2>4
<1>57. i \o Q8 = Q7
  <2>6. R90 \in Seq(StepNames)
    BY <1>3
  <2>1. <<"waitAPs", "release", "restore">> \o R90
          = <<"waitAPs">> \o (<<"release">> \o (<<"restore">> \o R90))
    BY <2>6, StepByStep2
  <2>2. <<"waitAPs", "release", "restore">> \o R90 = R87
    BY <2>1 DEF R87, R88, R89
  <2>3. CASE config.mtrrs
    BY <1>2, <2>2, <2>3 DEF If, Gathers
  <2>4. CASE ~(config.mtrrs)
    <3>1. i = <<>>
      BY <2>4 DEF If
    <3> QED
      BY <1>2, <1>4, <2>4, <3>1, ConcatEmptySeq DEF Gathers
  <2> QED
    BY <2>3, <2>4
<1>56. h \o Q7 = Q6
  <2>6. (IF g.mtrrs THEN R87 ELSE IF g.debug THEN R90 ELSE R92) \in Seq(StepNames)
    BY <1>3
  <2>1. <<"leave", "release">> \o (IF g.mtrrs THEN R87 ELSE IF g.debug THEN R90 ELSE R92)
          = <<"leave">> \o (<<"release">> \o (IF g.mtrrs THEN R87 ELSE IF g.debug THEN R90 ELSE R92))
    BY <2>6, StepByStep3
  <2>2. <<"leave", "release">> \o (IF g.mtrrs THEN R87 ELSE IF g.debug THEN R90 ELSE R92) = R85(g)
    BY <2>1 DEF R85, R86
  <2> QED
    BY <2>2
<1>55. f \o Q6 = Q5
  <2>6. R85(g) \in Seq(StepNames)
    BY <1>3
  <2>1. <<"sync", "lock", "gather">> \o R85(g)
          = <<"sync">> \o (<<"lock">> \o (<<"gather">> \o R85(g)))
    BY <2>6, StepByStep4
  <2>2. <<"sync", "lock", "gather">> \o R85(g) = R82(g)
    BY <2>1 DEF R82, R83, R84
  <2>3. CASE ~Gather
    BY <1>2, <2>2, <2>3 DEF If, Gathers
  <2>4. CASE ~(~Gather)
    <3>1. f = <<>>
      BY <2>4 DEF If
    <3> QED
      BY <1>2, <1>4, <2>4, <3>1, ConcatEmptySeq DEF Gathers
  <2> QED
    BY <2>3, <2>4
<1>54. e \o Q5 = Q4
  <2>6. (IF Gathers(g) THEN R85(g) ELSE R82(g)) \in Seq(StepNames)
    BY <1>3
  <2>1. <<"own", "handler", "drain", "tasks">> \o (IF Gathers(g) THEN R85(g) ELSE R82(g))
          = <<"own">> \o (<<"handler">> \o (<<"drain">> \o (<<"tasks">> \o (IF Gathers(g) THEN R85(g) ELSE R82(g)))))
    BY <2>6, StepByStep5
  <2>2. <<"own", "handler", "drain", "tasks">> \o (IF Gathers(g) THEN R85(g) ELSE R82(g)) = R65(g)
    BY <2>1 DEF R65, R66, R75, R76
  <2> QED
    BY <2>2
<1>53. d \o Q4 = Q3
  <2>1. <<"waitAPs">> \o R65(g)
          = <<"waitAPs">> \o R65(g)
    BY <1>3
  <2>2. <<"waitAPs">> \o R65(g) = R64(g)
    BY <2>1 DEF R64
  <2>3. CASE Gather
    BY <1>2, <2>2, <2>3 DEF If, Gathers
  <2>4. CASE ~(Gather)
    <3>1. d = <<>>
      BY <2>4 DEF If
    <3> QED
      BY <1>2, <1>4, <2>4, <3>1, ConcatEmptySeq DEF Gathers
  <2> QED
    BY <2>3, <2>4
<1>52. c \o Q3 = Q2
  <2>6. R64(g) \in Seq(StepNames)
    BY <1>3
  <2>1. <<"backup", "waitAPs", "release", "program", "waitAPs", "release">> \o R64(g)
          = <<"backup">> \o (<<"waitAPs">> \o (<<"release">> \o (<<"program">> \o (<<"waitAPs">> \o (<<"release">> \o R64(g))))))
    BY <2>6, StepByStep6
  <2>2. <<"backup", "waitAPs", "release", "program", "waitAPs", "release">> \o R64(g) = R58(g)
    BY <2>1 DEF R58, R59, R60, R61, R62, R63
  <2>3. CASE config.mtrrs
    BY <1>2, <2>2, <2>3 DEF If, Gathers, ProgramMtrrs
  <2>4. CASE ~(config.mtrrs)
    <3>1. c = <<>>
      BY <2>4 DEF If
    <3> QED
      BY <1>2, <1>4, <2>4, <3>1, ConcatEmptySeq DEF Gathers
  <2> QED
    BY <2>3, <2>4
<1>51. b \o Q2 = Q1
  <2>6. (IF g.mtrrs THEN R58(g) ELSE R64(g)) \in Seq(StepNames)
    BY <1>3
  <2>1. <<"arrive", "arrive2", "sync", "lock", "waitAPs", "release">> \o (IF g.mtrrs THEN R58(g) ELSE R64(g))
          = <<"arrive">> \o (<<"arrive2">> \o (<<"sync">> \o (<<"lock">> \o (<<"waitAPs">> \o (<<"release">> \o (IF g.mtrrs THEN R58(g) ELSE R64(g)))))))
    BY <2>6, StepByStep7
  <2>2. <<"arrive", "arrive2", "sync", "lock", "waitAPs", "release">> \o (IF g.mtrrs THEN R58(g) ELSE R64(g)) = R52(g)
    BY <2>1 DEF R52, R53, R54, R55, R56, R57
  <2>3. CASE Gather
    BY <1>2, <2>2, <2>3 DEF If, Gathers
  <2>4. CASE ~(Gather)
    <3>1. b = <<>>
      BY <2>4 DEF If
    <3> QED
      BY <1>2, <1>4, <2>4, <3>1, ConcatEmptySeq DEF Gathers
  <2> QED
    BY <2>3, <2>4
<1>50. a \o Q1 = Q0
  <2>6. (IF Gathers(g) THEN R52(g) ELSE R65(g)) \in Seq(StepNames)
    BY <1>3
  <2>1. <<"inside", "status">> \o (IF Gathers(g) THEN R52(g) ELSE R65(g))
          = <<"inside">> \o (<<"status">> \o (IF Gathers(g) THEN R52(g) ELSE R65(g)))
    BY <2>6, StepByStep8
  <2>2. <<"inside", "status">> \o (IF Gathers(g) THEN R52(g) ELSE R65(g)) = R50(g)
    BY <2>1 DEF R50, R51
  <2> QED
    BY <2>2
<1>70. \A s, t, u \in S : (s \o t) \o u = s \o (t \o u)
  BY ConcatAssociative
<1> HIDE DEF a, b, c, d, e, f, h, i, j, k, P1, P2, P3, P4, P5, P6, P7, P8, Q0, Q1, Q2, Q3, Q4, Q5, Q6, Q7, Q8, Q9
<1>71. P8 \o Q9 = P7 \o Q8
  <2>1. (P7 \o j) \o Q9 = P7 \o (j \o Q9)
    BY <1>109, <1>27, <1>18
  <2> QED
    BY <2>1, <1>58 DEF P8
<1>72. P7 \o Q8 = P6 \o Q7
  <2>1. (P6 \o i) \o Q8 = P6 \o (i \o Q8)
    BY <1>108, <1>26, <1>17
  <2> QED
    BY <2>1, <1>57 DEF P7
<1>73. P6 \o Q7 = P5 \o Q6
  <2>1. (P5 \o h) \o Q7 = P5 \o (h \o Q7)
    BY <1>107, <1>25, <1>16
  <2> QED
    BY <2>1, <1>56 DEF P6
<1>74. P5 \o Q6 = P4 \o Q5
  <2>1. (P4 \o f) \o Q6 = P4 \o (f \o Q6)
    BY <1>106, <1>24, <1>15
  <2> QED
    BY <2>1, <1>55 DEF P5
<1>75. P4 \o Q5 = P3 \o Q4
  <2>1. (P3 \o e) \o Q5 = P3 \o (e \o Q5)
    BY <1>105, <1>23, <1>14
  <2> QED
    BY <2>1, <1>54 DEF P4
<1>76. P3 \o Q4 = P2 \o Q3
  <2>1. (P2 \o d) \o Q4 = P2 \o (d \o Q4)
    BY <1>104, <1>22, <1>13
  <2> QED
    BY <2>1, <1>53 DEF P3
<1>77. P2 \o Q3 = P1 \o Q2
  <2>1. (P1 \o c) \o Q3 = P1 \o (c \o Q3)
    BY <1>103, <1>21, <1>12
  <2> QED
    BY <2>1, <1>52 DEF P2
<1>78. P1 \o Q2 = a \o Q1
  <2>1. (a \o b) \o Q2 = a \o (b \o Q2)
    BY <1>102, <1>10, <1>11
  <2> QED
    BY <2>1, <1>51 DEF P1
<1>90. BspProgram = Q0
  BY <1>1, <1>40, <1>50, <1>78, <1>77, <1>76, <1>75, <1>74, <1>73, <1>72, <1>71
<1> QED
  BY <1>90 DEF Rest, Q0

\* ... and APHandler at place 20.
LEMMA ApProgramPlace ==
  ASSUME NEW g, g \in ConfigType, config = g
  PROVE  ApProgram = Rest(g, 20)
<1> DEFINE S == Seq(StepNames)
           a == <<"present">>
           b == If(Gather, <<"signal", "waitBsp">>)
           c == If(config.mtrrs, <<"backup", "signal", "waitBsp", "program", "signal", "waitBsp">>)
           d == If(Gather, <<"signal">>)
           e == <<"loop">>
           f == If(config.mtrrs, <<"signal", "waitBsp", "restore">>)
           h == If(config.mtrrs \/ config.debug, <<"signal", "waitBsp">>)
           i == <<"absent", "signal", "spin">>
           P1 == a \o b
           P2 == P1 \o c
           P3 == P2 \o d
           P4 == P3 \o e
           P5 == P4 \o f
           P6 == P5 \o h
           Q0 == R20(g)
           Q1 == IF Gathers(g) THEN R21(g) ELSE R30(g)
           Q2 == IF g.mtrrs THEN R23(g) ELSE IF Gathers(g) THEN R29(g) ELSE R30(g)
           Q3 == IF Gathers(g) THEN R29(g) ELSE R30(g)
           Q4 == R30(g)
           Q5 == IF g.mtrrs THEN R33 ELSE IF g.debug THEN R36 ELSE R38
           Q6 == IF g.mtrrs \/ g.debug THEN R36 ELSE R38
           Q7 == R38
<1>1. ApProgram = P6 \o i
  BY DEF ApProgram
<1>2. Gather = Gathers(g) /\ config = g
  BY DEF Gather, Gathers
<1>3. /\ R20(g) \in S /\ R21(g) \in S /\ R23(g) \in S /\ R29(g) \in S
      /\ R30(g) \in S /\ R33 \in S /\ R36 \in S /\ R38 \in S
  <2>1. /\ Rest(g, 20) = R20(g) /\ Rest(g, 21) = R21(g) /\ Rest(g, 23) = R23(g)
        /\ Rest(g, 29) = R29(g) /\ Rest(g, 30) = R30(g) /\ Rest(g, 33) = R33
        /\ Rest(g, 36) = R36 /\ Rest(g, 38) = R38
    BY DEF Rest
  <2> QED
    BY <2>1, RestIsSeq DEF Places
<1>4. Q0 \in S /\ Q1 \in S /\ Q2 \in S /\ Q3 \in S /\ Q4 \in S /\ Q5 \in S /\ Q6 \in S /\ Q7 \in S
  BY <1>3
<1>102. Q2 \in S
  BY <1>4
<1>103. Q3 \in S
  BY <1>4
<1>104. Q4 \in S
  BY <1>4
<1>105. Q5 \in S
  BY <1>4
<1>106. Q6 \in S
  BY <1>4
<1>107. Q7 \in S
  BY <1>4
<1>10. a \in S
  BY DEF StepNames
<1>11. b \in S
  <2>1. <<"signal", "waitBsp">> \in S
    BY DEF StepNames
  <2>2. <<>> \in S
    OBVIOUS
  <2> QED
    BY <2>1, <2>2 DEF If
<1>12. c \in S
  <2>1. <<"backup", "signal", "waitBsp", "program", "signal", "waitBsp">> \in S
    BY DEF StepNames
  <2>2. <<>> \in S
    OBVIOUS
  <2> QED
    BY <2>1, <2>2 DEF If
<1>13. d \in S
  <2>1. <<"signal">> \in S
    BY DEF StepNames
  <2>2. <<>> \in S
    OBVIOUS
  <2> QED
    BY <2>1, <2>2 DEF If
<1>14. e \in S
  BY DEF StepNames
<1>15. f \in S
  <2>1. <<"signal", "waitBsp", "restore">> \in S
    BY DEF StepNames
  <2>2. <<>> \in S
    OBVIOUS
  <2> QED
    BY <2>1, <2>2 DEF If
<1>16. h \in S
  <2>1. <<"signal", "waitBsp">> \in S
    BY DEF StepNames
  <2>2. <<>> \in S
    OBVIOUS
  <2> QED
    BY <2>1, <2>2 DEF If
<1>21. P1 \in S
  BY <1>10, <1>11, ConcatProperties
<1>22. P2 \in S
  BY <1>21, <1>12, ConcatProperties
<1>23. P3 \in S
  BY <1>22, <1>13, ConcatProperties
<1>24. P4 \in S
  BY <1>23, <1>14, ConcatProperties
<1>25. P5 \in S
  BY <1>24, <1>15, ConcatProperties
<1>26. P6 \in S
  BY <1>25, <1>16, ConcatProperties
<1>40. i = Q7
  <2>1. <<"signal", "spin">> = R39
    BY TwoSteps DEF R39, R5, R0, StepNames
  <2> QED
    BY <2>1, ThreeSteps DEF R38
<1>56. h \o Q7 = Q6
  <2>6. R38 \in Seq(StepNames)
    BY <1>3
  <2>1. <<"signal", "waitBsp">> \o R38
          = <<"signal">> \o (<<"waitBsp">> \o R38)
    BY <2>6, StepByStep9
  <2>2. <<"signal", "waitBsp">> \o R38 = R36
    BY <2>1 DEF R36, R37
  <2>3. CASE config.mtrrs \/ config.debug
    BY <1>2, <2>2, <2>3 DEF If, Gathers
  <2>4. CASE ~(config.mtrrs \/ config.debug)
    <3>1. h = <<>>
      BY <2>4 DEF If
    <3> QED
      BY <1>2, <1>4, <2>4, <3>1, ConcatEmptySeq DEF Gathers
  <2> QED
    BY <2>3, <2>4
<1>55. f \o Q6 = Q5
  <2>6. R36 \in Seq(StepNames)
    BY <1>3
  <2>1. <<"signal", "waitBsp", "restore">> \o R36
          = <<"signal">> \o (<<"waitBsp">> \o (<<"restore">> \o R36))
    BY <2>6, StepByStep10
  <2>2. <<"signal", "waitBsp", "restore">> \o R36 = R33
    BY <2>1 DEF R33, R34, R35
  <2>3. CASE config.mtrrs
    BY <1>2, <2>2, <2>3 DEF If, Gathers
  <2>4. CASE ~(config.mtrrs)
    <3>1. f = <<>>
      BY <2>4 DEF If
    <3> QED
      BY <1>2, <1>4, <2>4, <3>1, ConcatEmptySeq DEF Gathers
  <2> QED
    BY <2>3, <2>4
<1>54. e \o Q5 = Q4
  <2>1. <<"loop">> \o (IF g.mtrrs THEN R33 ELSE IF g.debug THEN R36 ELSE R38)
          = <<"loop">> \o (IF g.mtrrs THEN R33 ELSE IF g.debug THEN R36 ELSE R38)
    BY <1>3
  <2>2. <<"loop">> \o (IF g.mtrrs THEN R33 ELSE IF g.debug THEN R36 ELSE R38) = R30(g)
    BY <2>1 DEF R30
  <2> QED
    BY <2>2
<1>53. d \o Q4 = Q3
  <2>1. <<"signal">> \o R30(g)
          = <<"signal">> \o R30(g)
    BY <1>3
  <2>2. <<"signal">> \o R30(g) = R29(g)
    BY <2>1 DEF R29
  <2>3. CASE Gather
    BY <1>2, <2>2, <2>3 DEF If, Gathers
  <2>4. CASE ~(Gather)
    <3>1. d = <<>>
      BY <2>4 DEF If
    <3> QED
      BY <1>2, <1>4, <2>4, <3>1, ConcatEmptySeq DEF Gathers
  <2> QED
    BY <2>3, <2>4
<1>52. c \o Q3 = Q2
  <2>6. R29(g) \in Seq(StepNames)
    BY <1>3
  <2>1. <<"backup", "signal", "waitBsp", "program", "signal", "waitBsp">> \o R29(g)
          = <<"backup">> \o (<<"signal">> \o (<<"waitBsp">> \o (<<"program">> \o (<<"signal">> \o (<<"waitBsp">> \o R29(g))))))
    BY <2>6, StepByStep11
  <2>2. <<"backup", "signal", "waitBsp", "program", "signal", "waitBsp">> \o R29(g) = R23(g)
    BY <2>1 DEF R23, R24, R25, R26, R27, R28
  <2>3. CASE config.mtrrs
    BY <1>2, <2>2, <2>3 DEF If, Gathers
  <2>4. CASE ~(config.mtrrs)
    <3>1. c = <<>>
      BY <2>4 DEF If
    <3> QED
      BY <1>2, <1>4, <2>4, <3>1, ConcatEmptySeq DEF Gathers
  <2> QED
    BY <2>3, <2>4
<1>51. b \o Q2 = Q1
  <2>6. (IF g.mtrrs THEN R23(g) ELSE R29(g)) \in Seq(StepNames)
    BY <1>3
  <2>1. <<"signal", "waitBsp">> \o (IF g.mtrrs THEN R23(g) ELSE R29(g))
          = <<"signal">> \o (<<"waitBsp">> \o (IF g.mtrrs THEN R23(g) ELSE R29(g)))
    BY <2>6, StepByStep9
  <2>2. <<"signal", "waitBsp">> \o (IF g.mtrrs THEN R23(g) ELSE R29(g)) = R21(g)
    BY <2>1 DEF R21, R22
  <2>3. CASE Gather
    BY <1>2, <2>2, <2>3 DEF If, Gathers
  <2>4. CASE ~(Gather)
    <3>1. b = <<>>
      BY <2>4 DEF If
    <3> QED
      BY <1>2, <1>4, <2>4, <3>1, ConcatEmptySeq DEF Gathers
  <2> QED
    BY <2>3, <2>4
<1>50. a \o Q1 = Q0
  <2>1. <<"present">> \o (IF Gathers(g) THEN R21(g) ELSE R30(g))
          = <<"present">> \o (IF Gathers(g) THEN R21(g) ELSE R30(g))
    BY <1>3
  <2>2. <<"present">> \o (IF Gathers(g) THEN R21(g) ELSE R30(g)) = R20(g)
    BY <2>1 DEF R20
  <2> QED
    BY <2>2
<1>70. \A s, t, u \in S : (s \o t) \o u = s \o (t \o u)
  BY ConcatAssociative
<1> HIDE DEF a, b, c, d, e, f, h, i, P1, P2, P3, P4, P5, P6, Q0, Q1, Q2, Q3, Q4, Q5, Q6, Q7
<1>71. P6 \o Q7 = P5 \o Q6
  <2>1. (P5 \o h) \o Q7 = P5 \o (h \o Q7)
    BY <1>107, <1>25, <1>16
  <2> QED
    BY <2>1, <1>56 DEF P6
<1>72. P5 \o Q6 = P4 \o Q5
  <2>1. (P4 \o f) \o Q6 = P4 \o (f \o Q6)
    BY <1>106, <1>24, <1>15
  <2> QED
    BY <2>1, <1>55 DEF P5
<1>73. P4 \o Q5 = P3 \o Q4
  <2>1. (P3 \o e) \o Q5 = P3 \o (e \o Q5)
    BY <1>105, <1>23, <1>14
  <2> QED
    BY <2>1, <1>54 DEF P4
<1>74. P3 \o Q4 = P2 \o Q3
  <2>1. (P2 \o d) \o Q4 = P2 \o (d \o Q4)
    BY <1>104, <1>22, <1>13
  <2> QED
    BY <2>1, <1>53 DEF P3
<1>75. P2 \o Q3 = P1 \o Q2
  <2>1. (P1 \o c) \o Q3 = P1 \o (c \o Q3)
    BY <1>103, <1>21, <1>12
  <2> QED
    BY <2>1, <1>52 DEF P2
<1>76. P1 \o Q2 = a \o Q1
  <2>1. (a \o b) \o Q2 = a \o (b \o Q2)
    BY <1>102, <1>10, <1>11
  <2> QED
    BY <2>1, <1>51 DEF P1
<1>90. ApProgram = Q0
  BY <1>1, <1>40, <1>50, <1>76, <1>75, <1>74, <1>73, <1>72, <1>71
<1> QED
  BY <1>90 DEF Rest, Q0

(***************************************************************************)
(* A processor moves among the places without a role.                      *)
(***************************************************************************)
NoRole == 0 .. 5 \cup 9 .. 13

\* Places are numbers.
LEMMA PlacesAreNumbers ==
  ASSUME NEW w \in [Cpu -> Places], NEW c \in Cpu
  PROVE  w[c] \in Int /\ w[c] \in 0 .. 96
BY DEF Places

\* A move that enters and leaves none of the BSP's places keeps the leader.
LEMMA LeaderKept ==
  ASSUME NEW g, NEW w \in [Cpu -> Places], Leader(g, w), NEW c \in Cpu,
         NEW q \in Places, NEW v, Moved(w, v, c, q),
         bspIndex' = bspIndex, insideSmm' = insideSmm,
         bspIndex \in Cpu \cup {NoBsp},
         w[c] \in BspPlaces <=> q \in BspPlaces,
         w[c] \in 50 .. 94 <=> q \in 50 .. 94,
         w[c] \in 51 .. 85 <=> q \in 51 .. 85
  PROVE  Leader(g, v)'
<1>99. v = [w EXCEPT ![c] = q]
  BY DEF Moved
<1>1. \A d \in Cpu : /\ v[d] \in BspPlaces <=> w[d] \in BspPlaces
                     /\ v[d] \in 50 .. 94 <=> w[d] \in 50 .. 94
                     /\ v[d] \in 51 .. 85 <=> w[d] \in 51 .. 85
  BY <1>99
<1>2. \A b, d \in Cpu : v[b] \in BspPlaces /\ v[d] \in BspPlaces => b = d
  BY <1>1 DEF Leader
<1>3. ~g.election => /\ bspIndex' = BootBsp
                     /\ \A b \in Cpu : v[b] \in BspPlaces => b = BootBsp
  BY <1>1 DEF Leader
<1>4. g.election => /\ \A b \in Cpu : v[b] \in 50 .. 94 => bspIndex' = b
                    /\ bspIndex' # NoBsp => v[bspIndex'] \in 50 .. 94
  BY <1>1 DEF Leader
<1>5. \A b \in Cpu : v[b] \in 51 .. 85 => insideSmm'
  BY <1>1 DEF Leader
<1>6. insideSmm' => \E b \in Cpu : v[b] \in 51 .. 85
  BY <1>1 DEF Leader
<1> QED
  BY <1>2, <1>3, <1>4, <1>5, <1>6 DEF Leader

\* A processor that is no BSP does not move to where a BSP has left nobody.
LEMMA QuiescedKept ==
  ASSUME NEW g, NEW w \in [Cpu -> Places], Quiesced(g, w), NEW c \in Cpu,
         NEW q \in Places, NEW v, Moved(w, v, c, q),
         q \notin 50 .. 96,
         q = 9 => \A b \in Cpu : w[b] \notin 52 .. 95,
         q \in 10 .. 13 /\ w[c] \notin 10 .. 13 => \A b \in Cpu : ~IsLocked(g, w[b]),
         q \in 20 .. 39 => w[c] \in ApPlaces
  PROVE  Quiesced(g, v)'
<1>99. v = [w EXCEPT ![c] = q]
  BY DEF Moved
<1> SUFFICES ASSUME NEW b \in Cpu, NEW d \in Cpu
             PROVE  /\ v[b] \in 52 .. 95 => v[d] # 9 /\ v[d] # 96
                    /\ IsGathered(g, v[b]) => v[d] \notin 10 .. 13
                    /\ v[b] \in 94 .. 95 => v[d] \notin ApPlaces
  BY DEF Quiesced
<1>1. CASE b = c
  BY <1>99, <1>1 DEF IsGathered
<1>2. CASE b # c /\ d # c
  BY <1>99, <1>2 DEF Quiesced
<1>3. CASE b # c /\ d = c
  <2>1. v[b] = w[b] /\ v[d] = q
    BY <1>99, <1>3
  <2>2. /\ w[b] \in 52 .. 95 => w[c] # 9 /\ w[c] # 96
        /\ IsGathered(g, w[b]) => w[c] \notin 10 .. 13
        /\ w[b] \in 94 .. 95 => w[c] \notin ApPlaces
    BY DEF Quiesced
  <2>3. IsGathered(g, w[b]) => IsLocked(g, w[b])
    BY PlacesAreNumbers DEF IsGathered, IsLocked
  <2>4. w[b] \in 94 .. 95 => IsLocked(g, w[b])
    BY PlacesAreNumbers DEF IsLocked
  <2> QED
    BY <2>1, <2>2, <2>3, <2>4 DEF ApPlaces, Places
<1> QED
  BY <1>1, <1>2, <1>3

\* The counts when a processor without a role moves.
LEMMA NoRoleCounts ==
  ASSUME NEW g, NEW w \in [Cpu -> Places], Counts(g, w), NEW c \in Cpu,
         NEW q \in NoRole, NEW v, Moved(w, v, c, q),
         w[c] \in NoRole \cup {96},
         run' = run, apCount' = apCount,
         \/ w[c] \in 10 .. 13 <=> q \in 10 .. 13
         \/ \A b \in Cpu : ~IsLocked(g, w[b]),
         cpuCount' = IF \A b \in Cpu : ~IsLocked(g, w[b])
                     THEN cpuCount + (IF q \in CheckedIn THEN 1 ELSE 0)
                                   - (IF w[c] \in CheckedIn THEN 1 ELSE 0)
                     ELSE cpuCount
  PROVE  Counts(g, v)'
<1>99. v = [w EXCEPT ![c] = q]
  BY DEF Moved
<1>1. \A b \in Cpu : IsLocked(g, v[b]) <=> IsLocked(g, w[b])
  BY <1>99 DEF IsLocked, NoRole
<1>2. Count(w, CheckedIn) \in Nat
  BY CountType
<1>3. q \in Places
  BY DEF NoRole, Places
<1>4. (\A b \in Cpu : ~IsLocked(g, v[b])) => cpuCount' = Count(v, CheckedIn)
  <2>1. Count(v, CheckedIn) =   Count(w, CheckedIn) + (IF q \in CheckedIn THEN 1 ELSE 0)
                              - (IF w[c] \in CheckedIn THEN 1 ELSE 0)
    BY <1>3, CountMove
  <2> QED
    BY <1>1, <1>2, <2>1 DEF Counts
<1>5. ASSUME NEW b \in Cpu
      PROVE  /\ IsLocked(g, v[b]) => cpuCount' = Locked
             /\ IsLocked(g, v[b]) /\ v[b] < 92 => apCount' = Count(v, ApPlaces)
             /\ v[b] \in 50 .. 91 => run'[b] = Count(v, Signalled(g, v[b]))
             /\ v[b] \in 92 .. 93 => run'[b] + Count(v, ApPlaces) = apCount'
  <2>1. CASE b = c
    BY <1>99, <2>1 DEF IsLocked, NoRole
  <2>2. CASE b # c
    <3>1. v[b] = w[b]
      BY <1>99, <2>2
    <3>2. w[b] \in 92 .. 93 => IsLocked(g, w[b])
      BY DEF IsLocked
    <3>3. IsLocked(g, w[b]) => Count(v, ApPlaces) = Count(w, ApPlaces)
      <4>1. Count(v, ApPlaces) =   Count(w, ApPlaces) + (IF q \in ApPlaces THEN 1 ELSE 0)
                                 - (IF w[c] \in ApPlaces THEN 1 ELSE 0)
        BY <1>3, CountMove
      <4>2. IsLocked(g, w[b]) => (w[c] \in ApPlaces <=> q \in ApPlaces)
        BY DEF NoRole, ApPlaces
      <4>3. Count(w, ApPlaces) \in Nat
        BY CountType
      <4> QED
        BY <4>1, <4>2, <4>3
    <3>4. Count(v, Signalled(g, w[b])) = Count(w, Signalled(g, w[b]))
      <4> DEFINE S == Signalled(g, w[b])
      <4>1. q \notin S /\ w[c] \notin S
        BY DEF Signalled, SignalledFrom, NoRole
      <4>2. Count(w, S) \in Nat
        BY CountType
      <4> HIDE DEF S
      <4>3. Count(v, S) =   Count(w, S) + (IF q \in S THEN 1 ELSE 0)
                          - (IF w[c] \in S THEN 1 ELSE 0)
        BY <1>3, CountMove
      <4> QED
        BY <4>1, <4>2, <4>3 DEF S
    <3>5. /\ IsLocked(g, w[b]) => cpuCount = Locked
          /\ IsLocked(g, w[b]) /\ w[b] < 92 => apCount = Count(w, ApPlaces)
          /\ w[b] \in 50 .. 91 => run[b] = Count(w, Signalled(g, w[b]))
          /\ w[b] \in 92 .. 93 => run[b] + Count(w, ApPlaces) = apCount
      BY DEF Counts
    <3> QED
      BY <3>1, <3>2, <3>3, <3>4, <3>5
  <2> QED
    BY <2>1, <2>2
<1> QED
  BY <1>4, <1>5 DEF Counts

\* A processor without a role moves, checks in or checks out.
LEMMA NoRoleMove ==
  ASSUME NEW g, NEW w, Inv(g, w), NEW c \in Cpu,
         NEW q \in NoRole, NEW v, Moved(w, v, c, q),
         w[c] \in NoRole \cup {96},
         Where(g, v)', Typed', Reached(g, v)',
         UNCHANGED <<run, present, requested, mtrr, insideSmm, bspIndex, apCount>>,
         \A d \in Cpu \ {c} : busy'[d] = busy[d] /\ bsp'[d] = bsp[d],
         q \in 10 .. 13 => ~busy'[c],
         q = 9 => \A b \in Cpu : w[b] \notin 52 .. 95,
         \/ w[c] \in 10 .. 13 <=> q \in 10 .. 13
         \/ \A b \in Cpu : ~IsLocked(g, w[b]),
         cpuCount' = IF \A b \in Cpu : ~IsLocked(g, w[b])
                     THEN cpuCount + (IF q \in CheckedIn THEN 1 ELSE 0)
                                   - (IF w[c] \in CheckedIn THEN 1 ELSE 0)
                     ELSE cpuCount
  PROVE  Inv(g, v)'
<1>99. v = [w EXCEPT ![c] = q]
  BY DEF Moved
<1>1. w \in [Cpu -> Places] /\ g \in Configs /\ q \in Places
  BY DEF Inv, NoRole, Places
<1>0. /\ Leader(g, w) /\ Quiesced(g, w) /\ bspIndex \in Cpu \cup {NoBsp}
      /\ bspIndex' = bspIndex /\ insideSmm' = insideSmm
  BY DEF Inv, Typed
<1>2. v \in [Cpu -> Places]
  BY <1>99, <1>1
<1>3. Leader(g, v)'
  <2>1. /\ w[c] \in BspPlaces <=> q \in BspPlaces
        /\ w[c] \in 50 .. 94 <=> q \in 50 .. 94
        /\ w[c] \in 51 .. 85 <=> q \in 51 .. 85
    BY DEF BspPlaces, NoRole
  <2> QED
    BY <1>0, <1>1, <2>1, LeaderKept
<1>4. Quiesced(g, v)'
  <2>1. q \notin 50 .. 96 /\ q \notin 20 .. 39
    BY DEF NoRole
  <2> QED
    BY <1>0, <1>1, <2>1, QuiescedKept
<1>5. Counts(g, v)'
  BY <1>1, NoRoleCounts DEF Inv
<1>6. Members(g, v)'
  <2> SUFFICES ASSUME NEW d \in Cpu, v[d] \in 20 .. 39
               PROVE  /\ bsp'[d] \in Cpu
                      /\ Match(g, v[d], run'[d], busy'[d], requested'[d], v[bsp'[d]])
    BY DEF Members
  <2>1. d # c /\ v[d] = w[d]
    BY <1>99, <1>1 DEF NoRole
  <2>2. bsp[d] \in Cpu /\ Match(g, w[d], run[d], busy[d], requested[d], w[bsp[d]])
    BY <2>1 DEF Inv, Members
  <2>3. bsp[d] # c
    BY <2>2 DEF Match, NoRole
  <2> QED
    BY <1>99, <1>1, <2>1, <2>2, <2>3
<1>7. Flags(g, v)'
  <2> SUFFICES ASSUME NEW d \in Cpu
               PROVE  Own(g, v[d], run'[d], present'[d], busy'[d], requested'[d], mtrr'[d])
    BY DEF Flags
  <2>1. Own(g, w[d], run[d], present[d], busy[d], requested[d], mtrr[d])
    BY DEF Inv, Flags
  <2>2. CASE d # c
    BY <1>99, <1>1, <2>1, <2>2
  <2>3. CASE d = c
    <3>1. v[d] = q
      BY <1>99, <1>1, <2>3
    <3> QED
      BY <2>1, <2>3, <3>1 DEF Own, NoRole
  <2> QED
    BY <2>2, <2>3
<1> QED
  BY <1>1, <1>2, <1>3, <1>4, <1>5, <1>6, <1>7 DEF Inv

\* CpuCount is a count or says that the door is locked.
LEMMA CpuCountType ==
  ASSUME NEW g, NEW w, Inv(g, w)
  PROVE  /\ cpuCount \in {Locked} \cup 0 .. N /\ cpuCount \in Int
         /\ cpuCount = Locked <=> \E b \in Cpu : IsLocked(g, w[b])
<1>1. Counts(g, w)
  BY DEF Inv
<1>2. Count(w, CheckedIn) \in Nat /\ Count(w, CheckedIn) \in 0 .. N
  BY CountType
<1>3. CASE \E b \in Cpu : IsLocked(g, w[b])
  BY <1>1, <1>3 DEF Counts, Locked
<1>4. CASE \A b \in Cpu : ~IsLocked(g, w[b])
  BY <1>1, <1>2, <1>4 DEF Counts, Locked
<1> QED
  BY <1>3, <1>4

\* A processor that is not the BSP moves and is still called in.
LEMMA ReachedKept ==
  ASSUME NEW g, NEW w \in [Cpu -> Places], Reached(g, w), NEW c \in Cpu,
         NEW q \in Places, NEW v, Moved(w, v, c, q),
         q \notin 50 .. 96,
         allCpusInSync' = allCpusInSync,
         \A d \in Cpu \ {c} : smiPending[d] => smiPending'[d],
         q = 0 => \A b \in Cpu : Gathers(g) /\ w[b] \in 53 .. 85 => smiPending'[c],
         q = 5 => \A b \in Cpu : Gathers(g) /\ w[b] \in 53 .. 85 =>
                    smiPending'[c] \/ allCpusInSync
  PROVE  Reached(g, v)'
<1>1. v = [w EXCEPT ![c] = q]
  BY DEF Moved
<1> SUFFICES ASSUME Gathers(g), NEW b \in Cpu
             PROVE  /\ v[b] \in 55 .. 95 => allCpusInSync'
                    /\ v[b] \in 53 .. 85 =>
                         \A d \in Cpu :
                           /\ v[d] = 0 => smiPending'[d]
                           /\ v[d] = 5 => smiPending'[d] \/ allCpusInSync'
  BY DEF Reached
<1>2. CASE b = c
  BY <1>1, <1>2
<1>3. CASE b # c
  <2>1. v[b] = w[b]
    BY <1>1, <1>3
  <2>2. v[b] \in 55 .. 95 => allCpusInSync'
    BY <2>1 DEF Reached
  <2>3. ASSUME v[b] \in 53 .. 85, NEW d \in Cpu
        PROVE  /\ v[d] = 0 => smiPending'[d]
               /\ v[d] = 5 => smiPending'[d] \/ allCpusInSync'
    <3>1. CASE d = c
      BY <1>1, <2>1, <2>3, <3>1
    <3>2. CASE d # c
      BY <1>1, <2>1, <2>3, <3>2 DEF Reached
    <3> QED
      BY <3>1, <3>2
  <2> QED
    BY <2>2, <2>3
<1> QED
  BY <1>2, <1>3

\* The door and CpuCount are left alone.
LEMMA NoRoleQuietMove ==
  ASSUME NEW g, NEW w, Inv(g, w), NEW c \in Cpu,
         NEW q \in NoRole, NEW v, Moved(w, v, c, q),
         w[c] \in NoRole \cup {96},
         Where(g, v)', Typed', Reached(g, v)',
         UNCHANGED <<run, present, busy, requested, mtrr, insideSmm, bspIndex,
                     apCount, cpuCount>>,
         \A d \in Cpu \ {c} : bsp'[d] = bsp[d],
         w[c] \in 10 .. 13 <=> q \in 10 .. 13,
         w[c] \in CheckedIn <=> q \in CheckedIn,
         q # 9
  PROVE  Inv(g, v)'
<1>1. cpuCount \in Int
  BY CpuCountType
<1>2. q \in 10 .. 13 => ~busy'[c]
  BY DEF Inv, Flags, Own
<1>3. cpuCount' = IF \A b \in Cpu : ~IsLocked(g, w[b])
                  THEN cpuCount + (IF q \in CheckedIn THEN 1 ELSE 0)
                                - (IF w[c] \in CheckedIn THEN 1 ELSE 0)
                  ELSE cpuCount
  BY <1>1
<1>4. UNCHANGED <<run, present, requested, mtrr, insideSmm, bspIndex, apCount>>
  OBVIOUS
<1>5. \A d \in Cpu \ {c} : busy'[d] = busy[d] /\ bsp'[d] = bsp[d]
  OBVIOUS
<1> QED
  BY <1>2, <1>3, <1>4, <1>5, NoRoleMove

\* A processor without a role moves and the counts stay.
LEMMA NoRoleGoto ==
  ASSUME NEW g, NEW w, Inv(g, w), NEW c \in Cpu, NEW q \in NoRole,
         w[c] \in NoRole,
         config' = config, todo' = [todo EXCEPT ![c] = Rest(g, q)], Typed',
         UNCHANGED <<run, present, busy, requested, mtrr, insideSmm, bspIndex,
                     apCount, cpuCount, allCpusInSync>>,
         \A d \in Cpu \ {c} : bsp'[d] = bsp[d] /\ (smiPending[d] => smiPending'[d]),
         q = 0 => \A b \in Cpu : Gathers(g) /\ w[b] \in 53 .. 85 => smiPending'[c],
         q = 5 => \A b \in Cpu : Gathers(g) /\ w[b] \in 53 .. 85 =>
                    smiPending'[c] \/ allCpusInSync,
         w[c] \in 10 .. 13 <=> q \in 10 .. 13,
         w[c] \in CheckedIn <=> q \in CheckedIn,
         q # 9
  PROVE  \E v : Inv(g, v)'
<1>1. w \in [Cpu -> Places] /\ Where(g, w) /\ Reached(g, w)
  BY DEF Inv
<1> DEFINE v == [w EXCEPT ![c] = q]
<1>2. Moved(w, v, c, q)
  BY DEF Moved
<1> HIDE DEF v
<1>3. OnPath(g, q) /\ q \in Places /\ q \notin 50 .. 96
  BY DEF OnPath, Places, NoRole
<1>4. Where(g, v)'
  BY <1>1, <1>2, <1>3, WhereGoto
<1>5. Reached(g, v)'
  <2>1. /\ allCpusInSync' = allCpusInSync
        /\ \A d \in Cpu \ {c} : smiPending[d] => smiPending'[d]
    OBVIOUS
  <2> QED
    BY <1>1, <1>2, <1>3, <2>1, ReachedKept
<1>6. /\ UNCHANGED <<run, present, busy, requested, mtrr, insideSmm, bspIndex,
                     apCount, cpuCount>>
      /\ \A d \in Cpu \ {c} : bsp'[d] = bsp[d]
      /\ w[c] \in NoRole \cup {96}
  OBVIOUS
<1> QED
  BY <1>2, <1>4, <1>5, <1>6, NoRoleQuietMove

\* EnterSmm keeps the invariant.
LEMMA EnterSmmKeeps ==
  ASSUME NEW g, NEW w, Inv(g, w), NEW c \in Cpu, EnterSmm(c)
  PROVE  \E v : Inv(g, v)'
<1>1. w \in [Cpu -> Places] /\ Where(g, w) /\ Typed
  BY DEF Inv
<1>2. w[c] = 0
  BY <1>1, OutsideSmm DEF EnterSmm
<1>3. todo' = [todo EXCEPT ![c] = Rest(g, 1)] /\ config' = config
  BY EntryPrograms DEF EnterSmm, Goto
<1>4. Typed'
  BY <1>1 DEF Typed, EnterSmm, shared, cpuData, smi, local
<1>5. UNCHANGED <<run, present, busy, requested, mtrr, insideSmm, bspIndex,
                  apCount, cpuCount, allCpusInSync>>
  BY DEF EnterSmm, shared, cpuData, local
<1>6. \A d \in Cpu \ {c} : bsp'[d] = bsp[d] /\ (smiPending[d] => smiPending'[d])
  BY <1>1 DEF EnterSmm, local, smi, Typed
<1>7. /\ 1 \in NoRole /\ w[c] \in NoRole /\ 1 # 9
      /\ w[c] \in 10 .. 13 <=> 1 \in 10 .. 13
      /\ w[c] \in CheckedIn <=> 1 \in CheckedIn
  BY <1>2 DEF NoRole, CheckedIn
<1>8. 1 # 0 /\ 1 # 5
  OBVIOUS
<1> QED
  BY <1>3, <1>4, <1>5, <1>6, <1>7, <1>8, NoRoleGoto

\* PlatformValidSmi keeps the invariant.
LEMMA PlatformValidSmiKeeps ==
  ASSUME NEW g, NEW w, Inv(g, w), NEW c \in Cpu, PlatformValidSmi(c)
  PROVE  \E v : Inv(g, v)'
<1>1. w \in [Cpu -> Places] /\ Where(g, w) /\ Typed
  BY DEF Inv
<1>2. w[c] = 1
  <2>1. At(c, "valid")
    BY DEF PlatformValidSmi
  <2>2. w[c] \in Places \ {0} /\ StepAt(w[c]) = "valid"
    BY <1>1, <2>1, AtPlace
  <2> QED
    BY <2>2, StepPlaces DEF PlacesOf
<1>3. todo' = [todo EXCEPT ![c] = Rest(g, 2)] /\ config' = config
  <2>1. Tail(todo[c]) = Rest(g, NextAt(g, w[c]))
    BY <1>1, <1>2, FirstAndRest DEF Where, Places
  <2>2. NextAt(g, w[c]) = 2
    BY <1>2 DEF NextAt
  <2> QED
    BY <2>1, <2>2 DEF PlatformValidSmi, Continue
<1>4. Typed'
  BY <1>1 DEF Typed, PlatformValidSmi, shared, cpuData, smi, local
<1>5. UNCHANGED <<run, present, busy, requested, mtrr, insideSmm, bspIndex,
                  apCount, cpuCount, allCpusInSync>>
  BY DEF PlatformValidSmi, shared, cpuData, local
<1>6. \A d \in Cpu \ {c} : bsp'[d] = bsp[d] /\ (smiPending[d] => smiPending'[d])
  BY <1>1 DEF PlatformValidSmi, local, smi, Typed
<1>7. /\ 2 \in NoRole /\ w[c] \in NoRole /\ 2 # 9
      /\ w[c] \in 10 .. 13 <=> 2 \in 10 .. 13
      /\ w[c] \in CheckedIn <=> 2 \in CheckedIn
  BY <1>2 DEF NoRole, CheckedIn
<1>8. 2 # 0 /\ 2 # 5
  OBVIOUS
<1> QED
  BY <1>3, <1>4, <1>5, <1>6, <1>7, <1>8, NoRoleGoto

\* LeaveSmm keeps the invariant.
LEMMA LeaveSmmKeeps ==
  ASSUME NEW g, NEW w, Inv(g, w), NEW c \in Cpu, LeaveSmm(c)
  PROVE  \E v : Inv(g, v)'
<1>1. w \in [Cpu -> Places] /\ Where(g, w) /\ Typed
  BY DEF Inv
<1>2. w[c] = 5
  <2>1. At(c, "spin")
    BY DEF LeaveSmm
  <2>2. w[c] \in Places \ {0} /\ StepAt(w[c]) = "spin"
    BY <1>1, <2>1, AtPlace
  <2> QED
    BY <2>2, StepPlaces DEF PlacesOf
<1>3. todo' = [todo EXCEPT ![c] = Rest(g, 0)] /\ config' = config
  <2>1. Tail(todo[c]) = Rest(g, NextAt(g, w[c]))
    BY <1>1, <1>2, FirstAndRest DEF Where, Places
  <2>2. NextAt(g, w[c]) = 0
    BY <1>2 DEF NextAt
  <2> QED
    BY <2>1, <2>2 DEF LeaveSmm, Continue
<1>4. Typed'
  BY <1>1 DEF Typed, LeaveSmm, shared, cpuData, smi, local
<1>5. UNCHANGED <<run, present, busy, requested, mtrr, insideSmm, bspIndex,
                  apCount, cpuCount, allCpusInSync>>
  BY DEF LeaveSmm, shared, cpuData, local
<1>6. \A d \in Cpu \ {c} : bsp'[d] = bsp[d] /\ (smiPending[d] => smiPending'[d])
  BY <1>1 DEF LeaveSmm, local, smi, Typed
<1>7. /\ 0 \in NoRole /\ w[c] \in NoRole /\ 0 # 9
      /\ w[c] \in 10 .. 13 <=> 0 \in 10 .. 13
      /\ w[c] \in CheckedIn <=> 0 \in CheckedIn
  BY <1>2 DEF NoRole, CheckedIn
<1>8. \A b \in Cpu : Gathers(g) /\ w[b] \in 53 .. 85 => smiPending'[c]
  <2>1. Reached(g, w) /\ ~allCpusInSync /\ smiPending' = smiPending
    BY DEF Inv, LeaveSmm, smi
  <2> QED
    BY <1>2, <2>1 DEF Reached
<1> QED
  BY <1>3, <1>4, <1>5, <1>6, <1>7, <1>8, NoRoleGoto

\* FirstTimeout keeps the invariant.
LEMMA FirstTimeoutKeeps ==
  ASSUME NEW g, NEW w, Inv(g, w), NEW c \in Cpu, FirstTimeout(c)
  PROVE  \E v : Inv(g, v)'
<1>1. w \in [Cpu -> Places] /\ Where(g, w) /\ Typed
  BY DEF Inv
<1>2. w[c] = 11
  <2>1. At(c, "await")
    BY DEF FirstTimeout
  <2>2. w[c] \in Places \ {0} /\ StepAt(w[c]) = "await"
    BY <1>1, <2>1, AtPlace
  <2> QED
    BY <2>2, StepPlaces DEF PlacesOf
<1>3. todo' = [todo EXCEPT ![c] = Rest(g, 12)] /\ config' = config
  BY EntryPrograms DEF FirstTimeout, Goto
<1>4. Typed'
  BY <1>1 DEF Typed, FirstTimeout, shared, cpuData, smi, local
<1>5. UNCHANGED <<run, present, busy, requested, mtrr, insideSmm, bspIndex,
                  apCount, cpuCount, allCpusInSync>>
  BY DEF FirstTimeout, shared, cpuData, local
<1>6. \A d \in Cpu \ {c} : bsp'[d] = bsp[d] /\ (smiPending[d] => smiPending'[d])
  BY <1>1 DEF FirstTimeout, local, smi, Typed
<1>7. /\ 12 \in NoRole /\ w[c] \in NoRole /\ 12 # 9
      /\ w[c] \in 10 .. 13 <=> 12 \in 10 .. 13
      /\ w[c] \in CheckedIn <=> 12 \in CheckedIn
  BY <1>2 DEF NoRole, CheckedIn
<1>8. 12 # 0 /\ 12 # 5
  OBVIOUS
<1> QED
  BY <1>3, <1>4, <1>5, <1>6, <1>7, <1>8, NoRoleGoto

\* SampleInsideSmm keeps the invariant.
LEMMA SampleInsideSmmKeeps ==
  ASSUME NEW g, NEW w, Inv(g, w), NEW c \in Cpu, SampleInsideSmm(c)
  PROVE  \E v : Inv(g, v)'
<1>1. w \in [Cpu -> Places] /\ Where(g, w) /\ Typed
  BY DEF Inv
<1>2. w[c] = 2
  <2>1. At(c, "look")
    BY DEF SampleInsideSmm
  <2>2. w[c] \in Places \ {0} /\ StepAt(w[c]) = "look"
    BY <1>1, <2>1, AtPlace
  <2> QED
    BY <2>2, StepPlaces DEF PlacesOf
<1>3. /\ <<>> = Rest(g, 0)
      /\ <<"checkin", "await", "spin">> = Rest(g, 3)
      /\ <<"checkin", "elect", "await", "spin">> = Rest(g, 4)
  BY EntryPrograms
<1> DEFINE q == IF insideSmm THEN 3 ELSE IF validSmi[c] THEN 4 ELSE 0
<1>4. todo' = [todo EXCEPT ![c] = Rest(g, q)] /\ config' = config
  <2>1. CASE insideSmm
    BY <1>3, <2>1 DEF SampleInsideSmm, Goto
  <2>2. CASE ~insideSmm /\ validSmi[c]
    BY <1>3, <2>2 DEF SampleInsideSmm, Goto, If
  <2>3. CASE ~insideSmm /\ ~validSmi[c]
    BY <1>3, <2>3 DEF SampleInsideSmm, Goto, If
  <2> QED
    BY <2>1, <2>2, <2>3
<1>5. Typed'
  BY <1>1 DEF Typed, SampleInsideSmm, shared, cpuData, smi, local
<1>6. UNCHANGED <<run, present, busy, requested, mtrr, insideSmm, bspIndex,
                  apCount, cpuCount, allCpusInSync>>
  BY DEF SampleInsideSmm, shared, cpuData, local
<1>7. \A d \in Cpu \ {c} : bsp'[d] = bsp[d] /\ (smiPending[d] => smiPending'[d])
  BY DEF SampleInsideSmm, smi
<1>8. /\ q \in NoRole /\ w[c] \in NoRole /\ q # 9
      /\ w[c] \in 10 .. 13 <=> q \in 10 .. 13
      /\ w[c] \in CheckedIn <=> q \in CheckedIn
      /\ q # 5 /\ (q = 0 => ~insideSmm)
  BY <1>2 DEF NoRole, CheckedIn
<1>9. q = 0 => \A b \in Cpu : Gathers(g) /\ w[b] \in 53 .. 85 => smiPending'[c]
  <2>1. ~insideSmm => \A b \in Cpu : w[b] \notin 51 .. 85
    BY DEF Inv, Leader
  <2> QED
    BY <1>8, <2>1
<1> HIDE DEF q
<1> QED
  BY <1>4, <1>5, <1>6, <1>7, <1>8, <1>9, NoRoleGoto

\* CheckIn keeps the invariant.
LEMMA CheckInKeeps ==
  ASSUME NEW g, NEW w, Inv(g, w), NEW c \in Cpu, CheckIn(c)
  PROVE  \E v : Inv(g, v)'
<1>1. w \in [Cpu -> Places] /\ Where(g, w) /\ Typed
  BY DEF Inv
<1>2. w[c] \in {3, 4}
  <2>1. At(c, "checkin")
    BY DEF CheckIn
  <2>2. w[c] \in Places \ {0} /\ StepAt(w[c]) = "checkin"
    BY <1>1, <2>1, AtPlace
  <2> QED
    BY <2>2, StepPlaces DEF PlacesOf
<1>3. CASE cpuCount = Locked
  <2>1. todo' = [todo EXCEPT ![c] = Rest(g, 5)] /\ config' = config
    BY <1>3, EntryPrograms DEF CheckIn, Goto
  <2>2. Typed'
    BY <1>1, <1>3 DEF Typed, CheckIn, smi, local
  <2>3. UNCHANGED <<run, present, busy, requested, mtrr, insideSmm, bspIndex,
                    apCount, cpuCount, allCpusInSync>>
    BY <1>3 DEF CheckIn, local
  <2>4. \A d \in Cpu \ {c} : bsp'[d] = bsp[d] /\ (smiPending[d] => smiPending'[d])
    BY DEF CheckIn, smi, local
  <2>5. /\ 5 \in NoRole /\ w[c] \in NoRole /\ 5 # 9 /\ 5 # 0
        /\ w[c] \in 10 .. 13 <=> 5 \in 10 .. 13
        /\ w[c] \in CheckedIn <=> 5 \in CheckedIn
    BY <1>2 DEF NoRole, CheckedIn
  <2>6. \A b \in Cpu : Gathers(g) /\ w[b] \in 53 .. 85 =>
          smiPending'[c] \/ allCpusInSync
    <3> SUFFICES ASSUME Gathers(g)
                 PROVE  allCpusInSync
      OBVIOUS
    <3>1. PICK b \in Cpu : IsLocked(g, w[b])
      BY <1>3, CpuCountType
    <3>2. w[b] \in 55 .. 95
      BY <3>1 DEF IsLocked
    <3> QED
      BY <3>2 DEF Inv, Reached
  <2> QED
    BY <2>1, <2>2, <2>3, <2>4, <2>5, <2>6, NoRoleGoto
<1>4. CASE cpuCount # Locked
  <2>1. \A b \in Cpu : ~IsLocked(g, w[b])
    BY <1>4, CpuCountType
  <2> DEFINE q == NextAt(g, w[c])
             v == [w EXCEPT ![c] = q]
  <2>11. q \in 10 .. 11
    BY <1>2 DEF NextAt
  <2>3. Moved(w, v, c, q)
    BY DEF Moved
  <2> HIDE DEF q, v
  <2>2. q \in 10 .. 11 /\ OnPath(g, q) /\ q \in Places
    BY <2>11 DEF OnPath, Places
  <2>4. Where(g, v)'
    <3>1. w[c] # 0 /\ Continue(c) /\ config' = config
      BY <1>2, <1>4 DEF CheckIn
    <3> QED
      BY <1>1, <2>2, <2>3, <3>1, WhereContinue DEF q
  <2>5. Typed'
    BY <1>1, <1>4 DEF Typed, CheckIn, smi, local
  <2>6. Reached(g, v)'
    <3>1. /\ allCpusInSync' = allCpusInSync /\ q # 0 /\ q # 5 /\ q \notin 50 .. 96
          /\ \A d \in Cpu \ {c} : smiPending[d] => smiPending'[d]
      BY <2>2 DEF CheckIn, smi
    <3> QED
      BY <1>1, <2>2, <2>3, <3>1, ReachedKept DEF Inv
  <2>7. UNCHANGED <<run, present, requested, mtrr, insideSmm, bspIndex, apCount>>
    BY DEF CheckIn, local
  <2>8. /\ \A d \in Cpu \ {c} : busy'[d] = busy[d] /\ bsp'[d] = bsp[d]
        /\ ~busy'[c] /\ cpuCount' = cpuCount + 1
    BY <1>1, <1>4 DEF CheckIn, local, Typed
  <2>9. /\ q \in NoRole /\ w[c] \in NoRole \cup {96} /\ q # 9
        /\ q \in CheckedIn /\ w[c] \notin CheckedIn
    BY <1>2, <2>2 DEF NoRole, CheckedIn
  <2>10. cpuCount' = IF \A b \in Cpu : ~IsLocked(g, w[b])
                     THEN cpuCount + (IF q \in CheckedIn THEN 1 ELSE 0)
                                   - (IF w[c] \in CheckedIn THEN 1 ELSE 0)
                     ELSE cpuCount
    BY <2>1, <2>8, <2>9, CpuCountType
  <2> QED
    BY <2>1, <2>3, <2>4, <2>5, <2>6, <2>7, <2>8, <2>9, <2>10, NoRoleMove
<1> QED
  BY <1>3, <1>4

\* CallBsp keeps the invariant.
LEMMA CallBspKeeps ==
  ASSUME NEW g, NEW w, Inv(g, w), NEW c \in Cpu, CallBsp(c)
  PROVE  \E v : Inv(g, v)'
<1>1. w \in [Cpu -> Places] /\ Where(g, w) /\ Typed
  BY DEF Inv
<1>2. w[c] = 12
  <2>1. At(c, "who")
    BY DEF CallBsp
  <2>2. w[c] \in Places \ {0} /\ StepAt(w[c]) = "who"
    BY <1>1, <2>1, AtPlace
  <2> QED
    BY <2>2, StepPlaces DEF PlacesOf
<1>3. CASE bspIndex # NoBsp
  <2>1. todo' = [todo EXCEPT ![c] = Rest(g, 13)] /\ config' = config
    BY <1>3, EntryPrograms DEF CallBsp, Goto
  <2>2. smiPending' = [smiPending EXCEPT ![bspIndex] = TRUE] /\ bspIndex \in Cpu
    BY <1>1, <1>3 DEF CallBsp, Typed
  <2>3. Typed'
    BY <1>1, <2>2 DEF Typed, CallBsp, shared, cpuData, local
  <2>4. UNCHANGED <<run, present, busy, requested, mtrr, insideSmm, bspIndex,
                    apCount, cpuCount, allCpusInSync>>
    BY DEF CallBsp, shared, cpuData, local
  <2>5. \A d \in Cpu \ {c} : bsp'[d] = bsp[d] /\ (smiPending[d] => smiPending'[d])
    BY <1>1, <2>2 DEF CallBsp, local, Typed
  <2>6. /\ 13 \in NoRole /\ w[c] \in NoRole /\ 13 # 9 /\ 13 # 0 /\ 13 # 5
        /\ w[c] \in 10 .. 13 <=> 13 \in 10 .. 13
        /\ w[c] \in CheckedIn <=> 13 \in CheckedIn
    BY <1>2 DEF NoRole, CheckedIn
  <2> QED
    BY <2>1, <2>3, <2>4, <2>5, <2>6, NoRoleGoto
<1>4. CASE bspIndex = NoBsp
  <2>1. \A b \in Cpu : w[b] \notin 52 .. 95
    <3>1. g.election
      BY <1>4 DEF Inv, Leader, NoBsp, BootBsp
    <3>2. \A b \in Cpu : w[b] \notin 50 .. 94
      BY <1>4, <3>1 DEF Inv, Leader, NoBsp, Cpu
    <3>3. \A b \in Cpu : w[b] # 95
      BY <1>2 DEF Inv, Quiesced, IsGathered
    <3> QED
      BY <1>1, <3>2, <3>3 DEF Places
  <2> DEFINE v == [w EXCEPT ![c] = 9]
  <2>2. Moved(w, v, c, 9)
    BY DEF Moved
  <2> HIDE DEF v
  <2>3. Where(g, v)'
    <3>1. todo' = [todo EXCEPT ![c] = Rest(g, 9)] /\ config' = config
      BY <1>4, EntryPrograms DEF CallBsp, Goto
    <3>2. OnPath(g, 9) /\ 9 \in Places
      BY DEF OnPath, Places
    <3> QED
      BY <1>1, <2>2, <3>1, <3>2, WhereGoto
  <2>4. Typed'
    BY <1>1, <1>4 DEF Typed, CallBsp, shared, cpuData, smi, local
  <2>5. Reached(g, v)'
    <3>1. /\ allCpusInSync' = allCpusInSync
          /\ \A d \in Cpu \ {c} : smiPending[d] => smiPending'[d]
      BY <1>4 DEF CallBsp, smi, shared
    <3>2. 9 \in Places /\ 9 \notin 50 .. 96 /\ 9 # 0 /\ 9 # 5
      BY DEF Places
    <3> QED
      BY <1>1, <2>2, <3>1, <3>2, ReachedKept DEF Inv
  <2>6. UNCHANGED <<run, present, requested, mtrr, insideSmm, bspIndex, apCount>>
    BY DEF CallBsp, shared, cpuData, local
  <2>7. /\ \A d \in Cpu \ {c} : busy'[d] = busy[d] /\ bsp'[d] = bsp[d]
        /\ cpuCount' = cpuCount
    BY DEF CallBsp, shared, cpuData, local
  <2>8. 9 \in NoRole /\ w[c] \in NoRole \cup {96} /\ 9 \in CheckedIn /\ w[c] \in CheckedIn /\ 9 \notin 10 .. 13
    BY <1>2 DEF NoRole, CheckedIn
  <2>9. \A b \in Cpu : ~IsLocked(g, w[b])
    BY <2>1 DEF IsLocked
  <2>10. cpuCount' = IF \A b \in Cpu : ~IsLocked(g, w[b])
                     THEN cpuCount + (IF 9 \in CheckedIn THEN 1 ELSE 0)
                                   - (IF w[c] \in CheckedIn THEN 1 ELSE 0)
                     ELSE cpuCount
    BY <2>7, <2>8, CpuCountType
  <2> QED
    BY <2>1, <2>2, <2>3, <2>4, <2>5, <2>6, <2>7, <2>8, <2>9, <2>10, NoRoleMove
<1> QED
  BY <1>3, <1>4

\* SecondTimeout keeps the invariant.
LEMMA SecondTimeoutKeeps ==
  ASSUME NEW g, NEW w, Inv(g, w), NEW c \in Cpu, SecondTimeout(c)
  PROVE  \E v : Inv(g, v)'
<1>1. w \in [Cpu -> Places] /\ Where(g, w) /\ Typed
  BY DEF Inv
<1>2. w[c] = 13
  <2>1. At(c, "await2")
    BY DEF SecondTimeout
  <2>2. w[c] \in Places \ {0} /\ StepAt(w[c]) = "await2"
    BY <1>1, <2>1, AtPlace
  <2> QED
    BY <2>2, StepPlaces DEF PlacesOf
<1>3. \A b \in Cpu : w[b] \notin 52 .. 95
  <2>1. \A b \in Cpu : w[b] \notin 51 .. 85
    BY DEF SecondTimeout, Inv, Leader
  <2>2. \A b \in Cpu : w[b] \notin 85 .. 95
    BY <1>2 DEF Inv, Quiesced, IsGathered
  <2> QED
    BY <1>1, <2>1, <2>2 DEF Places
<1>4. QED
  <2>1. \A b \in Cpu : w[b] \notin 52 .. 95
    BY <1>3
  <2> DEFINE v == [w EXCEPT ![c] = 9]
  <2>2. Moved(w, v, c, 9)
    BY DEF Moved
  <2> HIDE DEF v
  <2>3. Where(g, v)'
    <3>1. todo' = [todo EXCEPT ![c] = Rest(g, 9)] /\ config' = config
      BY <1>1, EntryPrograms DEF SecondTimeout, Goto
    <3>2. OnPath(g, 9) /\ 9 \in Places
      BY DEF OnPath, Places
    <3> QED
      BY <1>1, <2>2, <3>1, <3>2, WhereGoto
  <2>4. Typed'
    BY <1>1, <1>1 DEF Typed, SecondTimeout, shared, cpuData, smi, local
  <2>5. Reached(g, v)'
    <3>1. /\ allCpusInSync' = allCpusInSync
          /\ \A d \in Cpu \ {c} : smiPending[d] => smiPending'[d]
      BY <1>1 DEF SecondTimeout, smi, shared
    <3>2. 9 \in Places /\ 9 \notin 50 .. 96 /\ 9 # 0 /\ 9 # 5
      BY DEF Places
    <3> QED
      BY <1>1, <2>2, <3>1, <3>2, ReachedKept DEF Inv
  <2>6. UNCHANGED <<run, present, requested, mtrr, insideSmm, bspIndex, apCount>>
    BY DEF SecondTimeout, shared, cpuData, local
  <2>7. /\ \A d \in Cpu \ {c} : busy'[d] = busy[d] /\ bsp'[d] = bsp[d]
        /\ cpuCount' = cpuCount
    BY DEF SecondTimeout, shared, cpuData, local
  <2>8. 9 \in NoRole /\ w[c] \in NoRole \cup {96} /\ 9 \in CheckedIn /\ w[c] \in CheckedIn /\ 9 \notin 10 .. 13
    BY <1>2 DEF NoRole, CheckedIn
  <2>9. \A b \in Cpu : ~IsLocked(g, w[b])
    BY <2>1 DEF IsLocked
  <2>10. cpuCount' = IF \A b \in Cpu : ~IsLocked(g, w[b])
                     THEN cpuCount + (IF 9 \in CheckedIn THEN 1 ELSE 0)
                                   - (IF w[c] \in CheckedIn THEN 1 ELSE 0)
                     ELSE cpuCount
    BY <2>7, <2>8, CpuCountType
  <2> QED
    BY <2>1, <2>2, <2>3, <2>4, <2>5, <2>6, <2>7, <2>8, <2>9, <2>10, NoRoleMove

\* CheckOut keeps the invariant.
LEMMA CheckOutKeeps ==
  ASSUME NEW g, NEW w, Inv(g, w), NEW c \in Cpu, CheckOut(c)
  PROVE  \E v : Inv(g, v)'
<1>1. w \in [Cpu -> Places] /\ Where(g, w) /\ Typed
  BY DEF Inv
<1>2. w[c] = 9
  <2>1. At(c, "giveup")
    BY DEF CheckOut
  <2>2. w[c] \in Places \ {0} /\ StepAt(w[c]) = "giveup"
    BY <1>1, <2>1, AtPlace
  <2> QED
    BY <2>2, StepPlaces DEF PlacesOf
<1> DEFINE v == [w EXCEPT ![c] = 5]
<1>3. Moved(w, v, c, 5)
  BY DEF Moved
<1> HIDE DEF v
<1>4. \A b \in Cpu : w[b] \notin 52 .. 95
  BY <1>2 DEF Inv, Quiesced
<1>5. Where(g, v)'
  <2>1. NextAt(g, w[c]) = 5 /\ w[c] # 0 /\ Continue(c) /\ config' = config
    BY <1>2 DEF NextAt, CheckOut
  <2>2. OnPath(g, 5)
    BY DEF OnPath
  <2> QED
    BY <1>1, <1>3, <2>1, <2>2, WhereContinue
<1>6. Typed'
  BY <1>1 DEF Typed, CheckOut, shared, cpuData, smi, local
<1>7. Reached(g, v)'
  <2>1. v = [w EXCEPT ![c] = 5]
    BY <1>3 DEF Moved
  <2>2. \A b \in Cpu : v[b] \notin 52 .. 95
    BY <1>1, <1>4, <2>1
  <2> QED
    BY <2>2 DEF Reached
<1>8. UNCHANGED <<run, present, requested, mtrr, insideSmm, bspIndex, apCount>>
  BY DEF CheckOut, shared, cpuData, local
<1>9. \A d \in Cpu \ {c} : busy'[d] = busy[d] /\ bsp'[d] = bsp[d]
  BY DEF CheckOut, shared, cpuData, local
<1>10. 5 \in NoRole /\ w[c] \in NoRole \cup {96} /\ 5 # 9 /\ 5 \notin CheckedIn /\ 5 \notin 10 .. 13
  BY <1>2 DEF NoRole, CheckedIn
<1>11. \A b \in Cpu : ~IsLocked(g, w[b])
  BY <1>4 DEF IsLocked
<1>12. cpuCount' = IF \A b \in Cpu : ~IsLocked(g, w[b])
                   THEN cpuCount + (IF 5 \in CheckedIn THEN 1 ELSE 0)
                                 - (IF w[c] \in CheckedIn THEN 1 ELSE 0)
                   ELSE cpuCount
  <2>1. cpuCount # Locked /\ cpuCount \in Int
    BY <1>11, CpuCountType
  <2>2. 9 \in CheckedIn
    BY DEF CheckedIn
  <2> QED
    BY <1>2, <1>10, <1>11, <2>1, <2>2 DEF CheckOut
<1> QED
  BY <1>3, <1>5, <1>6, <1>7, <1>8, <1>9, <1>10, <1>11, <1>12, NoRoleMove

\* ClearAllCpusInSync keeps the invariant.
LEMMA ClearAllCpusInSyncKeeps ==
  ASSUME NEW g, NEW w, Inv(g, w), NEW c \in Cpu, ClearAllCpusInSync(c)
  PROVE  \E v : Inv(g, v)'
<1>1. w \in [Cpu -> Places] /\ Where(g, w) /\ Typed
  BY DEF Inv
<1>2. w[c] = 96
  <2>1. At(c, "unsync")
    BY DEF ClearAllCpusInSync
  <2>2. w[c] \in Places \ {0} /\ StepAt(w[c]) = "unsync"
    BY <1>1, <2>1, AtPlace
  <2> QED
    BY <2>2, StepPlaces DEF PlacesOf
<1> DEFINE v == [w EXCEPT ![c] = 5]
<1>3. Moved(w, v, c, 5)
  BY DEF Moved
<1> HIDE DEF v
<1>4. \A b \in Cpu : w[b] \notin 52 .. 95
  BY <1>2 DEF Inv, Quiesced
<1>5. Where(g, v)'
  <2>1. NextAt(g, w[c]) = 5 /\ w[c] # 0 /\ Continue(c) /\ config' = config
    BY <1>2 DEF NextAt, ClearAllCpusInSync
  <2>2. OnPath(g, 5)
    BY DEF OnPath
  <2> QED
    BY <1>1, <1>3, <2>1, <2>2, WhereContinue
<1>6. Typed'
  BY <1>1 DEF Typed, ClearAllCpusInSync, shared, cpuData, smi, local
<1>7. Reached(g, v)'
  <2>1. v = [w EXCEPT ![c] = 5]
    BY <1>3 DEF Moved
  <2>2. \A b \in Cpu : v[b] \notin 52 .. 95
    BY <1>1, <1>4, <2>1
  <2> QED
    BY <2>2 DEF Reached
<1>8. UNCHANGED <<run, present, requested, mtrr, insideSmm, bspIndex, apCount>>
  BY DEF ClearAllCpusInSync, shared, cpuData, local
<1>9. \A d \in Cpu \ {c} : busy'[d] = busy[d] /\ bsp'[d] = bsp[d]
  BY DEF ClearAllCpusInSync, shared, cpuData, local
<1>10. 5 \in NoRole /\ w[c] \in NoRole \cup {96} /\ 5 # 9 /\ 5 \notin CheckedIn /\ 5 \notin 10 .. 13
  BY <1>2 DEF NoRole, CheckedIn
<1>11. \A b \in Cpu : ~IsLocked(g, w[b])
  BY <1>4 DEF IsLocked
<1>12. cpuCount' = IF \A b \in Cpu : ~IsLocked(g, w[b])
                   THEN cpuCount + (IF 5 \in CheckedIn THEN 1 ELSE 0)
                                 - (IF w[c] \in CheckedIn THEN 1 ELSE 0)
                   ELSE cpuCount
  <2>1. cpuCount \in Int
    BY CpuCountType
  <2>2. 96 \notin CheckedIn
    BY DEF CheckedIn
  <2> QED
    BY <1>2, <1>10, <2>1, <2>2 DEF ClearAllCpusInSync
<1> QED
  BY <1>3, <1>5, <1>6, <1>7, <1>8, <1>9, <1>10, <1>11, <1>12, NoRoleMove

\* Nothing moves; SMIs may become pending.
LEMMA NobodyMoves ==
  ASSUME NEW g, NEW w, Inv(g, w), Typed',
         UNCHANGED <<config, shared, run, cpuData, todo, bsp, apCount>>,
         \A d \in Cpu : smiPending[d] => smiPending'[d]
  PROVE  Inv(g, w)'
<1>1. UNCHANGED <<config, cpuCount, insideSmm, allCpusInSync, bspIndex, run,
                  present, busy, requested, mtrr, todo, bsp, apCount>>
  BY DEF shared, cpuData
<1>2. Where(g, w)' /\ Leader(g, w)' /\ Quiesced(g, w)'
  BY <1>1 DEF Inv, Where, Leader, Quiesced
<1>3. Counts(g, w)'
  BY <1>1 DEF Inv, Counts
<1>4. Members(g, w)' /\ Flags(g, w)'
  BY <1>1 DEF Inv, Members, Flags
<1>5. Reached(g, w)'
  BY <1>1 DEF Inv, Reached
<1> QED
  BY <1>2, <1>3, <1>4, <1>5 DEF Inv

(***************************************************************************)
(* An AP moves in APHandler.                                               *)
(***************************************************************************)
LEMMA BspOfMember ==
  ASSUME NEW g, NEW w, Inv(g, w), NEW b \in Cpu, w[b] \in BspPlaces,
         NEW d \in Cpu, w[d] \in 20 .. 39
  PROVE  /\ bsp[d] = b /\ w[b] \in 51 .. 93
         /\ Match(g, w[d], run[d], busy[d], requested[d], w[b])
<1>1. bsp[d] \in Cpu /\ Match(g, w[d], run[d], busy[d], requested[d], w[bsp[d]])
  BY DEF Inv, Members
<1>2. w[bsp[d]] \in 51 .. 93
  BY <1>1 DEF Match
<1>3. bsp[d] = b
  BY <1>1, <1>2 DEF Inv, Leader, BspPlaces
<1> QED
  BY <1>1, <1>2, <1>3

\* The counts when an AP moves.
LEMMA ApCounts ==
  ASSUME NEW g, NEW w, Inv(g, w), NEW c \in Cpu, NEW q \in 20 .. 39,
         NEW v, Moved(w, v, c, q), w[c] \in ApPlaces,
         NEW b \in Cpu, w[b] \in 51 .. 93,
         UNCHANGED <<cpuCount, apCount>>,
         w[b] \in 50 .. 91 =>
           run'[b] = run[b] + (IF q \in Signalled(g, w[b]) THEN 1 ELSE 0)
                            - (IF w[c] \in Signalled(g, w[b]) THEN 1 ELSE 0),
         w[b] \in 92 .. 93 => run'[b] = run[b]
  PROVE  Counts(g, v)'
<1>1. w \in [Cpu -> Places] /\ q \in Places
  BY DEF Inv, Places
<1>2. v = [w EXCEPT ![c] = q]
  BY DEF Moved
<1>3. \A d \in Cpu : IsLocked(g, v[d]) <=> IsLocked(g, w[d])
  BY <1>1, <1>2 DEF IsLocked, ApPlaces
<1>4. Count(v, CheckedIn) = Count(w, CheckedIn)
  <2>1. w[c] \in CheckedIn /\ q \in CheckedIn
    BY DEF CheckedIn, ApPlaces
  <2>2. Count(v, CheckedIn) =   Count(w, CheckedIn) + (IF q \in CheckedIn THEN 1 ELSE 0)
                              - (IF w[c] \in CheckedIn THEN 1 ELSE 0)
    BY <1>1, CountMove
  <2>3. Count(w, CheckedIn) \in Nat
    BY CountType
  <2> QED
    BY <2>1, <2>2, <2>3
<1>5. Count(v, ApPlaces) = Count(w, ApPlaces)
  <2>1. q \in ApPlaces
    BY DEF ApPlaces
  <2>2. Count(v, ApPlaces) =   Count(w, ApPlaces) + (IF q \in ApPlaces THEN 1 ELSE 0)
                             - (IF w[c] \in ApPlaces THEN 1 ELSE 0)
    BY <1>1, CountMove
  <2>3. Count(w, ApPlaces) \in Nat
    BY CountType
  <2> QED
    BY <2>1, <2>2, <2>3
<1>6. (\A d \in Cpu : ~IsLocked(g, v[d])) => cpuCount' = Count(v, CheckedIn)
  BY <1>3, <1>4 DEF Inv, Counts
<1>7. ASSUME NEW d \in Cpu
      PROVE  /\ IsLocked(g, v[d]) => cpuCount' = Locked
             /\ IsLocked(g, v[d]) /\ v[d] < 92 => apCount' = Count(v, ApPlaces)
             /\ v[d] \in 50 .. 91 => run'[d] = Count(v, Signalled(g, v[d]))
             /\ v[d] \in 92 .. 93 => run'[d] + Count(v, ApPlaces) = apCount'
  <2>1. CASE d = b
    <3>1. v[b] = w[b]
      BY <1>1, <1>2 DEF ApPlaces
    <3>2. /\ IsLocked(g, w[b]) => cpuCount = Locked
          /\ IsLocked(g, w[b]) /\ w[b] < 92 => apCount = Count(w, ApPlaces)
          /\ w[b] \in 50 .. 91 => run[b] = Count(w, Signalled(g, w[b]))
          /\ w[b] \in 92 .. 93 => run[b] + Count(w, ApPlaces) = apCount
      BY DEF Inv, Counts
    <3> DEFINE S == Signalled(g, w[b])
    <3> HIDE DEF S
    <3>3. Count(v, S) = Count(w, S) + (IF q \in S THEN 1 ELSE 0)
                                    - (IF w[c] \in S THEN 1 ELSE 0)
      BY <1>1, CountMove
    <3>4. w[b] \in 50 .. 91 => run'[b] = Count(v, S)
      BY <3>2, <3>3 DEF S
    <3> QED
      BY <1>5, <2>1, <3>1, <3>2, <3>4 DEF S
  <2>2. CASE d # b
    <3>1. w[d] \notin BspPlaces
      BY <2>2 DEF Inv, Leader, BspPlaces
    <3>2. v[d] \notin BspPlaces
      BY <1>1, <1>2, <3>1 DEF BspPlaces
    <3> QED
      BY <3>2 DEF BspPlaces, IsLocked
  <2> QED
    BY <2>1, <2>2
<1> QED
  BY <1>6, <1>7 DEF Counts

\* An AP moves in APHandler, its role and its flags as its new place wants.
LEMMA ApMove ==
  ASSUME NEW g, NEW w, Inv(g, w), NEW c \in Cpu, NEW q \in 20 .. 39,
         w[c] \in {11, 13} \cup 20 .. 39, OnPath(g, q),
         NEW b \in Cpu, w[b] \in 51 .. 93, bsp'[c] = b,
         config' = config, todo' = [todo EXCEPT ![c] = Rest(g, q)], Typed',
         UNCHANGED <<cpuCount, insideSmm, bspIndex, allCpusInSync, smiPending,
                     apCount>>,
         \A d \in Cpu \ {c} : /\ busy'[d] = busy[d] /\ requested'[d] = requested[d]
                              /\ present'[d] = present[d] /\ mtrr'[d] = mtrr[d]
                              /\ bsp'[d] = bsp[d]
                              /\ d # b => run'[d] = run[d],
         Match(g, q, run'[c], busy'[c], requested'[c], w[b]),
         Own(g, q, run'[c], present'[c], busy'[c], requested'[c], mtrr'[c]),
         w[b] \in 50 .. 91 =>
           run'[b] = run[b] + (IF q \in Signalled(g, w[b]) THEN 1 ELSE 0)
                            - (IF w[c] \in Signalled(g, w[b]) THEN 1 ELSE 0),
         w[b] \in 92 .. 93 => run'[b] = run[b]
  PROVE  \E v : Inv(g, v)'
<1>1. w \in [Cpu -> Places] /\ g \in Configs /\ q \in Places /\ Where(g, w)
  BY DEF Inv, Places
<1> DEFINE v == [w EXCEPT ![c] = q]
<1>2. Moved(w, v, c, q)
  BY DEF Moved
<1>3. v[c] = q /\ v[b] = w[b] /\ \A d \in Cpu \ {c} : v[d] = w[d]
  BY <1>1
<1> HIDE DEF v
<1>4. v \in [Cpu -> Places] /\ Where(g, v)'
  BY <1>1, <1>2, WhereGoto
<1>5. Leader(g, v)'
  <2>1. /\ w[c] \in BspPlaces <=> q \in BspPlaces
        /\ w[c] \in 50 .. 94 <=> q \in 50 .. 94
        /\ w[c] \in 51 .. 85 <=> q \in 51 .. 85
    BY DEF BspPlaces
  <2>2. /\ Leader(g, w) /\ bspIndex \in Cpu \cup {NoBsp}
        /\ bspIndex' = bspIndex /\ insideSmm' = insideSmm
    BY DEF Inv, Typed
  <2> QED
    BY <1>1, <1>2, <2>1, <2>2, LeaderKept
<1>6. Quiesced(g, v)'
  <2>1. /\ q \notin 50 .. 96 /\ q # 9 /\ q \notin 10 .. 13
        /\ w[c] \in ApPlaces /\ Quiesced(g, w)
    BY DEF Inv, ApPlaces
  <2> QED
    BY <1>1, <1>2, <2>1, QuiescedKept
<1>7. Counts(g, v)'
  <2>1. w[c] \in ApPlaces /\ UNCHANGED <<cpuCount, apCount>>
    BY DEF ApPlaces
  <2> QED
    BY <1>2, <2>1, ApCounts
<1>8. Members(g, v)'
  <2> SUFFICES ASSUME NEW d \in Cpu, v[d] \in 20 .. 39
               PROVE  /\ bsp'[d] \in Cpu
                      /\ Match(g, v[d], run'[d], busy'[d], requested'[d], v[bsp'[d]])
    BY DEF Members
  <2>1. CASE d = c
    BY <1>3, <2>1
  <2>2. CASE d # c
    <3>1. w[d] \in 20 .. 39 /\ v[d] = w[d] /\ d # b
      BY <1>3, <2>2
    <3>2. w[b] \in BspPlaces
      BY DEF BspPlaces
    <3>3. bsp[d] = b /\ Match(g, w[d], run[d], busy[d], requested[d], w[b])
      BY <3>1, <3>2, BspOfMember
    <3> QED
      BY <1>3, <2>2, <3>1, <3>3
  <2> QED
    BY <2>1, <2>2
<1>9. Flags(g, v)'
  <2> SUFFICES ASSUME NEW d \in Cpu
               PROVE  Own(g, v[d], run'[d], present'[d], busy'[d], requested'[d], mtrr'[d])
    BY DEF Flags
  <2>1. Own(g, w[d], run[d], present[d], busy[d], requested[d], mtrr[d])
    BY DEF Inv, Flags
  <2>2. CASE d = c
    BY <1>3, <2>2
  <2>3. CASE d # c /\ d # b
    BY <1>3, <2>1, <2>3
  <2>4. CASE d # c /\ d = b
    <3>1. /\ v[d] = w[d] /\ busy'[d] = busy[d] /\ requested'[d] = requested[d]
          /\ present'[d] = present[d] /\ mtrr'[d] = mtrr[d]
      BY <1>3, <2>4
    <3> QED
      BY <2>1, <2>4, <3>1 DEF Own
  <2> QED
    BY <2>2, <2>3, <2>4
<1>10. Reached(g, v)'
  <2>1. /\ q \notin 50 .. 96 /\ q # 0 /\ q # 5 /\ Reached(g, w)
        /\ allCpusInSync' = allCpusInSync /\ \A d \in Cpu \ {c} : smiPending[d] => smiPending'[d]
    BY DEF Inv
  <2> QED
    BY <1>1, <1>2, <2>1, ReachedKept
<1> QED
  BY <1>1, <1>4, <1>5, <1>6, <1>7, <1>8, <1>9, <1>10 DEF Inv

(***************************************************************************)
(* What an AP does fits the place p of its BSP before and after.           *)
(***************************************************************************)
LEMMA PresentFits ==
  ASSUME NEW g \in ConfigType, NEW r, NEW u, NEW q, NEW p \in 51 .. 93,
         Match(g, 20, r, u, q, p), OnPath(g, p), ~u, ~q,
         Gathers(g) \/ p \notin Assigning \cup Releasing
  PROVE  /\ Match(g, NextAt(g, 20), r, u, q, p)
         /\ 20 \notin Signalled(g, p) /\ NextAt(g, 20) \notin Signalled(g, p)
         /\ r = 0 /\ OnPath(g, NextAt(g, 20))
<1>1. CASE Gathers(g)
  <2>1. NextAt(g, 20) = 21
    BY <1>1 DEF NextAt
  <2>2. p \in 51 .. 57 /\ r = 0
    BY <1>1 DEF Match, Between, Released, LeavesLoop, Looping, Finishing, Assigning, Releasing, Drained, Idle, Working
  <2>3. Match(g, 21, r, u, q, p)
    BY <1>1, <2>2 DEF Match, Between
  <2> QED
    BY <1>1, <2>1, <2>2, <2>3 DEF Signalled, SignalledFrom, OnPath
<1>2. CASE ~Gathers(g)
  <2>1. NextAt(g, 20) = 30 /\ ~g.mtrrs
    BY <1>2 DEF NextAt, Gathers
  <2>2. p \in 51 .. 84 /\ r = 0
    BY <1>2 DEF Match, Between, Released, LeavesLoop, Looping, Finishing, Assigning, Releasing, Drained, Idle, Working
  <2>3. Match(g, 30, r, u, q, p)
    BY <1>2, <2>2 DEF Match, Looping, Finishing, Assigning, Releasing, Drained, Idle, OnPath
  <2> QED
    BY <1>2, <2>1, <2>2, <2>3 DEF Signalled, SignalledFrom, OnPath
<1> QED
  BY <1>1, <1>2

\* An AP that signals was not counted as having signalled, and is now.
LEMMA SignalFits ==
  ASSUME NEW g \in ConfigType, NEW r, NEW u, NEW q, NEW p \in 51 .. 93,
         NEW i \in {21, 24, 27, 29, 33, 36},
         Match(g, i, r, u, q, p), OnPath(g, p), OnPath(g, i),
         i = 29 => ~u, ~q
  PROVE  /\ Match(g, i + 1, r, u, q, p) /\ p \in 50 .. 91
         /\ i \notin Signalled(g, p) /\ i + 1 \in Signalled(g, p)
         /\ r = 0
<1> USE DEF Match, Between, Released, LeavesLoop, Looping, Finishing, Assigning, Releasing, Drained, Idle, Working, Signalled,
            SignalledFrom, OnPath, Gathers
<1>1. CASE i = 21
  BY <1>1
<1>2. CASE i = 24
  BY <1>2
<1>3. CASE i = 27
  BY <1>3
<1>4. CASE i = 29
  BY <1>4
<1>5. CASE i = 33
  BY <1>5
<1>6. CASE i = 36
  BY <1>6
<1> QED
  BY <1>1, <1>2, <1>3, <1>4, <1>5, <1>6

\* An AP at place i waits for the BSP and is released.
Waits(i, r) == i \in {22, 25, 28, 34, 37} /\ r > 0

\* An AP that is let through a barrier.
LEMMA WaitFits ==
  ASSUME NEW g \in ConfigType, NEW r \in Nat, NEW u, NEW q, NEW p \in 51 .. 93,
         NEW i, Waits(i, r),
         Match(g, i, r, u, q, p), OnPath(g, p), OnPath(g, i)
  PROVE  /\ Match(g, NextAt(g, i), 0, u, q, p) /\ OnPath(g, NextAt(g, i)) /\ r = 1
         /\ i \in Signalled(g, p) <=> NextAt(g, i) \in Signalled(g, p)
<1> USE DEF Match, Between, Released, LeavesLoop, Looping, Finishing, Assigning, Releasing, Drained, Idle, Working, Signalled,
            SignalledFrom, OnPath, Gathers, NextAt
<1>0. i \in {22, 25, 28, 34, 37} /\ r > 0
  BY DEF Waits
<1>1. CASE i = 22
  BY <1>0, <1>1
<1>2. CASE i = 25
  BY <1>0, <1>2
<1>3. CASE i = 28
  BY <1>0, <1>3
<1>4. CASE i = 34
  BY <1>0, <1>4
<1>5. CASE i = 37
  BY <1>0, <1>5
<1> HIDE DEF Match, Between, Released, LeavesLoop, Looping, Finishing, Assigning, Releasing, Drained, Idle, Working, Signalled,
             SignalledFrom, OnPath, Gathers, NextAt
<1> QED
  BY <1>0, <1>1, <1>2, <1>3, <1>4, <1>5

\* Steps that touch no semaphore: saving, programming and restoring MTRRs.
LEMMA MtrrFits ==
  ASSUME NEW g \in ConfigType, NEW r, NEW u, NEW q, NEW p \in 51 .. 93,
         NEW i \in {23, 26, 35, 38},
         Match(g, i, r, u, q, p), OnPath(g, p), OnPath(g, i)
  PROVE  /\ Match(g, i + 1, r, u, q, p) /\ OnPath(g, i + 1) /\ r = 0
         /\ i \in Signalled(g, p) <=> i + 1 \in Signalled(g, p)
<1> USE DEF Match, Between, Released, LeavesLoop, Looping, Finishing, Assigning, Releasing, Drained, Idle, Working, Signalled,
            SignalledFrom, OnPath, Gathers
<1>1. CASE i = 23
  BY <1>1
<1>2. CASE i = 26
  BY <1>2
<1>3. CASE i = 35
  BY <1>3
<1>4. CASE i = 38
  BY <1>4
<1> QED
  BY <1>1, <1>2, <1>3, <1>4

\* #8: an AP takes up what it was released for.
LEMMA WorkFits ==
  ASSUME NEW g \in ConfigType, NEW r \in Nat, NEW u, NEW q, NEW p \in 51 .. 93,
         r > 0, Match(g, 30, r, u, q, p), OnPath(g, p)
  PROVE  /\ Match(g, 31, 0, u, q, p) /\ r = 1
         /\ 30 \in Signalled(g, p) <=> 31 \in Signalled(g, p)
BY DEF Match, Between, Released, LeavesLoop, Looping, Finishing, Assigning, Releasing, Drained, Idle, Working, Signalled,
       SignalledFrom, OnPath, Gathers

\* What an AP finds in InsideSmm is what the BSP wants of it.
LEMMA CheckFits ==
  ASSUME NEW g \in ConfigType, NEW r \in Nat, NEW u, NEW q, NEW p \in 51 .. 93,
         Match(g, 31, r, u, q, p), OnPath(g, p)
  PROVE  /\ r = 0
         /\ p \in 51 .. 85 =>
              /\ Match(g, 32, r, u, q, p)
              /\ 31 \in Signalled(g, p) <=> 32 \in Signalled(g, p)
         /\ p \notin 51 .. 85 =>
              /\ Match(g, NextAt(g, 30), r, u, q, p)
              /\ OnPath(g, NextAt(g, 30)) /\ NextAt(g, 30) \in {33, 36, 38}
              /\ p \in 50 .. 91 =>
                   (31 \in Signalled(g, p) <=> NextAt(g, 30) \in Signalled(g, p))
              /\ ~q
<1> USE DEF Match, Between, Released, LeavesLoop, Looping, Finishing, Assigning, Releasing, Drained, Idle, Working, Signalled,
            SignalledFrom, OnPath, Gathers
<1>1. r = 0
  OBVIOUS
<1>2. CASE p \in 51 .. 85
  BY <1>2
<1>3. CASE p \notin 51 .. 85
  <2>1. p \in 87 .. 93 /\ ~q
    BY <1>3
  <2>2. CASE g.mtrrs
    <3>1. NextAt(g, 30) = 33
      BY <2>2 DEF NextAt
    <3>2. p = 87
      BY <2>1, <2>2
    <3> QED
      BY <1>1, <1>3, <2>1, <2>2, <3>1, <3>2
  <2>3. CASE ~g.mtrrs /\ g.debug
    <3>1. NextAt(g, 30) = 36
      BY <2>3 DEF NextAt
    <3>2. p = 90
      BY <2>1, <2>3
    <3> QED
      BY <1>1, <1>3, <2>1, <2>3, <3>1, <3>2
  <2>4. CASE ~g.mtrrs /\ ~g.debug
    <3>1. NextAt(g, 30) = 38
      BY <2>4 DEF NextAt
    <3>2. p \in 92 .. 93
      BY <2>1, <2>4
    <3> QED
      BY <1>1, <1>3, <2>1, <2>4, <3>1, <3>2
  <2> QED
    BY <2>2, <2>3, <2>4
<1> QED
  BY <1>1, <1>2, <1>3

\* An AP that runs a procedure was asked to, and the BSP is in the handlers or
\* waits for them.
LEMMA ProcedureFits ==
  ASSUME NEW g \in ConfigType, NEW r \in Nat, NEW u, NEW q, NEW p \in 51 .. 93,
         Match(g, 32, r, u, q, p), OnPath(g, p), q
  PROVE  Match(g, 32, r, u, FALSE, p) /\ r = 0
BY DEF Match, Between, Released, LeavesLoop, Looping, Finishing, Assigning, Releasing,
       Drained, Idle, Working, OnPath, Gathers

\* An AP that has run its procedure and releases its Busy lock fits.
LEMMA ReleaseBusyFits ==
  ASSUME NEW g \in ConfigType, NEW r \in Nat, NEW u, NEW p \in 51 .. 93,
         Match(g, 32, r, u, FALSE, p), OnPath(g, p)
  PROVE  /\ Match(g, 30, r, FALSE, FALSE, p)
         /\ 30 \in Signalled(g, p) <=> 32 \in Signalled(g, p)
<1> USE DEF Match, Between, Released, LeavesLoop, Looping, Finishing, Assigning, Releasing,
            Drained, Idle, Working
<1>1. Match(g, 30, r, FALSE, FALSE, p)
  BY DEF OnPath, Gathers
<1>2. 30 \in Signalled(g, p) <=> 32 \in Signalled(g, p)
  BY DEF Signalled, SignalledFrom, OnPath, Gathers
<1> QED
  BY <1>1, <1>2

\* What the invariant says of an AP and its BSP.
LEMMA ApFacts ==
  ASSUME NEW g, NEW w, Inv(g, w), NEW c \in Cpu, w[c] \in 20 .. 39
  PROVE  /\ bsp[c] \in Cpu /\ bsp[c] # c /\ w[bsp[c]] \in 51 .. 93
         /\ Match(g, w[c], run[c], busy[c], requested[c], w[bsp[c]])
         /\ OnPath(g, w[bsp[c]]) /\ OnPath(g, w[c])
         /\ Own(g, w[c], run[c], present[c], busy[c], requested[c], mtrr[c])
         /\ g \in ConfigType /\ run[c] \in Nat /\ run[bsp[c]] \in Nat
<1>1. bsp[c] \in Cpu /\ Match(g, w[c], run[c], busy[c], requested[c], w[bsp[c]])
  BY DEF Inv, Members
<1>2. w[bsp[c]] \in 51 .. 93
  BY <1>1 DEF Match
<1>3. bsp[c] # c
  BY <1>2
<1>4. OnPath(g, w[bsp[c]]) /\ OnPath(g, w[c])
  BY <1>1 DEF Inv, Where
<1>5. Own(g, w[c], run[c], present[c], busy[c], requested[c], mtrr[c])
  BY DEF Inv, Flags
<1>6. g \in ConfigType /\ run[c] \in Nat /\ run[bsp[c]] \in Nat
  BY <1>1, SmmAssumption DEF Inv, Typed
<1> QED
  BY <1>1, <1>2, <1>3, <1>4, <1>5, <1>6

\* What is left after a step.
LEMMA ContinuesAt ==
  ASSUME NEW g, NEW w \in [Cpu -> Places], Where(g, w), NEW c \in Cpu, w[c] # 0,
         Continue(c)
  PROVE  todo' = [todo EXCEPT ![c] = Rest(g, NextAt(g, w[c]))]
<1>1. w[c] \in Places \ {0}
  OBVIOUS
<1>2. Tail(todo[c]) = Rest(g, NextAt(g, w[c]))
  BY <1>1, FirstAndRest DEF Where
<1> QED
  BY <1>2 DEF Continue

\* SetPresent keeps the invariant.
LEMMA SetPresentKeeps ==
  ASSUME NEW g, NEW w, Inv(g, w), NEW c \in Cpu, SetPresent(c),
         Gathers(g) \/ w[bsp[c]] \notin Assigning \cup Releasing
  PROVE  \E v : Inv(g, v)'
<1>1. w \in [Cpu -> Places] /\ Where(g, w) /\ Typed
  BY DEF Inv
<1>2. w[c] = 20
  <2>1. At(c, "present")
    BY DEF SetPresent
  <2>2. w[c] \in Places \ {0} /\ StepAt(w[c]) = "present"
    BY <1>1, <2>1, AtPlace
  <2> QED
    BY <2>2, StepPlaces DEF PlacesOf
<1> DEFINE b == bsp[c]
           q == NextAt(g, w[c])
<1>3. /\ b \in Cpu /\ b # c /\ w[b] \in 51 .. 93
      /\ Match(g, w[c], run[c], busy[c], requested[c], w[b])
      /\ OnPath(g, w[b]) /\ OnPath(g, w[c])
      /\ Own(g, w[c], run[c], present[c], busy[c], requested[c], mtrr[c])
      /\ g \in ConfigType /\ run[c] \in Nat /\ run[b] \in Nat
  BY <1>2, ApFacts
<1>4. todo' = [todo EXCEPT ![c] = Rest(g, q)] /\ config' = config
  BY <1>1, <1>2, ContinuesAt DEF SetPresent
<1>5. q = 21 \/ (q = 30 /\ ~g.mtrrs)
  BY <1>2 DEF NextAt, Gathers
<1> HIDE DEF b, q
<1>6. /\ Match(g, q, run[c], busy[c], requested[c], w[b])
      /\ w[c] \notin Signalled(g, w[b]) /\ q \notin Signalled(g, w[b])
      /\ run[c] = 0 /\ OnPath(g, q)
  <2>1. ~busy[c] /\ ~requested[c]
    BY <1>2, <1>3 DEF Own
  <2>2. Gathers(g) \/ w[b] \notin Assigning \cup Releasing
    BY DEF b
  <2> QED
    BY <1>2, <1>3, <2>1, <2>2, PresentFits DEF q
<1>7. Typed'
  BY <1>1, <1>3, <1>6 DEF Typed, SetPresent, shared, cpuData, smi, local, b
<1>8. UNCHANGED <<cpuCount, insideSmm, bspIndex, allCpusInSync, smiPending,
                  apCount>>
  BY DEF SetPresent, shared, smi, local
<1>9. \A d \in Cpu \ {c} : /\ busy'[d] = busy[d] /\ requested'[d] = requested[d]
                           /\ present'[d] = present[d] /\ mtrr'[d] = mtrr[d]
                           /\ bsp'[d] = bsp[d]
                           /\ d # b => run'[d] = run[d]
  BY <1>1 DEF SetPresent, Typed, cpuData, local, b
<1>10. /\ present'[c] = TRUE /\ busy'[c] = busy[c] /\ requested'[c] = requested[c]
       /\ mtrr'[c] = mtrr[c] /\ run'[c] = run[c] /\ run'[b] = run[b] /\ bsp'[c] = b
  BY <1>1, <1>2, <1>3, <1>6 DEF SetPresent, Typed, cpuData, local, b
<1>11. Match(g, q, run'[c], busy'[c], requested'[c], w[b])
  BY <1>6, <1>10
<1>12. Own(g, q, run'[c], present'[c], busy'[c], requested'[c], mtrr'[c])
  BY <1>2, <1>3, <1>5, <1>10 DEF Own
<1>13. w[b] \in 50 .. 91 =>
         run'[b] = run[b] + (IF q \in Signalled(g, w[b]) THEN 1 ELSE 0)
                          - (IF w[c] \in Signalled(g, w[b]) THEN 1 ELSE 0)
  BY <1>3, <1>6, <1>10
<1>14. w[b] \in 92 .. 93 => run'[b] = run[b]
  BY <1>3, <1>6, <1>10
<1>15. q \in 20 .. 39 /\ OnPath(g, q) /\ w[c] \in {11, 13} \cup 20 .. 39 /\ bsp'[c] = b
  BY <1>2, <1>5, <1>6, <1>10
<1> QED
  BY <1>3, <1>4, <1>7, <1>8, <1>9, <1>11, <1>12, <1>13, <1>14, <1>15, ApMove,
     ZenonT(40)

\* WaitForBsp keeps the invariant.
LEMMA WaitForBspKeeps ==
  ASSUME NEW g, NEW w, Inv(g, w), NEW c \in Cpu, WaitForBsp(c)
  PROVE  \E v : Inv(g, v)'
<1>1. w \in [Cpu -> Places] /\ Where(g, w) /\ Typed
  BY DEF Inv
<1>2. w[c] \in {22, 25, 28, 34, 37}
  <2>1. At(c, "waitBsp")
    BY DEF WaitForBsp
  <2>2. w[c] \in Places \ {0} /\ StepAt(w[c]) = "waitBsp"
    BY <1>1, <2>1, AtPlace
  <2> QED
    BY <2>2, StepPlaces DEF PlacesOf
<1> DEFINE b == bsp[c]
           q == NextAt(g, w[c])
<1>3. /\ b \in Cpu /\ b # c /\ w[b] \in 51 .. 93
      /\ Match(g, w[c], run[c], busy[c], requested[c], w[b])
      /\ OnPath(g, w[b]) /\ OnPath(g, w[c])
      /\ Own(g, w[c], run[c], present[c], busy[c], requested[c], mtrr[c])
      /\ g \in ConfigType /\ run[c] \in Nat /\ run[b] \in Nat
  BY <1>2, ApFacts
<1>4. todo' = [todo EXCEPT ![c] = Rest(g, q)] /\ config' = config
  BY <1>1, <1>2, ContinuesAt DEF WaitForBsp
<1>5. /\ w[c] = 22 => q = 23 \/ (q = 29 /\ ~g.mtrrs)
      /\ w[c] # 22 => q = w[c] + 1
  <2>1. CASE w[c] = 22
    BY <2>1 DEF NextAt
  <2>2. CASE w[c] = 25
    BY <2>2 DEF NextAt
  <2>3. CASE w[c] = 28
    BY <2>3 DEF NextAt
  <2>4. CASE w[c] = 34
    BY <2>4 DEF NextAt
  <2>5. CASE w[c] = 37
    BY <2>5 DEF NextAt
  <2> QED
    BY <1>2, <2>1, <2>2, <2>3, <2>4, <2>5
<1> HIDE DEF b, q
<1>6. /\ Match(g, q, 0, busy[c], requested[c], w[b])
      /\ w[c] \in Signalled(g, w[b]) <=> q \in Signalled(g, w[b])
      /\ run[c] = 1 /\ OnPath(g, q)
  <2>1. Waits(w[c], run[c])
    BY <1>2 DEF WaitForBsp, Waits
  <2>2. /\ Match(g, NextAt(g, w[c]), 0, busy[c], requested[c], w[b])
        /\ OnPath(g, NextAt(g, w[c])) /\ run[c] = 1
        /\ w[c] \in Signalled(g, w[b]) <=> NextAt(g, w[c]) \in Signalled(g, w[b])
    BY <1>3, <2>1, WaitFits
  <2> QED
    BY <2>2 DEF q
<1>7. Typed'
  BY <1>1, <1>3, <1>6 DEF Typed, WaitForBsp, shared, cpuData, smi, local, b
<1>8. UNCHANGED <<cpuCount, insideSmm, bspIndex, allCpusInSync, smiPending,
                  apCount>>
  BY DEF WaitForBsp, shared, smi, local
<1>9. \A d \in Cpu \ {c} : /\ busy'[d] = busy[d] /\ requested'[d] = requested[d]
                           /\ present'[d] = present[d] /\ mtrr'[d] = mtrr[d]
                           /\ bsp'[d] = bsp[d]
                           /\ d # b => run'[d] = run[d]
  BY <1>1 DEF WaitForBsp, Typed, cpuData, local, b
<1>10. /\ present'[c] = present[c] /\ busy'[c] = busy[c] /\ requested'[c] = requested[c]
       /\ mtrr'[c] = mtrr[c] /\ run'[c] = 0 /\ run'[b] = run[b] /\ bsp'[c] = b
  BY <1>1, <1>2, <1>3, <1>6 DEF WaitForBsp, Typed, cpuData, local, b
<1>11. Match(g, q, run'[c], busy'[c], requested'[c], w[b])
  BY <1>6, <1>10
<1>12. Own(g, q, run'[c], present'[c], busy'[c], requested'[c], mtrr'[c])
  BY <1>2, <1>3, <1>5, <1>10 DEF Own
<1>13. w[b] \in 50 .. 91 =>
         run'[b] = run[b] + (IF q \in Signalled(g, w[b]) THEN 1 ELSE 0)
                          - (IF w[c] \in Signalled(g, w[b]) THEN 1 ELSE 0)
  BY <1>3, <1>6, <1>10
<1>14. w[b] \in 92 .. 93 => run'[b] = run[b]
  BY <1>3, <1>6, <1>10
<1>15. q \in 20 .. 39 /\ OnPath(g, q) /\ w[c] \in {11, 13} \cup 20 .. 39 /\ bsp'[c] = b
  BY <1>2, <1>5, <1>6, <1>10
<1> QED
  BY <1>3, <1>4, <1>7, <1>8, <1>9, <1>11, <1>12, <1>13, <1>14, <1>15, ApMove,
     ZenonT(40)

\* WaitForWork keeps the invariant.
LEMMA WaitForWorkKeeps ==
  ASSUME NEW g, NEW w, Inv(g, w), NEW c \in Cpu, WaitForWork(c)
  PROVE  \E v : Inv(g, v)'
<1>1. w \in [Cpu -> Places] /\ Where(g, w) /\ Typed
  BY DEF Inv
<1>2. w[c] = 30
  <2>1. At(c, "loop")
    BY DEF WaitForWork
  <2>2. w[c] \in Places \ {0} /\ StepAt(w[c]) = "loop"
    BY <1>1, <2>1, AtPlace
  <2> QED
    BY <2>2, StepPlaces DEF PlacesOf
<1> DEFINE b == bsp[c]
           q == 31
<1>3. /\ b \in Cpu /\ b # c /\ w[b] \in 51 .. 93
      /\ Match(g, w[c], run[c], busy[c], requested[c], w[b])
      /\ OnPath(g, w[b]) /\ OnPath(g, w[c])
      /\ Own(g, w[c], run[c], present[c], busy[c], requested[c], mtrr[c])
      /\ g \in ConfigType /\ run[c] \in Nat /\ run[b] \in Nat
  BY <1>2, ApFacts
<1>4. todo' = [todo EXCEPT ![c] = Rest(g, q)] /\ config' = config
  <2>1. todo[c] = Rest(g, 30)
    BY <1>1, <1>2 DEF Where
  <2>2. <<"check">> \o Rest(g, 30) = Rest(g, 31)
    BY DEF Rest, R31
  <2> QED
    BY <2>1, <2>2 DEF WaitForWork, Call
<1>5. q = 31
  OBVIOUS
<1> HIDE DEF b, q
<1>6. /\ Match(g, q, 0, busy[c], requested[c], w[b])
      /\ w[c] \in Signalled(g, w[b]) <=> q \in Signalled(g, w[b])
      /\ run[c] = 1 /\ OnPath(g, q)
  <2>1. run[c] > 0
    BY DEF WaitForWork
  <2>2. OnPath(g, q)
    BY <1>5 DEF OnPath
  <2> QED
    BY <1>2, <1>3, <2>1, <2>2, WorkFits DEF q
<1>7. Typed'
  BY <1>1, <1>3, <1>6 DEF Typed, WaitForWork, shared, cpuData, smi, local, b
<1>8. UNCHANGED <<cpuCount, insideSmm, bspIndex, allCpusInSync, smiPending,
                  apCount>>
  BY DEF WaitForWork, shared, smi, local
<1>9. \A d \in Cpu \ {c} : /\ busy'[d] = busy[d] /\ requested'[d] = requested[d]
                           /\ present'[d] = present[d] /\ mtrr'[d] = mtrr[d]
                           /\ bsp'[d] = bsp[d]
                           /\ d # b => run'[d] = run[d]
  BY <1>1 DEF WaitForWork, Typed, cpuData, local, b
<1>10. /\ present'[c] = present[c] /\ busy'[c] = busy[c] /\ requested'[c] = requested[c]
       /\ mtrr'[c] = mtrr[c] /\ run'[c] = 0 /\ run'[b] = run[b] /\ bsp'[c] = b
  BY <1>1, <1>2, <1>3, <1>6 DEF WaitForWork, Typed, cpuData, local, b
<1>11. Match(g, q, run'[c], busy'[c], requested'[c], w[b])
  BY <1>6, <1>10
<1>12. Own(g, q, run'[c], present'[c], busy'[c], requested'[c], mtrr'[c])
  BY <1>2, <1>3, <1>5, <1>10 DEF Own
<1>13. w[b] \in 50 .. 91 =>
         run'[b] = run[b] + (IF q \in Signalled(g, w[b]) THEN 1 ELSE 0)
                          - (IF w[c] \in Signalled(g, w[b]) THEN 1 ELSE 0)
  BY <1>3, <1>6, <1>10
<1>14. w[b] \in 92 .. 93 => run'[b] = run[b]
  BY <1>3, <1>6, <1>10
<1>15. q \in 20 .. 39 /\ OnPath(g, q) /\ w[c] \in {11, 13} \cup 20 .. 39 /\ bsp'[c] = b
  BY <1>2, <1>5, <1>6, <1>10
<1> QED
  BY <1>3, <1>4, <1>7, <1>8, <1>9, <1>11, <1>12, <1>13, <1>14, <1>15, ApMove,
     ZenonT(40)

\* ProcedureReturns keeps the invariant.
LEMMA ProcedureReturnsKeeps ==
  ASSUME NEW g, NEW w, Inv(g, w), NEW c \in Cpu, ProcedureReturns(c)
  PROVE  \E v : Inv(g, v)'
<1>1. w \in [Cpu -> Places] /\ Where(g, w) /\ Typed
  BY DEF Inv
<1>2. w[c] = 32
  <2>1. At(c, "procedure")
    BY DEF ProcedureReturns
  <2>2. w[c] \in Places \ {0} /\ StepAt(w[c]) = "procedure"
    BY <1>1, <2>1, AtPlace
  <2> QED
    BY <2>2, StepPlaces DEF PlacesOf
<1> DEFINE b == bsp[c]
           q == 32
<1>3. /\ b \in Cpu /\ b # c /\ w[b] \in 51 .. 93
      /\ Match(g, w[c], run[c], busy[c], requested[c], w[b])
      /\ OnPath(g, w[b]) /\ OnPath(g, w[c])
      /\ Own(g, w[c], run[c], present[c], busy[c], requested[c], mtrr[c])
      /\ g \in ConfigType /\ run[c] \in Nat /\ run[b] \in Nat
  BY <1>2, ApFacts
<1>4. todo' = [todo EXCEPT ![c] = Rest(g, q)] /\ config' = config
  <2>1. todo[c] = Rest(g, 32)
    BY <1>1, <1>2 DEF Where
  <2>2. todo' = todo /\ config' = config
    BY DEF ProcedureReturns
  <2>3. DOMAIN todo = Cpu /\ todo = [d \in Cpu |-> Rest(g, w[d])]
    BY <1>1 DEF Where
  <2> QED
    BY <2>1, <2>2, <2>3
<1>5. q = 32
  OBVIOUS
<1> HIDE DEF b, q
<1>6. /\ Match(g, q, run[c], busy[c], FALSE, w[b])
      /\ w[c] \in Signalled(g, w[b]) <=> q \in Signalled(g, w[b])
      /\ run[c] = 0 /\ OnPath(g, q)
  <2>1. OnPath(g, q)
    BY <1>5 DEF OnPath
  <2>2. Match(g, 32, run[c], busy[c], requested[c], w[b])
    BY <1>2, <1>3
  <2>3. requested[c]
    BY DEF ProcedureReturns
  <2>4. Match(g, 32, run[c], busy[c], FALSE, w[b]) /\ run[c] = 0
    BY <1>3, <2>2, <2>3, ProcedureFits, Zenon
  <2> QED
    BY <1>2, <1>5, <2>1, <2>4
<1>7. Typed'
  BY <1>1, <1>3, <1>6 DEF Typed, ProcedureReturns, shared, cpuData, smi, local, b
<1>8. UNCHANGED <<cpuCount, insideSmm, bspIndex, allCpusInSync, smiPending,
                  apCount>>
  BY DEF ProcedureReturns, shared, smi, local
<1>9. \A d \in Cpu \ {c} : /\ busy'[d] = busy[d] /\ requested'[d] = requested[d]
                           /\ present'[d] = present[d] /\ mtrr'[d] = mtrr[d]
                           /\ bsp'[d] = bsp[d]
                           /\ d # b => run'[d] = run[d]
  BY <1>1 DEF ProcedureReturns, Typed, cpuData, local, b
<1>10. /\ present'[c] = present[c] /\ busy'[c] = busy[c] /\ requested'[c] = FALSE
       /\ mtrr'[c] = mtrr[c] /\ run'[c] = run[c] /\ run'[b] = run[b] /\ bsp'[c] = b
  BY <1>1, <1>2, <1>3, <1>6 DEF ProcedureReturns, Typed, cpuData, local, b
<1>11. Match(g, q, run'[c], busy'[c], requested'[c], w[b])
  BY <1>6, <1>10
<1>12. Own(g, q, run'[c], present'[c], busy'[c], requested'[c], mtrr'[c])
  BY <1>2, <1>3, <1>5, <1>10 DEF Own
<1>13. w[b] \in 50 .. 91 =>
         run'[b] = run[b] + (IF q \in Signalled(g, w[b]) THEN 1 ELSE 0)
                          - (IF w[c] \in Signalled(g, w[b]) THEN 1 ELSE 0)
  BY <1>3, <1>6, <1>10
<1>14. w[b] \in 92 .. 93 => run'[b] = run[b]
  BY <1>3, <1>6, <1>10
<1>15. q \in 20 .. 39 /\ OnPath(g, q) /\ w[c] \in {11, 13} \cup 20 .. 39 /\ bsp'[c] = b
  BY <1>2, <1>5, <1>6, <1>10
<1> QED
  BY <1>3, <1>4, <1>7, <1>8, <1>9, <1>11, <1>12, <1>13, <1>14, <1>15, ApMove,
     ZenonT(40)

\* ReleaseBusy keeps the invariant.
LEMMA ReleaseBusyKeeps ==
  ASSUME NEW g, NEW w, Inv(g, w), NEW c \in Cpu, ReleaseBusy(c)
  PROVE  \E v : Inv(g, v)'
<1>1. w \in [Cpu -> Places] /\ Where(g, w) /\ Typed
  BY DEF Inv
<1>2. w[c] = 32
  <2>1. At(c, "procedure")
    BY DEF ReleaseBusy
  <2>2. w[c] \in Places \ {0} /\ StepAt(w[c]) = "procedure"
    BY <1>1, <2>1, AtPlace
  <2> QED
    BY <2>2, StepPlaces DEF PlacesOf
<1> DEFINE b == bsp[c]
           q == 30
<1>3. /\ b \in Cpu /\ b # c /\ w[b] \in 51 .. 93
      /\ Match(g, w[c], run[c], busy[c], requested[c], w[b])
      /\ OnPath(g, w[b]) /\ OnPath(g, w[c])
      /\ Own(g, w[c], run[c], present[c], busy[c], requested[c], mtrr[c])
      /\ g \in ConfigType /\ run[c] \in Nat /\ run[b] \in Nat
  BY <1>2, ApFacts
<1>4. todo' = [todo EXCEPT ![c] = Rest(g, q)] /\ config' = config
  <2>1. NextAt(g, w[c]) = 30
    BY <1>2 DEF NextAt
  <2> QED
    BY <1>1, <1>2, <2>1, ContinuesAt DEF ReleaseBusy
<1>5. q = 30
  OBVIOUS
<1> HIDE DEF b, q
<1>6. /\ Match(g, q, run[c], FALSE, FALSE, w[b])
      /\ w[c] \in Signalled(g, w[b]) <=> q \in Signalled(g, w[b])
      /\ OnPath(g, q) /\ requested[c] = FALSE
  <2>1. OnPath(g, q)
    BY <1>5 DEF OnPath
  <2>2. requested[c] = FALSE
    BY <1>1 DEF ReleaseBusy, Typed
  <2>3. Match(g, 32, run[c], busy[c], FALSE, w[b])
    BY <1>2, <1>3, <2>2
  <2>4. /\ Match(g, 30, run[c], FALSE, FALSE, w[b])
        /\ 30 \in Signalled(g, w[b]) <=> 32 \in Signalled(g, w[b])
    BY <1>3, <2>3, ReleaseBusyFits, Zenon
  <2> QED
    BY <1>2, <1>5, <2>1, <2>2, <2>4
<1>7. Typed'
  BY <1>1, <1>3, <1>6 DEF Typed, ReleaseBusy, shared, cpuData, smi, local, b
<1>8. UNCHANGED <<cpuCount, insideSmm, bspIndex, allCpusInSync, smiPending,
                  apCount>>
  BY DEF ReleaseBusy, shared, smi, local
<1>9. \A d \in Cpu \ {c} : /\ busy'[d] = busy[d] /\ requested'[d] = requested[d]
                           /\ present'[d] = present[d] /\ mtrr'[d] = mtrr[d]
                           /\ bsp'[d] = bsp[d]
                           /\ d # b => run'[d] = run[d]
  BY <1>1 DEF ReleaseBusy, Typed, cpuData, local, b
<1>10. /\ present'[c] = present[c] /\ busy'[c] = FALSE /\ requested'[c] = FALSE
       /\ mtrr'[c] = mtrr[c] /\ run'[c] = run[c] /\ run'[b] = run[b] /\ bsp'[c] = b
  BY <1>1, <1>2, <1>3, <1>6 DEF ReleaseBusy, Typed, cpuData, local, b
<1>11. Match(g, q, run'[c], busy'[c], requested'[c], w[b])
  BY <1>6, <1>10
<1>12. Own(g, q, run'[c], present'[c], busy'[c], requested'[c], mtrr'[c])
  BY <1>2, <1>3, <1>5, <1>10 DEF Own
<1>13. w[b] \in 50 .. 91 =>
         run'[b] = run[b] + (IF q \in Signalled(g, w[b]) THEN 1 ELSE 0)
                          - (IF w[c] \in Signalled(g, w[b]) THEN 1 ELSE 0)
  BY <1>3, <1>6, <1>10
<1>14. w[b] \in 92 .. 93 => run'[b] = run[b]
  BY <1>3, <1>6, <1>10
<1>15. q \in 20 .. 39 /\ OnPath(g, q) /\ w[c] \in {11, 13} \cup 20 .. 39 /\ bsp'[c] = b
  BY <1>2, <1>5, <1>6, <1>10
<1> QED
  BY <1>3, <1>4, <1>7, <1>8, <1>9, <1>11, <1>12, <1>13, <1>14, <1>15, ApMove,
     ZenonT(40)

\* An AP signals at a barrier.
LEMMA ReleaseBspSignalKeeps ==
  ASSUME NEW g, NEW w, Inv(g, w), NEW c \in Cpu, ReleaseBsp(c), w[c] # 39
  PROVE  \E v : Inv(g, v)'
<1>1. w \in [Cpu -> Places] /\ Where(g, w) /\ Typed
  BY DEF Inv
<1>2. w[c] \in {21, 24, 27, 29, 33, 36}
  <2>1. At(c, "signal")
    BY DEF ReleaseBsp
  <2>2. w[c] \in Places \ {0} /\ StepAt(w[c]) = "signal"
    BY <1>1, <2>1, AtPlace
  <2> QED
    BY <2>2, StepPlaces DEF PlacesOf
<1> DEFINE b == bsp[c]
           q == w[c] + 1
<1>3. /\ b \in Cpu /\ b # c /\ w[b] \in 51 .. 93
      /\ Match(g, w[c], run[c], busy[c], requested[c], w[b])
      /\ OnPath(g, w[b]) /\ OnPath(g, w[c])
      /\ Own(g, w[c], run[c], present[c], busy[c], requested[c], mtrr[c])
      /\ g \in ConfigType /\ run[c] \in Nat /\ run[b] \in Nat
  BY <1>2, ApFacts
<1>4. todo' = [todo EXCEPT ![c] = Rest(g, q)] /\ config' = config
  <2>1. NextAt(g, w[c]) = w[c] + 1
    <3>1. CASE w[c] = 21
      BY <3>1 DEF NextAt
    <3>2. CASE w[c] \in {24, 27, 29, 33, 36}
      BY <3>2 DEF NextAt
    <3> QED
      BY <1>2, <3>1, <3>2
  <2> QED
    BY <1>1, <1>2, <2>1, ContinuesAt DEF ReleaseBsp
<1>5. q = w[c] + 1
  OBVIOUS
<1> HIDE DEF b, q
<1>6. /\ Match(g, q, run[c], busy[c], requested[c], w[b])
      /\ w[c] \notin Signalled(g, w[b]) /\ q \in Signalled(g, w[b]) /\ w[b] \in 50 .. 91
      /\ run[c] = 0 /\ OnPath(g, q)
  <2>1. ~requested[c] /\ (w[c] = 29 => ~busy[c])
    BY <1>2, <1>3 DEF Own
  <2>2. OnPath(g, q)
    BY <1>2, <1>3, <1>5 DEF OnPath
  <2> QED
    BY <1>2, <1>3, <2>1, <2>2, SignalFits DEF q
<1>7. Typed'
  BY <1>1, <1>3, <1>6 DEF Typed, ReleaseBsp, shared, cpuData, smi, local, b
<1>8. UNCHANGED <<cpuCount, insideSmm, bspIndex, allCpusInSync, smiPending,
                  apCount>>
  BY DEF ReleaseBsp, shared, smi, local
<1>9. \A d \in Cpu \ {c} : /\ busy'[d] = busy[d] /\ requested'[d] = requested[d]
                           /\ present'[d] = present[d] /\ mtrr'[d] = mtrr[d]
                           /\ bsp'[d] = bsp[d]
                           /\ d # b => run'[d] = run[d]
  BY <1>1 DEF ReleaseBsp, Typed, cpuData, local, b
<1>10. /\ present'[c] = present[c] /\ busy'[c] = busy[c] /\ requested'[c] = requested[c]
       /\ mtrr'[c] = mtrr[c] /\ run'[c] = run[c] /\ run'[b] = run[b] + 1 /\ bsp'[c] = b
  BY <1>1, <1>2, <1>3, <1>6 DEF ReleaseBsp, Typed, cpuData, local, b
<1>11. Match(g, q, run'[c], busy'[c], requested'[c], w[b])
  BY <1>6, <1>10
<1>12. Own(g, q, run'[c], present'[c], busy'[c], requested'[c], mtrr'[c])
  BY <1>2, <1>3, <1>5, <1>10 DEF Own
<1>13. w[b] \in 50 .. 91 =>
         run'[b] = run[b] + (IF q \in Signalled(g, w[b]) THEN 1 ELSE 0)
                          - (IF w[c] \in Signalled(g, w[b]) THEN 1 ELSE 0)
  BY <1>3, <1>6, <1>10
<1>14. w[b] \in 92 .. 93 => run'[b] = run[b]
  BY <1>3, <1>6, <1>10
<1>15. q \in 20 .. 39 /\ OnPath(g, q) /\ w[c] \in {11, 13} \cup 20 .. 39 /\ bsp'[c] = b
  BY <1>2, <1>5, <1>6, <1>10
<1> QED
  BY <1>3, <1>4, <1>7, <1>8, <1>9, <1>11, <1>12, <1>13, <1>14, <1>15, ApMove,
     ZenonT(40)

\* An AP saves its MTRRs.
LEMMA ApBackupKeeps ==
  ASSUME NEW g, NEW w, Inv(g, w), NEW c \in Cpu, BackupMtrrs(c), w[c] # 58
  PROVE  \E v : Inv(g, v)'
<1>1. w \in [Cpu -> Places] /\ Where(g, w) /\ Typed
  BY DEF Inv
<1>2. w[c] = 23
  <2>1. At(c, "backup")
    BY DEF BackupMtrrs
  <2>2. w[c] \in Places \ {0} /\ StepAt(w[c]) = "backup"
    BY <1>1, <2>1, AtPlace
  <2> QED
    BY <2>2, StepPlaces DEF PlacesOf
<1> DEFINE b == bsp[c]
           q == w[c] + 1
<1>3. /\ b \in Cpu /\ b # c /\ w[b] \in 51 .. 93
      /\ Match(g, w[c], run[c], busy[c], requested[c], w[b])
      /\ OnPath(g, w[b]) /\ OnPath(g, w[c])
      /\ Own(g, w[c], run[c], present[c], busy[c], requested[c], mtrr[c])
      /\ g \in ConfigType /\ run[c] \in Nat /\ run[b] \in Nat
  BY <1>2, ApFacts
<1>4. todo' = [todo EXCEPT ![c] = Rest(g, q)] /\ config' = config
  <2>1. NextAt(g, w[c]) = w[c] + 1
    BY <1>2 DEF NextAt
  <2> QED
    BY <1>1, <1>2, <2>1, ContinuesAt DEF BackupMtrrs
<1>5. q = w[c] + 1
  OBVIOUS
<1> HIDE DEF b, q
<1>6. /\ Match(g, q, run[c], busy[c], requested[c], w[b])
      /\ w[c] \in Signalled(g, w[b]) <=> q \in Signalled(g, w[b])
      /\ run[c] = 0 /\ OnPath(g, q)
  BY <1>2, <1>3, MtrrFits DEF q
<1>7. Typed'
  BY <1>1, <1>3, <1>6 DEF Typed, BackupMtrrs, shared, cpuData, smi, local, b
<1>8. UNCHANGED <<cpuCount, insideSmm, bspIndex, allCpusInSync, smiPending,
                  apCount>>
  BY DEF BackupMtrrs, shared, smi, local
<1>9. \A d \in Cpu \ {c} : /\ busy'[d] = busy[d] /\ requested'[d] = requested[d]
                           /\ present'[d] = present[d] /\ mtrr'[d] = mtrr[d]
                           /\ bsp'[d] = bsp[d]
                           /\ d # b => run'[d] = run[d]
  BY <1>1 DEF BackupMtrrs, Typed, cpuData, local, b
<1>10. /\ present'[c] = present[c] /\ busy'[c] = busy[c] /\ requested'[c] = requested[c]
       /\ mtrr'[c] = mtrr[c] /\ run'[c] = run[c] /\ run'[b] = run[b] /\ bsp'[c] = b
  BY <1>1, <1>2, <1>3, <1>6 DEF BackupMtrrs, Typed, cpuData, local, b
<1>11. Match(g, q, run'[c], busy'[c], requested'[c], w[b])
  BY <1>6, <1>10
<1>12. Own(g, q, run'[c], present'[c], busy'[c], requested'[c], mtrr'[c])
  BY <1>2, <1>3, <1>5, <1>10 DEF Own
<1>13. w[b] \in 50 .. 91 =>
         run'[b] = run[b] + (IF q \in Signalled(g, w[b]) THEN 1 ELSE 0)
                          - (IF w[c] \in Signalled(g, w[b]) THEN 1 ELSE 0)
  BY <1>3, <1>6, <1>10
<1>14. w[b] \in 92 .. 93 => run'[b] = run[b]
  BY <1>3, <1>6, <1>10
<1>15. q \in 20 .. 39 /\ OnPath(g, q) /\ w[c] \in {11, 13} \cup 20 .. 39 /\ bsp'[c] = b
  BY <1>2, <1>5, <1>6, <1>10
<1> QED
  BY <1>3, <1>4, <1>7, <1>8, <1>9, <1>11, <1>12, <1>13, <1>14, <1>15, ApMove,
     ZenonT(40)

\* An AP clears its Present flag.
LEMMA ApAbsentKeeps ==
  ASSUME NEW g, NEW w, Inv(g, w), NEW c \in Cpu, ClearPresent(c), w[c] # 92
  PROVE  \E v : Inv(g, v)'
<1>1. w \in [Cpu -> Places] /\ Where(g, w) /\ Typed
  BY DEF Inv
<1>2. w[c] = 38
  <2>1. At(c, "absent")
    BY DEF ClearPresent
  <2>2. w[c] \in Places \ {0} /\ StepAt(w[c]) = "absent"
    BY <1>1, <2>1, AtPlace
  <2> QED
    BY <2>2, StepPlaces DEF PlacesOf
<1> DEFINE b == bsp[c]
           q == w[c] + 1
<1>3. /\ b \in Cpu /\ b # c /\ w[b] \in 51 .. 93
      /\ Match(g, w[c], run[c], busy[c], requested[c], w[b])
      /\ OnPath(g, w[b]) /\ OnPath(g, w[c])
      /\ Own(g, w[c], run[c], present[c], busy[c], requested[c], mtrr[c])
      /\ g \in ConfigType /\ run[c] \in Nat /\ run[b] \in Nat
  BY <1>2, ApFacts
<1>4. todo' = [todo EXCEPT ![c] = Rest(g, q)] /\ config' = config
  <2>1. NextAt(g, w[c]) = w[c] + 1
    BY <1>2 DEF NextAt
  <2> QED
    BY <1>1, <1>2, <2>1, ContinuesAt DEF ClearPresent
<1>5. q = w[c] + 1
  OBVIOUS
<1> HIDE DEF b, q
<1>6. /\ Match(g, q, run[c], busy[c], requested[c], w[b])
      /\ w[c] \in Signalled(g, w[b]) <=> q \in Signalled(g, w[b])
      /\ run[c] = 0 /\ OnPath(g, q)
  BY <1>2, <1>3, MtrrFits DEF q
<1>7. Typed'
  BY <1>1, <1>3, <1>6 DEF Typed, ClearPresent, shared, cpuData, smi, local, b
<1>8. UNCHANGED <<cpuCount, insideSmm, bspIndex, allCpusInSync, smiPending,
                  apCount>>
  BY DEF ClearPresent, shared, smi, local
<1>9. \A d \in Cpu \ {c} : /\ busy'[d] = busy[d] /\ requested'[d] = requested[d]
                           /\ present'[d] = present[d] /\ mtrr'[d] = mtrr[d]
                           /\ bsp'[d] = bsp[d]
                           /\ d # b => run'[d] = run[d]
  BY <1>1 DEF ClearPresent, Typed, cpuData, local, b
<1>10. /\ present'[c] = FALSE /\ busy'[c] = busy[c] /\ requested'[c] = requested[c]
       /\ mtrr'[c] = mtrr[c] /\ run'[c] = run[c] /\ run'[b] = run[b] /\ bsp'[c] = b
  BY <1>1, <1>2, <1>3, <1>6 DEF ClearPresent, Typed, cpuData, local, b
<1>11. Match(g, q, run'[c], busy'[c], requested'[c], w[b])
  BY <1>6, <1>10
<1>12. Own(g, q, run'[c], present'[c], busy'[c], requested'[c], mtrr'[c])
  BY <1>2, <1>3, <1>5, <1>10 DEF Own
<1>13. w[b] \in 50 .. 91 =>
         run'[b] = run[b] + (IF q \in Signalled(g, w[b]) THEN 1 ELSE 0)
                          - (IF w[c] \in Signalled(g, w[b]) THEN 1 ELSE 0)
  BY <1>3, <1>6, <1>10
<1>14. w[b] \in 92 .. 93 => run'[b] = run[b]
  BY <1>3, <1>6, <1>10
<1>15. q \in 20 .. 39 /\ OnPath(g, q) /\ w[c] \in {11, 13} \cup 20 .. 39 /\ bsp'[c] = b
  BY <1>2, <1>5, <1>6, <1>10
<1> QED
  BY <1>3, <1>4, <1>7, <1>8, <1>9, <1>11, <1>12, <1>13, <1>14, <1>15, ApMove,
     ZenonT(40)

\* An AP changes its MTRRs.
LEMMA ApSetMtrrsKeeps ==
  ASSUME NEW g, NEW w, Inv(g, w), NEW c \in Cpu, SetMtrrs(c), w[c] # 61, w[c] # 89
  PROVE  \E v : Inv(g, v)'
<1>1. w \in [Cpu -> Places] /\ Where(g, w) /\ Typed
  BY DEF Inv
<1>2. w[c] \in {26, 35} /\ (w[c] = 26 <=> At(c, "program"))
  <2>1. At(c, "program") \/ At(c, "restore")
    BY DEF SetMtrrs
  <2>2. CASE At(c, "program")
    <3>1. w[c] \in Places \ {0} /\ StepAt(w[c]) = "program"
      BY <1>1, <2>2, AtPlace
    <3>2. w[c] = 26
      BY <3>1, StepPlaces DEF PlacesOf
    <3> QED
      BY <2>2, <3>2
  <2>3. CASE ~At(c, "program")
    <3>1. w[c] \in Places \ {0} /\ StepAt(w[c]) = "restore"
      BY <1>1, <2>1, <2>3, AtPlace
    <3>2. w[c] = 35
      BY <3>1, StepPlaces DEF PlacesOf
    <3> QED
      BY <2>3, <3>2
  <2> QED
    BY <2>2, <2>3
<1> DEFINE b == bsp[c]
           q == w[c] + 1
<1>3. /\ b \in Cpu /\ b # c /\ w[b] \in 51 .. 93
      /\ Match(g, w[c], run[c], busy[c], requested[c], w[b])
      /\ OnPath(g, w[b]) /\ OnPath(g, w[c])
      /\ Own(g, w[c], run[c], present[c], busy[c], requested[c], mtrr[c])
      /\ g \in ConfigType /\ run[c] \in Nat /\ run[b] \in Nat
  BY <1>2, ApFacts
<1>4. todo' = [todo EXCEPT ![c] = Rest(g, q)] /\ config' = config
  <2>1. NextAt(g, w[c]) = w[c] + 1
    <3>1. CASE w[c] = 26
      BY <3>1 DEF NextAt
    <3>2. CASE w[c] \in {35}
      BY <3>2 DEF NextAt
    <3> QED
      BY <1>2, <3>1, <3>2
  <2> QED
    BY <1>1, <1>2, <2>1, ContinuesAt DEF SetMtrrs
<1>5. q = w[c] + 1
  OBVIOUS
<1> HIDE DEF b, q
<1>6. /\ Match(g, q, run[c], busy[c], requested[c], w[b])
      /\ w[c] \in Signalled(g, w[b]) <=> q \in Signalled(g, w[b])
      /\ run[c] = 0 /\ OnPath(g, q)
  BY <1>2, <1>3, MtrrFits DEF q
<1>7. Typed'
  BY <1>1, <1>3, <1>6 DEF Typed, SetMtrrs, shared, cpuData, smi, local, b
<1>8. UNCHANGED <<cpuCount, insideSmm, bspIndex, allCpusInSync, smiPending,
                  apCount>>
  BY DEF SetMtrrs, shared, smi, local
<1>9. \A d \in Cpu \ {c} : /\ busy'[d] = busy[d] /\ requested'[d] = requested[d]
                           /\ present'[d] = present[d] /\ mtrr'[d] = mtrr[d]
                           /\ bsp'[d] = bsp[d]
                           /\ d # b => run'[d] = run[d]
  BY <1>1 DEF SetMtrrs, Typed, cpuData, local, b
<1>10. /\ present'[c] = present[c] /\ busy'[c] = busy[c] /\ requested'[c] = requested[c]
       /\ run'[c] = run[c] /\ run'[b] = run[b] /\ bsp'[c] = b
       /\ mtrr'[c] = (IF w[c] = 26 THEN "smm" ELSE "os")
  BY <1>1, <1>2, <1>3, <1>6 DEF SetMtrrs, Typed, cpuData, local, b
<1>11. Match(g, q, run'[c], busy'[c], requested'[c], w[b])
  BY <1>6, <1>10
<1>12. Own(g, q, run'[c], present'[c], busy'[c], requested'[c], mtrr'[c])
  BY <1>2, <1>3, <1>5, <1>10 DEF Own
<1>13. w[b] \in 50 .. 91 =>
         run'[b] = run[b] + (IF q \in Signalled(g, w[b]) THEN 1 ELSE 0)
                          - (IF w[c] \in Signalled(g, w[b]) THEN 1 ELSE 0)
  BY <1>3, <1>6, <1>10
<1>14. w[b] \in 92 .. 93 => run'[b] = run[b]
  BY <1>3, <1>6, <1>10
<1>15. q \in 20 .. 39 /\ OnPath(g, q) /\ w[c] \in {11, 13} \cup 20 .. 39 /\ bsp'[c] = b
  BY <1>2, <1>5, <1>6, <1>10
<1> QED
  BY <1>3, <1>4, <1>7, <1>8, <1>9, <1>11, <1>12, <1>13, <1>14, <1>15, ApMove,
     ZenonT(40)

\* CheckExit keeps the invariant.
LEMMA CheckExitKeeps ==
  ASSUME NEW g, NEW w, Inv(g, w), NEW c \in Cpu, CheckExit(c)
  PROVE  \E v : Inv(g, v)'
<1>1. w \in [Cpu -> Places] /\ Where(g, w) /\ Typed
  BY DEF Inv
<1>2. w[c] = 31
  <2>1. At(c, "check")
    BY DEF CheckExit
  <2>2. w[c] \in Places \ {0} /\ StepAt(w[c]) = "check"
    BY <1>1, <2>1, AtPlace
  <2> QED
    BY <2>2, StepPlaces DEF PlacesOf
<1> DEFINE b == bsp[c]
           q == IF insideSmm THEN 32 ELSE NextAt(g, 30)
<1>3. /\ b \in Cpu /\ b # c /\ w[b] \in 51 .. 93
      /\ Match(g, w[c], run[c], busy[c], requested[c], w[b])
      /\ OnPath(g, w[b]) /\ OnPath(g, w[c])
      /\ Own(g, w[c], run[c], present[c], busy[c], requested[c], mtrr[c])
      /\ g \in ConfigType /\ run[c] \in Nat /\ run[b] \in Nat
  BY <1>2, ApFacts
<1>4. todo' = [todo EXCEPT ![c] = Rest(g, q)] /\ config' = config
  <2>1. todo[c] = Rest(g, 31)
    BY <1>1, <1>2 DEF Where
  <2>2. Tail(Rest(g, 31)) = Rest(g, 30)
    <3>1. NextAt(g, 31) = 30 /\ 31 \in Places \ {0}
      BY DEF NextAt, Places
    <3> QED
      BY <3>1, FirstAndRest
  <2>3. Tail(Rest(g, 30)) = Rest(g, NextAt(g, 30))
    <3>1. 30 \in Places \ {0}
      BY DEF Places
    <3> QED
      BY <3>1, FirstAndRest
  <2>4. <<"procedure">> \o Rest(g, 30) = Rest(g, 32)
    BY DEF Rest, R32
  <2>5. CASE insideSmm
    BY <2>1, <2>2, <2>4, <2>5 DEF CheckExit, Goto
  <2>6. CASE ~insideSmm
    BY <2>1, <2>2, <2>3, <2>6 DEF CheckExit, Goto
  <2> QED
    BY <2>5, <2>6
<1>5. /\ insideSmm => q = 32
      /\ ~insideSmm => q = NextAt(g, 30)
      /\ NextAt(g, 30) = 33 \/ (~g.mtrrs /\ NextAt(g, 30) \in {36, 38})
      /\ insideSmm <=> w[b] \in 51 .. 85
  <2>1. NextAt(g, 30) = 33 \/ (~g.mtrrs /\ NextAt(g, 30) \in {36, 38})
    BY DEF NextAt
  <2>2. insideSmm <=> w[b] \in 51 .. 85
    <3>1. /\ \A d \in Cpu : w[d] \in 51 .. 85 => insideSmm
          /\ insideSmm => \E d \in Cpu : w[d] \in 51 .. 85
          /\ \A d, e \in Cpu : w[d] \in BspPlaces /\ w[e] \in BspPlaces => d = e
      BY DEF Inv, Leader
    <3> QED
      BY <1>3, <3>1 DEF BspPlaces
  <2> QED
    BY <2>1, <2>2
<1> HIDE DEF b, q
<1>6. /\ Match(g, q, run[c], busy[c], requested[c], w[b])
      /\ w[b] \in 50 .. 91 => (w[c] \in Signalled(g, w[b]) <=> q \in Signalled(g, w[b]))
      /\ run[c] = 0 /\ OnPath(g, q) /\ (~insideSmm => ~requested[c])
  <2>1. OnPath(g, 32)
    BY DEF OnPath
  <2> DEFINE t == NextAt(g, 30)
  <2> HIDE DEF t
  <2>2. /\ run[c] = 0
        /\ w[b] \in 51 .. 85 =>
             /\ Match(g, 32, run[c], busy[c], requested[c], w[b])
             /\ 31 \in Signalled(g, w[b]) <=> 32 \in Signalled(g, w[b])
        /\ w[b] \notin 51 .. 85 =>
             /\ Match(g, t, run[c], busy[c], requested[c], w[b])
             /\ OnPath(g, t)
             /\ w[b] \in 50 .. 91 => (31 \in Signalled(g, w[b]) <=> t \in Signalled(g, w[b]))
             /\ ~requested[c]
    <3>1. Match(g, 31, run[c], busy[c], requested[c], w[b])
      BY <1>2, <1>3
    <3> DEFINE r == run[c]
               u == busy[c]
               n == requested[c]
               p == w[b]
    <3>2. /\ r \in Nat /\ p \in 51 .. 93 /\ Match(g, 31, r, u, n, p) /\ OnPath(g, p)
          /\ g \in ConfigType
      BY <1>3, <3>1
    <3> HIDE DEF r, u, n, p
    <3>3. /\ r = 0
          /\ p \in 51 .. 85 =>
               /\ Match(g, 32, r, u, n, p)
               /\ 31 \in Signalled(g, p) <=> 32 \in Signalled(g, p)
          /\ p \notin 51 .. 85 =>
               /\ Match(g, t, r, u, n, p)
               /\ OnPath(g, t)
               /\ p \in 50 .. 91 => (31 \in Signalled(g, p) <=> t \in Signalled(g, p))
               /\ ~n
      BY <3>2, CheckFits DEF t
    <3> QED
      BY <3>3 DEF r, u, n, p
  <2>3. CASE insideSmm
    BY <1>2, <1>5, <2>1, <2>2, <2>3
  <2>4. CASE ~insideSmm
    <3>1. q = t
      BY <1>5, <2>4 DEF t
    <3> QED
      BY <1>2, <1>5, <2>2, <2>4, <3>1
  <2> QED
    BY <2>3, <2>4
<1>7. Typed'
  BY <1>1, <1>3, <1>6 DEF Typed, CheckExit, shared, cpuData, smi, local, b
<1>8. UNCHANGED <<cpuCount, insideSmm, bspIndex, allCpusInSync, smiPending,
                  apCount>>
  BY DEF CheckExit, shared, smi, local
<1>9. \A d \in Cpu \ {c} : /\ busy'[d] = busy[d] /\ requested'[d] = requested[d]
                           /\ present'[d] = present[d] /\ mtrr'[d] = mtrr[d]
                           /\ bsp'[d] = bsp[d]
                           /\ d # b => run'[d] = run[d]
  BY <1>1 DEF CheckExit, Typed, cpuData, local, b
<1>10. /\ present'[c] = present[c] /\ busy'[c] = busy[c] /\ requested'[c] = requested[c]
       /\ mtrr'[c] = mtrr[c] /\ run'[c] = run[c] /\ run'[b] = run[b] /\ bsp'[c] = b
  BY <1>1, <1>2, <1>3, <1>6 DEF CheckExit, Typed, cpuData, local, b
<1>11. Match(g, q, run'[c], busy'[c], requested'[c], w[b])
  BY <1>6, <1>10
<1>12. Own(g, q, run'[c], present'[c], busy'[c], requested'[c], mtrr'[c])
  BY <1>2, <1>3, <1>5, <1>6, <1>10 DEF Own
<1>13. w[b] \in 50 .. 91 =>
         run'[b] = run[b] + (IF q \in Signalled(g, w[b]) THEN 1 ELSE 0)
                          - (IF w[c] \in Signalled(g, w[b]) THEN 1 ELSE 0)
  BY <1>3, <1>6, <1>10
<1>14. w[b] \in 92 .. 93 => run'[b] = run[b]
  BY <1>3, <1>6, <1>10
<1>15. q \in 20 .. 39 /\ OnPath(g, q) /\ w[c] \in {11, 13} \cup 20 .. 39 /\ bsp'[c] = b
  BY <1>2, <1>5, <1>6, <1>10
<1> QED
  BY <1>3, <1>4, <1>7, <1>8, <1>9, <1>11, <1>12, <1>13, <1>14, <1>15, ApMove,
     ZenonT(40)

\* BspArrived keeps the invariant.
LEMMA BspArrivedKeeps ==
  ASSUME NEW g, NEW w, Inv(g, w), NEW c \in Cpu, BspArrived(c)
  PROVE  \E v : Inv(g, v)'
<1>1. w \in [Cpu -> Places] /\ Where(g, w) /\ Typed
  BY DEF Inv
<1>2. w[c] \in {11, 13}
  <2>1. PICK s \in {"await", "await2"} : At(c, s)
    BY DEF BspArrived
  <2>2. w[c] \in Places \ {0} /\ StepAt(w[c]) = s
    BY <1>1, <2>1, AtPlace
  <2> QED
    BY <2>2, StepPlaces DEF PlacesOf
<1>3. PICK b \in Cpu : w[b] \in 51 .. 85
  BY DEF BspArrived, Inv, Leader
<1>4. bspIndex = b /\ g \in ConfigType
  <2>1. g \in ConfigType
    BY SmmAssumption DEF Inv
  <2>2. CASE g.election
    BY <1>3, <2>1, <2>2 DEF Inv, Leader
  <2>3. CASE ~g.election
    BY <1>3, <2>1, <2>3 DEF Inv, Leader, BspPlaces
  <2> QED
    BY <2>1, <2>2, <2>3
<1>5. ~IsGathered(g, w[b]) /\ OnPath(g, w[b]) /\ run[b] \in Nat
  BY <1>1, <1>2, <1>3 DEF Inv, Quiesced, Where, Typed
<1>6. todo' = [todo EXCEPT ![c] = Rest(g, 20)] /\ config' = config
  <2>1. ApProgram = Rest(g, 20)
    BY <1>1, <1>4, ApProgramPlace DEF Where
  <2> QED
    BY <2>1 DEF BspArrived, Goto
<1>7. bsp' = [bsp EXCEPT ![c] = b] /\ bsp'[c] = b
  BY <1>1, <1>4 DEF BspArrived, Typed
<1>8. Typed'
  BY <1>1, <1>3, <1>7 DEF Typed, BspArrived, shared, cpuData, smi
<1>9. UNCHANGED <<cpuCount, insideSmm, bspIndex, allCpusInSync, smiPending,
                  apCount, run, busy, requested, present, mtrr>>
  BY DEF BspArrived, shared, cpuData, smi
<1>10. \A d \in Cpu \ {c} : /\ busy'[d] = busy[d] /\ requested'[d] = requested[d]
                            /\ present'[d] = present[d] /\ mtrr'[d] = mtrr[d]
                            /\ bsp'[d] = bsp[d]
                            /\ d # b => run'[d] = run[d]
  BY <1>1, <1>7, <1>9 DEF Typed
<1>11. Own(g, w[c], run[c], present[c], busy[c], requested[c], mtrr[c])
  BY DEF Inv, Flags
<1>12. Match(g, 20, run'[c], busy'[c], requested'[c], w[b])
  <2>1. run[c] = 0
    BY <1>2, <1>11 DEF Own
  <2>2. CASE Gathers(g)
    <3>1. w[b] \in 51 .. 56
      BY <1>3, <1>5, <2>2 DEF IsGathered
    <3> QED
      BY <1>9, <2>1, <2>2, <3>1 DEF Match, Between
  <2>3. CASE ~Gathers(g)
    <3>1. w[b] \in 51 .. 84
      BY <1>3, <1>5, <2>3 DEF IsGathered
    <3> QED
      BY <1>9, <2>1, <2>3, <3>1 DEF Match, Between
  <2> QED
    BY <2>2, <2>3
<1>13. Own(g, 20, run'[c], present'[c], busy'[c], requested'[c], mtrr'[c])
  BY <1>2, <1>9, <1>11 DEF Own
<1>14. w[b] \in 50 .. 91 =>
         run'[b] = run[b] + (IF 20 \in Signalled(g, w[b]) THEN 1 ELSE 0)
                          - (IF w[c] \in Signalled(g, w[b]) THEN 1 ELSE 0)
  <2>1. 20 \notin Signalled(g, w[b]) /\ w[c] \notin Signalled(g, w[b])
    BY <1>2 DEF Signalled, SignalledFrom
  <2> QED
    BY <1>5, <1>9, <2>1
<1>15. w[b] \in 92 .. 93 => run'[b] = run[b]
  BY <1>9
<1>16. 20 \in 20 .. 39 /\ OnPath(g, 20) /\ w[c] \in {11, 13} \cup 20 .. 39 /\ w[b] \in 51 .. 93
  BY <1>2, <1>3 DEF OnPath
<1>17. UNCHANGED <<cpuCount, insideSmm, bspIndex, allCpusInSync, smiPending, apCount>>
  BY <1>9
<1> QED
  BY <1>6, <1>7, <1>8, <1>10, <1>12, <1>13, <1>14, <1>15, <1>16, <1>17, ApMove

\* The last signal of an AP, with which it leaves APHandler.
LEMMA ReleaseBspLastKeeps ==
  ASSUME NEW g, NEW w, Inv(g, w), NEW c \in Cpu, ReleaseBsp(c), w[c] = 39
  PROVE  \E v : Inv(g, v)'
<1>1. w \in [Cpu -> Places] /\ Where(g, w) /\ Typed /\ g \in Configs
  BY DEF Inv
<1> DEFINE b == bsp[c]
           v == [w EXCEPT ![c] = 5]
<1>2. /\ b \in Cpu /\ b # c /\ w[b] \in 51 .. 93
      /\ Match(g, w[c], run[c], busy[c], requested[c], w[b])
      /\ OnPath(g, w[b]) /\ OnPath(g, w[c])
      /\ Own(g, w[c], run[c], present[c], busy[c], requested[c], mtrr[c])
      /\ g \in ConfigType /\ run[c] \in Nat /\ run[b] \in Nat
  BY ApFacts
<1>3. Moved(w, v, c, 5)
  BY DEF Moved
<1>4. v[c] = 5 /\ v[b] = w[b] /\ \A d \in Cpu \ {c} : v[d] = w[d]
  BY <1>1, <1>2
<1> HIDE DEF b, v
<1>5. w[b] \in 92 .. 93 /\ run[c] = 0
  BY <1>2 DEF Match, Between, Released, LeavesLoop, Looping, Finishing, Assigning, Releasing, Drained, Idle, Working
<1>6. /\ run' = [run EXCEPT ![b] = @ + 1]
      /\ UNCHANGED <<cpuCount, insideSmm, bspIndex, allCpusInSync, smiPending, apCount,
                     busy, requested, present, mtrr, bsp>>
  BY DEF ReleaseBsp, shared, cpuData, smi, local, b
<1>7. run'[b] = run[b] + 1 /\ \A d \in Cpu \ {b} : run'[d] = run[d]
  BY <1>1, <1>2, <1>6 DEF Typed
<1>8. Typed'
  BY <1>1, <1>2, <1>6 DEF Typed, ReleaseBsp, shared, cpuData, smi, local
<1>9. v \in [Cpu -> Places] /\ Where(g, v)'
  <2>1. NextAt(g, w[c]) = 5 /\ w[c] # 0 /\ Continue(c) /\ config' = config
    BY DEF NextAt, ReleaseBsp
  <2>2. OnPath(g, 5)
    BY DEF OnPath
  <2> QED
    BY <1>1, <1>3, <2>1, <2>2, WhereContinue
<1>10. Leader(g, v)'
  <2>1. /\ w[c] \in BspPlaces <=> 5 \in BspPlaces
        /\ w[c] \in 50 .. 94 <=> 5 \in 50 .. 94
        /\ w[c] \in 51 .. 85 <=> 5 \in 51 .. 85
    BY DEF BspPlaces
  <2>2. /\ Leader(g, w) /\ bspIndex \in Cpu \cup {NoBsp} /\ 5 \in Places
        /\ bspIndex' = bspIndex /\ insideSmm' = insideSmm
    BY <1>6 DEF Inv, Typed, Places
  <2> QED
    BY <1>1, <1>3, <2>1, <2>2, LeaderKept
<1>11. Quiesced(g, v)'
  <2>1. /\ 5 \notin 50 .. 96 /\ 5 # 9 /\ 5 \notin 10 .. 13 /\ 5 \notin 20 .. 39
        /\ Quiesced(g, w) /\ 5 \in Places
    BY DEF Inv, Places
  <2> QED
    BY <1>1, <1>3, <2>1, QuiescedKept
<1>12. \A d \in Cpu \ {b} : w[d] \notin BspPlaces
  BY <1>2 DEF Inv, Leader, BspPlaces
<1>13. Counts(g, v)'
  <2>1. Count(v, ApPlaces) =   Count(w, ApPlaces) + (IF 5 \in ApPlaces THEN 1 ELSE 0)
                             - (IF w[c] \in ApPlaces THEN 1 ELSE 0)
    <3>1. 5 \in Places
      BY DEF Places
    <3> QED
      BY <1>1, <1>3, <3>1, CountMove
  <2>2. 5 \notin ApPlaces /\ w[c] \in ApPlaces
    BY DEF ApPlaces
  <2>3. Count(w, ApPlaces) \in Nat
    BY CountType
  <2>4. IsLocked(g, w[b])
    BY <1>5 DEF IsLocked
  <2>5. cpuCount = Locked /\ run[b] + Count(w, ApPlaces) = apCount
    BY <1>2, <1>5, <2>4 DEF Inv, Counts
  <2>6. ASSUME NEW d \in Cpu
        PROVE  /\ IsLocked(g, v[d]) => cpuCount' = Locked
               /\ IsLocked(g, v[d]) /\ v[d] < 92 => apCount' = Count(v, ApPlaces)
               /\ v[d] \in 50 .. 91 => run'[d] = Count(v, Signalled(g, v[d]))
               /\ v[d] \in 92 .. 93 => run'[d] + Count(v, ApPlaces) = apCount'
    <3>1. CASE d = b
      BY <1>2, <1>4, <1>5, <1>6, <1>7, <2>1, <2>2, <2>3, <2>5, <3>1
    <3>2. CASE d # b
      <4>1. v[d] \notin BspPlaces
        BY <1>4, <1>12, <3>2 DEF BspPlaces
      <4> QED
        BY <4>1 DEF BspPlaces, IsLocked
    <3> QED
      BY <3>1, <3>2
  <2>7. ~ \A d \in Cpu : ~IsLocked(g, v[d])
    BY <1>2, <1>4, <2>4
  <2> QED
    BY <2>6, <2>7 DEF Counts
<1>14. Members(g, v)'
  <2> SUFFICES ASSUME NEW d \in Cpu, v[d] \in 20 .. 39
               PROVE  /\ bsp'[d] \in Cpu
                      /\ Match(g, v[d], run'[d], busy'[d], requested'[d], v[bsp'[d]])
    BY DEF Members
  <2>1. d # c /\ v[d] = w[d] /\ d # b
    BY <1>4, <1>5
  <2>2. w[b] \in BspPlaces
    BY <1>5 DEF BspPlaces
  <2>3. bsp[d] = b /\ Match(g, w[d], run[d], busy[d], requested[d], w[b])
    BY <1>2, <2>1, <2>2, BspOfMember
  <2> QED
    BY <1>2, <1>4, <1>6, <1>7, <2>1, <2>3
<1>15. Flags(g, v)'
  <2> SUFFICES ASSUME NEW d \in Cpu
               PROVE  Own(g, v[d], run'[d], present'[d], busy'[d], requested'[d], mtrr'[d])
    BY DEF Flags
  <2>1. Own(g, w[d], run[d], present[d], busy[d], requested[d], mtrr[d])
    BY DEF Inv, Flags
  <2>2. CASE d = c
    BY <1>2, <1>4, <1>5, <1>6, <1>7, <2>1, <2>2 DEF Own
  <2>3. CASE d # c /\ d # b
    BY <1>4, <1>6, <1>7, <2>1, <2>3
  <2>4. CASE d = b
    BY <1>4, <1>5, <1>6, <2>1, <2>4 DEF Own
  <2> QED
    BY <2>2, <2>3, <2>4
<1>16. Reached(g, v)'
  <2>1. /\ 5 \notin 50 .. 96 /\ 5 # 0 /\ Reached(g, w) /\ 5 \in Places
        /\ allCpusInSync' = allCpusInSync /\ \A d \in Cpu \ {c} : smiPending[d] => smiPending'[d]
    BY <1>6 DEF Inv, Places
  <2>2. \A d \in Cpu : w[d] \notin 53 .. 85
    BY <1>5, <1>12 DEF BspPlaces
  <2> QED
    BY <1>1, <1>3, <2>1, <2>2, ReachedKept
<1> QED
  BY <1>1, <1>8, <1>9, <1>10, <1>11, <1>13, <1>14, <1>15, <1>16 DEF Inv

(***************************************************************************)
(* The BSP moves in BSPHandler.                                            *)
(***************************************************************************)
LEMMA OnlyBsp ==
  ASSUME NEW g, NEW w, Inv(g, w), NEW b \in Cpu, w[b] \in BspPlaces
  PROVE  \A d \in Cpu \ {b} : w[d] \notin BspPlaces
BY DEF Inv, Leader

\* A move of the BSP in BSPHandler changes no count by places.
LEMMA BspCountSame ==
  ASSUME NEW w \in [Cpu -> Places], NEW b \in Cpu, NEW q \in 51 .. 94,
         NEW v, Moved(w, v, b, q), w[b] \in 50 .. 93
  PROVE  /\ Count(v, CheckedIn) = Count(w, CheckedIn)
         /\ Count(v, ApPlaces) = Count(w, ApPlaces)
         /\ \A g, p : Count(v, Signalled(g, p)) = Count(w, Signalled(g, p))
<1>1. q \in Places
  BY DEF Places
<1>2. Count(v, CheckedIn) = Count(w, CheckedIn)
  <2>1. w[b] \in CheckedIn /\ q \in CheckedIn
    BY DEF CheckedIn
  <2>2. Count(v, CheckedIn) =   Count(w, CheckedIn) + (IF q \in CheckedIn THEN 1 ELSE 0)
                              - (IF w[b] \in CheckedIn THEN 1 ELSE 0)
    BY <1>1, CountMove
  <2>3. Count(w, CheckedIn) \in Nat
    BY CountType
  <2> QED
    BY <2>1, <2>2, <2>3
<1>3. ASSUME NEW S, w[b] \notin S, q \notin S
      PROVE  Count(v, S) = Count(w, S)
  <2>1. Count(v, S) = Count(w, S) + (IF q \in S THEN 1 ELSE 0)
                                  - (IF w[b] \in S THEN 1 ELSE 0)
    BY <1>1, CountMove
  <2>2. Count(w, S) \in Nat
    BY CountType
  <2> QED
    BY <1>3, <2>1, <2>2
<1>4. Count(v, ApPlaces) = Count(w, ApPlaces)
  <2>1. w[b] \notin ApPlaces /\ q \notin ApPlaces
    BY DEF ApPlaces
  <2> QED
    BY <1>3, <2>1
<1>5. ASSUME NEW g, NEW p
      PROVE  Count(v, Signalled(g, p)) = Count(w, Signalled(g, p))
  <2>1. w[b] \notin Signalled(g, p) /\ q \notin Signalled(g, p)
    BY DEF Signalled, SignalledFrom
  <2> QED
    BY <1>3, <2>1
<1> QED
  BY <1>2, <1>4, <1>5

\* The counts when the BSP moves.
LEMMA BspCounts ==
  ASSUME NEW g, NEW w, Inv(g, w), NEW b \in Cpu, NEW q \in 51 .. 94,
         NEW v, Moved(w, v, b, q), w[b] \in 50 .. 93,
         IsLocked(g, w[b]) => IsLocked(g, q),
         cpuCount' = IF IsLocked(g, q) THEN Locked ELSE cpuCount,
         IsLocked(g, q) /\ q < 92 => apCount' = Count(w, ApPlaces),
         q \in 50 .. 91 => run'[b] = Count(w, Signalled(g, q)),
         q \in 92 .. 93 => run'[b] + Count(w, ApPlaces) = apCount'
  PROVE  Counts(g, v)'
<1>1. w \in [Cpu -> Places]
  BY DEF Inv
<1>2. v[b] = q /\ \A d \in Cpu \ {b} : v[d] = w[d]
  BY <1>1 DEF Moved
<1>3. \A d \in Cpu \ {b} : v[d] \notin BspPlaces
  BY <1>2, OnlyBsp DEF BspPlaces
<1>4. \A d \in Cpu \ {b} : w[d] \notin BspPlaces
  BY <1>2, <1>3
<1>5. /\ Count(v, CheckedIn) = Count(w, CheckedIn)
      /\ Count(v, ApPlaces) = Count(w, ApPlaces)
      /\ Count(v, Signalled(g, q)) = Count(w, Signalled(g, q))
  BY <1>1, BspCountSame
<1>6. (\A d \in Cpu : ~IsLocked(g, v[d])) => cpuCount' = Count(v, CheckedIn)
  <2>1. SUFFICES ASSUME \A d \in Cpu : ~IsLocked(g, v[d])
                 PROVE  cpuCount' = Count(v, CheckedIn)
    OBVIOUS
  <2>2. ~IsLocked(g, q) /\ ~IsLocked(g, w[b])
    BY <1>2, <2>1
  <2>3. \A d \in Cpu : ~IsLocked(g, w[d])
    BY <1>2, <2>1, <2>2
  <2>4. cpuCount = Count(w, CheckedIn)
    BY <2>3 DEF Inv, Counts
  <2> QED
    BY <1>5, <2>2, <2>4
<1>7. ASSUME NEW d \in Cpu
      PROVE  /\ IsLocked(g, v[d]) => cpuCount' = Locked
             /\ IsLocked(g, v[d]) /\ v[d] < 92 => apCount' = Count(v, ApPlaces)
             /\ v[d] \in 50 .. 91 => run'[d] = Count(v, Signalled(g, v[d]))
             /\ v[d] \in 92 .. 93 => run'[d] + Count(v, ApPlaces) = apCount'
  <2>1. CASE d = b
    BY <1>2, <1>5, <2>1
  <2>2. CASE d # b
    BY <1>3, <2>2 DEF BspPlaces, IsLocked
  <2> QED
    BY <2>1, <2>2
<1> QED
  BY <1>6, <1>7 DEF Counts

\* Whom the BSP leaves behind when it moves.
LEMMA BspQuiesced ==
  ASSUME NEW g, NEW w, Inv(g, w), NEW b \in Cpu, NEW q \in 51 .. 94,
         NEW v, Moved(w, v, b, q), w[b] \in 50 .. 93,
         \/ w[b] \in 52 .. 93
         \/ q = 51
         \/ \A d \in Cpu : w[d] # 9 /\ w[d] # 96,
         \/ IsGathered(g, q) => IsGathered(g, w[b])
         \/ \A d \in Cpu : w[d] \notin 10 .. 13,
         q = 94 => \A d \in Cpu : w[d] \notin ApPlaces
  PROVE  Quiesced(g, v)'
<1>1. w \in [Cpu -> Places]
  BY DEF Inv
<1>2. v[b] = q /\ \A d \in Cpu \ {b} : v[d] = w[d]
  BY <1>1 DEF Moved
<1>3. \A d \in Cpu \ {b} : v[d] \notin BspPlaces
  BY <1>2, OnlyBsp DEF BspPlaces
<1> SUFFICES ASSUME NEW e \in Cpu, NEW d \in Cpu
             PROVE  /\ v[e] \in 52 .. 95 => v[d] # 9 /\ v[d] # 96
                    /\ IsGathered(g, v[e]) => v[d] \notin 10 .. 13
                    /\ v[e] \in 94 .. 95 => v[d] \notin ApPlaces
  BY DEF Quiesced
<1>4. CASE e # b
  BY <1>3, <1>4 DEF BspPlaces, IsGathered
<1>5. CASE e = b /\ d = b
  BY <1>2, <1>5 DEF ApPlaces
<1>6. CASE e = b /\ d # b
  <2>1. v[e] = q /\ v[d] = w[d]
    BY <1>2, <1>6
  <2>2. /\ w[b] \in 52 .. 95 => w[d] # 9 /\ w[d] # 96
        /\ IsGathered(g, w[b]) => w[d] \notin 10 .. 13
    BY DEF Inv, Quiesced
  <2> QED
    BY <2>1, <2>2
<1> QED
  BY <1>4, <1>5, <1>6

\* Everybody stays called in when the BSP moves.
LEMMA BspReached ==
  ASSUME NEW g, NEW w, Inv(g, w), NEW b \in Cpu, NEW q \in 51 .. 94,
         NEW v, Moved(w, v, b, q), w[b] \in 50 .. 93,
         Gathers(g) /\ q \in 55 .. 94 => allCpusInSync',
         Gathers(g) /\ q \in 53 .. 85 =>
           \A d \in Cpu : /\ w[d] = 0 => smiPending'[d]
                          /\ w[d] = 5 => smiPending'[d] \/ allCpusInSync'
  PROVE  Reached(g, v)'
<1>1. w \in [Cpu -> Places]
  BY DEF Inv
<1>2. v[b] = q /\ \A d \in Cpu \ {b} : v[d] = w[d]
  BY <1>1 DEF Moved
<1>3. \A d \in Cpu \ {b} : v[d] \notin BspPlaces
  BY <1>2, OnlyBsp DEF BspPlaces
<1> SUFFICES ASSUME Gathers(g), NEW e \in Cpu
             PROVE  /\ v[e] \in 55 .. 95 => allCpusInSync'
                    /\ v[e] \in 53 .. 85 =>
                         \A d \in Cpu :
                           /\ v[d] = 0 => smiPending'[d]
                           /\ v[d] = 5 => smiPending'[d] \/ allCpusInSync'
  BY DEF Reached
<1>4. CASE e # b
  BY <1>3, <1>4 DEF BspPlaces
<1>5. CASE e = b
  <2>1. v[e] \in 55 .. 95 => allCpusInSync'
    BY <1>2, <1>5
  <2>2. ASSUME v[e] \in 53 .. 85, NEW d \in Cpu
        PROVE  /\ v[d] = 0 => smiPending'[d]
               /\ v[d] = 5 => smiPending'[d] \/ allCpusInSync'
    <3>1. CASE d = b
      BY <1>2, <3>1
    <3>2. CASE d # b
      BY <1>2, <1>5, <2>2, <3>2
    <3> QED
      BY <3>1, <3>2
  <2> QED
    BY <2>1, <2>2
<1> QED
  BY <1>4, <1>5

\* The BSP moves in BSPHandler.
LEMMA BspMove ==
  ASSUME NEW g, NEW w, Inv(g, w), NEW b \in Cpu, NEW q \in 51 .. 94,
         NEW v, Moved(w, v, b, q), w[b] \in 50 .. 93, OnPath(g, q),
         config' = config, todo' = [todo EXCEPT ![b] = Rest(g, q)], Typed',
         Counts(g, v)', Quiesced(g, v)', Reached(g, v)',
         UNCHANGED <<bspIndex, bsp>>,
         insideSmm' <=> q \in 51 .. 85,
         \A d \in Cpu \ {b} : /\ present'[d] = present[d] /\ mtrr'[d] = mtrr[d]
                              /\ w[d] \notin 20 .. 39 =>
                                   /\ run'[d] = run[d] /\ busy'[d] = busy[d]
                                   /\ requested'[d] = requested[d],
         \A d \in Cpu : w[d] \in 20 .. 39 =>
           /\ Match(g, w[d], run'[d], busy'[d], requested'[d], q)
           /\ Own(g, w[d], run'[d], present[d], busy'[d], requested'[d], mtrr[d]),
         Own(g, q, run'[b], present'[b], busy'[b], requested'[b], mtrr'[b])
  PROVE  \E x : Inv(g, x)'
<1>1. w \in [Cpu -> Places] /\ g \in Configs /\ q \in Places /\ Where(g, w)
  BY DEF Inv, Places
<1>2. v[b] = q /\ \A d \in Cpu \ {b} : v[d] = w[d]
  BY <1>1 DEF Moved
<1>3. v \in [Cpu -> Places] /\ Where(g, v)'
  BY <1>1, WhereGoto
<1>4. \A d \in Cpu \ {b} : v[d] \notin BspPlaces
  BY <1>2, OnlyBsp DEF BspPlaces
<1>5. Leader(g, v)'
  <2>1. \A d, e \in Cpu : v[d] \in BspPlaces /\ v[e] \in BspPlaces => d = e
    BY <1>4
  <2>2. ~g.election => /\ bspIndex' = BootBsp
                       /\ \A d \in Cpu : v[d] \in BspPlaces => d = BootBsp
    BY <1>4 DEF Inv, Leader, BspPlaces
  <2>3. g.election => /\ \A d \in Cpu : v[d] \in 50 .. 94 => bspIndex' = d
                      /\ bspIndex' # NoBsp => v[bspIndex'] \in 50 .. 94
    <3>1. g.election => bspIndex' = b
      BY DEF Inv, Leader
    <3> QED
      BY <1>2, <1>4, <3>1 DEF BspPlaces
  <2>4. \A d \in Cpu : v[d] \in 51 .. 85 => insideSmm'
    BY <1>2, <1>4 DEF BspPlaces
  <2>5. insideSmm' => \E d \in Cpu : v[d] \in 51 .. 85
    BY <1>2
  <2> QED
    BY <2>1, <2>2, <2>3, <2>4, <2>5 DEF Leader
<1>6. Members(g, v)'
  <2> SUFFICES ASSUME NEW d \in Cpu, v[d] \in 20 .. 39
               PROVE  /\ bsp'[d] \in Cpu
                      /\ Match(g, v[d], run'[d], busy'[d], requested'[d], v[bsp'[d]])
    BY DEF Members
  <2>1. d # b /\ v[d] = w[d]
    BY <1>2
  <2>2. bsp[d] = b
    BY <2>1, BspOfMember DEF BspPlaces
  <2> QED
    BY <1>2, <2>1, <2>2
<1>7. Flags(g, v)'
  <2> SUFFICES ASSUME NEW d \in Cpu
               PROVE  Own(g, v[d], run'[d], present'[d], busy'[d], requested'[d], mtrr'[d])
    BY DEF Flags
  <2>1. CASE d = b
    BY <1>2, <2>1
  <2>2. CASE d # b /\ w[d] \in 20 .. 39
    BY <1>2, <2>2
  <2>3. CASE d # b /\ w[d] \notin 20 .. 39
    <3>1. Own(g, w[d], run[d], present[d], busy[d], requested[d], mtrr[d])
      BY DEF Inv, Flags
    <3> QED
      BY <1>2, <2>3, <3>1
  <2> QED
    BY <2>1, <2>2, <2>3
<1>8. Inv(g, v)'
  BY <1>1, <1>3, <1>5, <1>6, <1>7 DEF Inv
<1> QED
  BY <1>8

\* What a step of the BSP b to place q has to keep: the counts, ...
BspCounted(g, w, b, q) ==
  /\ IsLocked(g, w[b]) => IsLocked(g, q)
  /\ cpuCount' = IF IsLocked(g, q) THEN Locked ELSE cpuCount
  /\ IsLocked(g, q) /\ q < 92 => apCount' = Count(w, ApPlaces)
  /\ q \in 50 .. 91 => run'[b] = Count(w, Signalled(g, q))
  /\ q \in 92 .. 93 => run'[b] + Count(w, ApPlaces) = apCount'

\* ... whom it has left behind, ...
Settled(g, w, b, q) ==
  /\ \/ w[b] \in 52 .. 93
     \/ q = 51
     \/ \A d \in Cpu : w[d] # 9 /\ w[d] # 96
  /\ \/ IsGathered(g, q) => IsGathered(g, w[b])
     \/ \A d \in Cpu : w[d] \notin 10 .. 13
  /\ q = 94 => \A d \in Cpu : w[d] \notin ApPlaces

\* ... that everybody is called in, ...
CalledIn(g, w, q) ==
  /\ Gathers(g) /\ q \in 55 .. 94 => allCpusInSync'
  /\ Gathers(g) /\ q \in 53 .. 85 =>
       \A d \in Cpu : /\ w[d] = 0 => smiPending'[d]
                      /\ w[d] = 5 => smiPending'[d] \/ allCpusInSync'

\* ... the variables of the processors that are not in APHandler, ...
OthersKept(w, b) ==
  \A d \in Cpu \ {b} : /\ present'[d] = present[d] /\ mtrr'[d] = mtrr[d]
                       /\ w[d] \notin 20 .. 39 =>
                            /\ run'[d] = run[d] /\ busy'[d] = busy[d]
                            /\ requested'[d] = requested[d]

\* ... those of the processors that are ...
MembersFit(g, w, q) ==
  \A d \in Cpu : w[d] \in 20 .. 39 =>
    /\ Match(g, w[d], run'[d], busy'[d], requested'[d], q)
    /\ Own(g, w[d], run'[d], present[d], busy'[d], requested'[d], mtrr[d])

\* ... and its own.
BspFits(g, b, q) ==
  Own(g, q, run'[b], present'[b], busy'[b], requested'[b], mtrr'[b])

\* The same from the named conditions.
LEMMA BspGo ==
  ASSUME NEW g, NEW w, Inv(g, w), NEW b \in Cpu, NEW q \in 51 .. 94,
         w[b] \in 50 .. 93, OnPath(g, q),
         config' = config, todo' = [todo EXCEPT ![b] = Rest(g, q)], Typed',
         UNCHANGED <<bspIndex, bsp>>, insideSmm' <=> q \in 51 .. 85,
         BspCounted(g, w, b, q), Settled(g, w, b, q), CalledIn(g, w, q),
         OthersKept(w, b), MembersFit(g, w, q), BspFits(g, b, q)
  PROVE  \E x : Inv(g, x)'
<1> DEFINE v == [w EXCEPT ![b] = q]
<1>1. Moved(w, v, b, q)
  BY DEF Moved
<1> HIDE DEF v
<1>2. Counts(g, v)'
  BY <1>1, BspCounts DEF BspCounted
<1>3. Quiesced(g, v)'
  BY <1>1, BspQuiesced DEF Settled
<1>4. Reached(g, v)'
  BY <1>1, BspReached DEF CalledIn
<1> QED
  BY <1>1, <1>2, <1>3, <1>4, BspMove DEF OthersKept, MembersFit, BspFits

\* What is known of the BSP b.
LEMMA BspFacts ==
  ASSUME NEW g, NEW w, Inv(g, w), NEW b \in Cpu, w[b] \in 50 .. 93
  PROVE  /\ g \in ConfigType /\ OnPath(g, w[b]) /\ run[b] \in Nat
         /\ insideSmm <=> w[b] \in 51 .. 85
         /\ cpuCount = IF IsLocked(g, w[b]) THEN Locked ELSE Count(w, CheckedIn)
         /\ IsLocked(g, w[b]) /\ w[b] < 92 => apCount = Count(w, ApPlaces)
         /\ w[b] \in 50 .. 91 => run[b] = Count(w, Signalled(g, w[b]))
         /\ w[b] \in 92 .. 93 => run[b] + Count(w, ApPlaces) = apCount
         /\ Own(g, w[b], run[b], present[b], busy[b], requested[b], mtrr[b])
         /\ \A d \in Cpu \ {b} : w[d] \notin BspPlaces
         /\ \A d \in Cpu : w[d] \in 20 .. 39 =>
              /\ Match(g, w[d], run[d], busy[d], requested[d], w[b])
              /\ Own(g, w[d], run[d], present[d], busy[d], requested[d], mtrr[d])
              /\ d # b
         /\ w \in [Cpu -> Places] /\ Where(g, w) /\ Typed
<1>1. w[b] \in BspPlaces
  BY DEF BspPlaces
<1>2. \A d \in Cpu \ {b} : w[d] \notin BspPlaces
  BY <1>1, OnlyBsp
<1>3. g \in ConfigType /\ OnPath(g, w[b]) /\ run[b] \in Nat
  BY SmmAssumption DEF Inv, Where, Typed
<1>4. insideSmm <=> w[b] \in 51 .. 85
  BY <1>2 DEF Inv, Leader, BspPlaces
<1>5. cpuCount = IF IsLocked(g, w[b]) THEN Locked ELSE Count(w, CheckedIn)
  <2>1. \A d \in Cpu \ {b} : ~IsLocked(g, w[d])
    BY <1>2 DEF IsLocked, BspPlaces
  <2> QED
    BY <2>1 DEF Inv, Counts
<1>6. /\ IsLocked(g, w[b]) /\ w[b] < 92 => apCount = Count(w, ApPlaces)
      /\ w[b] \in 50 .. 91 => run[b] = Count(w, Signalled(g, w[b]))
      /\ w[b] \in 92 .. 93 => run[b] + Count(w, ApPlaces) = apCount
  BY DEF Inv, Counts
<1>7. \A d \in Cpu : Own(g, w[d], run[d], present[d], busy[d], requested[d], mtrr[d])
  BY DEF Inv, Flags
<1>8. \A d \in Cpu : w[d] \in 20 .. 39 =>
        Match(g, w[d], run[d], busy[d], requested[d], w[b])
  BY <1>1, BspOfMember
<1> QED
  BY <1>2, <1>3, <1>4, <1>5, <1>6, <1>7, <1>8 DEF Inv

\* A step of the BSP that passes no barrier and leaves the counts alone.
Quietly(g, p, q) ==
  /\ p \in 53 .. 89 /\ q \in 54 .. 90
  /\ IsLocked(g, p) <=> IsLocked(g, q)
  /\ SignalledFrom(g, p) = SignalledFrom(g, q)
  /\ Gathers(g) /\ IsGathered(g, q) => IsGathered(g, p)
  /\ Gathers(g) /\ q >= 55 => p >= 54
  /\ Gathers(g) /\ q <= 85 => p <= 85

\* The BSP moves and passes no barrier.
LEMMA BspQuiet ==
  ASSUME NEW g, NEW w, Inv(g, w), NEW b \in Cpu, NEW q,
         Quietly(g, w[b], q), OnPath(g, q),
         config' = config, todo' = [todo EXCEPT ![b] = Rest(g, q)], Typed',
         UNCHANGED <<bspIndex, bsp, cpuCount, apCount, smiPending>>,
         run'[b] = run[b], insideSmm' <=> q \in 51 .. 85,
         ~Gathers(g) /\ q >= 85 => \A d \in Cpu : w[d] \notin 10 .. 13,
         allCpusInSync' = (allCpusInSync \/ w[b] \in {54, 82}),
         OthersKept(w, b), MembersFit(g, w, q), BspFits(g, b, q)
  PROVE  \E x : Inv(g, x)'
<1>1. /\ q \in 54 .. 90 /\ w[b] \in 53 .. 89
      /\ IsLocked(g, w[b]) <=> IsLocked(g, q)
      /\ SignalledFrom(g, w[b]) = SignalledFrom(g, q)
      /\ Gathers(g) /\ IsGathered(g, q) => IsGathered(g, w[b])
      /\ Gathers(g) /\ q >= 55 => w[b] >= 54
      /\ Gathers(g) /\ q <= 85 => w[b] <= 85
  BY DEF Quietly
<1>2. /\ cpuCount = IF IsLocked(g, w[b]) THEN Locked ELSE Count(w, CheckedIn)
      /\ IsLocked(g, w[b]) /\ w[b] < 92 => apCount = Count(w, ApPlaces)
      /\ w[b] \in 50 .. 91 => run[b] = Count(w, Signalled(g, w[b]))
  BY <1>1, BspFacts
<1>3. BspCounted(g, w, b, q)
  <2>1. Signalled(g, w[b]) = Signalled(g, q)
    BY <1>1 DEF Signalled
  <2> QED
    BY <1>1, <1>2, <2>1 DEF BspCounted
<1>4. Settled(g, w, b, q)
  <2>1. ~Gathers(g) /\ q < 85 => ~IsGathered(g, q)
    BY DEF IsGathered
  <2> QED
    BY <1>1, <2>1 DEF Settled
<1>5. CalledIn(g, w, q)
  <2>1. Gathers(g) => /\ w[b] \in 55 .. 95 => allCpusInSync
                      /\ w[b] \in 53 .. 85 =>
                           \A d \in Cpu : /\ w[d] = 0 => smiPending[d]
                                          /\ w[d] = 5 => smiPending[d] \/ allCpusInSync
    BY DEF Inv, Reached
  <2>2. /\ allCpusInSync => allCpusInSync'
        /\ w[b] = 54 => allCpusInSync'
        /\ smiPending' = smiPending
    OBVIOUS
  <2>3. /\ Gathers(g) /\ q \in 55 .. 94 => w[b] = 54 \/ w[b] \in 55 .. 95
        /\ Gathers(g) /\ q \in 53 .. 85 => w[b] \in 53 .. 85
    BY <1>1
  <2> QED
    BY <2>1, <2>2, <2>3 DEF CalledIn
<1>6. q \in 51 .. 94 /\ w[b] \in 50 .. 93 /\ UNCHANGED <<bspIndex, bsp>>
  BY <1>1
<1> QED
  BY <1>3, <1>4, <1>5, <1>6, BspGo

\* The next place is on the path of the configuration.
LEMMA NextOnPath ==
  ASSUME NEW g \in ConfigType, NEW p \in 50 .. 91, OnPath(g, p)
  PROVE  OnPath(g, NextAt(g, p))
<1> USE DEF OnPath, Gathers
<1>1. CASE p = 51
  BY <1>1 DEF NextAt
<1>2. CASE p = 57
  BY <1>2 DEF NextAt
<1>3. CASE p \in {66, 67, 71, 74, 77, 81}
  BY <1>3 DEF NextAt
<1>4. CASE p = 76
  BY <1>4 DEF NextAt
<1>5. CASE p = 86
  BY <1>5 DEF NextAt
<1>6. CASE p \notin {51, 57, 66, 67, 71, 74, 76, 77, 81, 86}
  <2>1. NextAt(g, p) = p + 1
    BY <1>6 DEF NextAt
  <2> QED
    BY <1>6, <2>1
<1> QED
  BY <1>1, <1>2, <1>3, <1>4, <1>5, <1>6

\* The members of a rendezvous fit the place the BSP goes to.
Follows(g, i, u, q, p, s) ==
  \/ p = 51 /\ s \in {52, 65} /\ s = NextAt(g, 51)
  \/ p = 52 /\ s \in {53, 54}
  \/ p \in {53, 54, 55, 58, 61, 65, 82, 83, 85, 89} /\ s = p + 1
  \/ p = 66 /\ s \in {66, 67, 68, 72, 75}
  \/ p \in {67, 71} /\ s = 66
  \/ p \in {75, 81} /\ s = 76 /\ (i # 20 => ~u)
  \/ p = 76 /\ s \in {76, 77, 78, NextAt(g, 76)}
  \/ p = 77 /\ s = 76 /\ ~q
  \/ p = 84 /\ s = 85 /\ i # 20
  \/ p = 92 /\ s = 93

\* An AP fits the next place of the BSP where nothing changes for it.
LEMMA MoveFits ==
  ASSUME NEW g \in ConfigType, NEW i \in 20 .. 39, NEW r \in Nat, NEW u \in BOOLEAN,
         NEW q \in BOOLEAN,
         NEW p, NEW s, OnPath(g, p), OnPath(g, s), OnPath(g, i),
         Match(g, i, r, u, q, p), Follows(g, i, u, q, p, s)
  PROVE  Match(g, i, r, u, q, s)
<1> USE DEF Match, Between, Released, LeavesLoop, Looping, Finishing, Assigning, Releasing, Drained, Idle, Working,
            OnPath, Gathers
<1>1. CASE p = 51 /\ s \in {52, 65} /\ s = NextAt(g, 51)
  BY <1>1 DEF NextAt
<1>2. CASE p = 52 /\ s \in {53, 54}
  BY <1>2
<1>3. CASE p \in {53, 54, 55} /\ s = p + 1
  BY <1>3
<1>4. CASE p = 58 /\ s = 59
  BY <1>4
<1>5. CASE p = 61 /\ s = 62
  BY <1>5
<1>6. CASE p = 65 /\ s = 66
  BY <1>6
<1>7. CASE p \in {82, 83} /\ s = p + 1
  BY <1>7
<1>8. CASE p = 85 /\ s = 86
  BY <1>8
<1>9. CASE p = 89 /\ s = 90
  BY <1>9
<1>10. CASE p = 66 /\ s \in {66, 67, 68, 72, 75}
  BY <1>10
<1>11. CASE p \in {67, 71} /\ s = 66
  BY <1>11
<1>12. CASE p \in {75, 81} /\ s = 76 /\ (i # 20 => ~u)
  BY <1>12
<1>13. CASE p = 84 /\ s = 85 /\ i # 20
  BY <1>13
<1>14. CASE p = 92 /\ s = 93
  BY <1>14
<1>15. CASE p = 76 /\ s \in {76, 77, 78, NextAt(g, 76)}
  BY <1>15 DEF NextAt
<1>16. CASE p = 77 /\ s = 76 /\ ~q
  BY <1>16
<1> HIDE DEF Match, OnPath, Gathers
<1> QED
  BY <1>1, <1>2, <1>3, <1>4, <1>5, <1>6, <1>7, <1>8, <1>9, <1>10, <1>11, <1>12,
     <1>13, <1>14, <1>15, <1>16 DEF Follows

\* SecondArrivalWaitEnds keeps the invariant.
LEMMA SecondArrivalWaitEndsKeeps ==
  ASSUME NEW g, NEW w, Inv(g, w), NEW b \in Cpu, SecondArrivalWaitEnds(b)
  PROVE  \E v : Inv(g, v)'
<1>1. w \in [Cpu -> Places] /\ Where(g, w) /\ Typed
  BY DEF Inv
<1>2. w[b] \in {53}
  <2>1. At(b, "arrive2")
    BY DEF SecondArrivalWaitEnds
  <2>2. w[b] \in Places \ {0} /\ StepAt(w[b]) = "arrive2"
    BY <1>1, <2>1, AtPlace
  <2> QED
    BY <2>2, StepPlaces DEF PlacesOf
<1> DEFINE q == NextAt(g, w[b])
<1>3. /\ g \in ConfigType /\ OnPath(g, w[b]) /\ run[b] \in Nat
      /\ insideSmm <=> w[b] \in 51 .. 85
      /\ Own(g, w[b], run[b], present[b], busy[b], requested[b], mtrr[b])
      /\ \A d \in Cpu \ {b} : w[d] \notin BspPlaces
      /\ \A d \in Cpu : w[d] \in 20 .. 39 =>
           /\ Match(g, w[d], run[d], busy[d], requested[d], w[b])
           /\ Own(g, w[d], run[d], present[d], busy[d], requested[d], mtrr[d])
           /\ d # b
  BY <1>2, BspFacts
<1>4. todo' = [todo EXCEPT ![b] = Rest(g, q)] /\ config' = config
  BY <1>1, <1>2, ContinuesAt DEF SecondArrivalWaitEnds
<1>5. q = 54
  BY <1>2 DEF NextAt
<1>6. OnPath(g, q)
  BY <1>2, <1>3, NextOnPath
<1> HIDE DEF q
<1>7. Typed'
  BY <1>1, <1>2 DEF Typed, SecondArrivalWaitEnds, shared, cpuData, smi, local
<1>8. /\ UNCHANGED <<bspIndex, bsp, cpuCount, apCount, smiPending, run>>
      /\ insideSmm' = insideSmm /\ allCpusInSync' = allCpusInSync
  BY DEF SecondArrivalWaitEnds, shared, cpuData, smi, local
<1>9. UNCHANGED <<present, busy, requested, mtrr>>
  BY DEF SecondArrivalWaitEnds, cpuData
<1>10. Quietly(g, w[b], q)
  BY <1>2, <1>3, <1>5 DEF Quietly, IsLocked, SignalledFrom, IsGathered, OnPath, Gathers
<1>11. insideSmm' <=> q \in 51 .. 85
  BY <1>2, <1>3, <1>5, <1>8
<1>13. OthersKept(w, b)
  BY <1>8, <1>9 DEF OthersKept
<1>14. MembersFit(g, w, q)
  <2> SUFFICES ASSUME NEW d \in Cpu, w[d] \in 20 .. 39
               PROVE  /\ Match(g, w[d], run'[d], busy'[d], requested'[d], q)
                      /\ Own(g, w[d], run'[d], present[d], busy'[d], requested'[d], mtrr[d])
    BY DEF MembersFit
  <2>1. d # b /\ Match(g, w[d], run[d], busy[d], requested[d], w[b])
    BY <1>3
  <2>2. OnPath(g, w[d]) /\ run[d] \in Nat /\ busy[d] \in BOOLEAN /\ requested[d] \in BOOLEAN
    BY <1>1 DEF Where, Typed
  <2>3. Match(g, w[d], run[d], busy[d], requested[d], q)
    <3>1. Follows(g, w[d], busy[d], requested[d], w[b], q)
      BY <1>2, <1>5 DEF Follows
    <3> QED
      BY <1>3, <1>6, <2>1, <2>2, <3>1, MoveFits
  <2> QED
    BY <1>3, <1>8, <1>9, <2>1, <2>3
<1>15. BspFits(g, b, q)
  BY <1>2, <1>3, <1>5, <1>8, <1>9 DEF BspFits, Own
<1>16. UNCHANGED <<bspIndex, bsp, cpuCount, apCount, smiPending>> /\ run'[b] = run[b]
  BY <1>8
<1>17. allCpusInSync' = (allCpusInSync \/ w[b] \in {54, 82})
  BY <1>1, <1>2, <1>8 DEF Typed
<1>18. ~Gathers(g) /\ q >= 85 => \A d \in Cpu : w[d] \notin 10 .. 13
  <2>1. ~Gathers(g) /\ q >= 85 => IsGathered(g, w[b])
    BY <1>2, <1>3, <1>5 DEF IsGathered, OnPath, Gathers
  <2> QED
    BY <2>1 DEF Inv, Quiesced
<1> QED
  BY <1>4, <1>6, <1>7, <1>10, <1>11, <1>13, <1>14, <1>15, <1>16, <1>17, <1>18, BspQuiet

\* FlagAllCpusInSync keeps the invariant.
LEMMA FlagAllCpusInSyncKeeps ==
  ASSUME NEW g, NEW w, Inv(g, w), NEW b \in Cpu, FlagAllCpusInSync(b)
  PROVE  \E v : Inv(g, v)'
<1>1. w \in [Cpu -> Places] /\ Where(g, w) /\ Typed
  BY DEF Inv
<1>2. w[b] \in {54, 82}
  <2>1. At(b, "sync")
    BY DEF FlagAllCpusInSync
  <2>2. w[b] \in Places \ {0} /\ StepAt(w[b]) = "sync"
    BY <1>1, <2>1, AtPlace
  <2> QED
    BY <2>2, StepPlaces DEF PlacesOf
<1> DEFINE q == NextAt(g, w[b])
<1>3. /\ g \in ConfigType /\ OnPath(g, w[b]) /\ run[b] \in Nat
      /\ insideSmm <=> w[b] \in 51 .. 85
      /\ Own(g, w[b], run[b], present[b], busy[b], requested[b], mtrr[b])
      /\ \A d \in Cpu \ {b} : w[d] \notin BspPlaces
      /\ \A d \in Cpu : w[d] \in 20 .. 39 =>
           /\ Match(g, w[d], run[d], busy[d], requested[d], w[b])
           /\ Own(g, w[d], run[d], present[d], busy[d], requested[d], mtrr[d])
           /\ d # b
  BY <1>2, BspFacts
<1>4. todo' = [todo EXCEPT ![b] = Rest(g, q)] /\ config' = config
  BY <1>1, <1>2, ContinuesAt DEF FlagAllCpusInSync
<1>5. q = w[b] + 1
  BY <1>2 DEF NextAt
<1>6. OnPath(g, q)
  BY <1>2, <1>3, NextOnPath
<1> HIDE DEF q
<1>7. Typed'
  BY <1>1, <1>2 DEF Typed, FlagAllCpusInSync, shared, cpuData, smi, local
<1>8. /\ UNCHANGED <<bspIndex, bsp, cpuCount, apCount, smiPending, run>>
      /\ insideSmm' = insideSmm /\ allCpusInSync' = TRUE
  BY DEF FlagAllCpusInSync, shared, cpuData, smi, local
<1>9. UNCHANGED <<present, busy, requested, mtrr>>
  BY DEF FlagAllCpusInSync, cpuData
<1>10. Quietly(g, w[b], q)
  BY <1>2, <1>3, <1>5 DEF Quietly, IsLocked, SignalledFrom, IsGathered, OnPath, Gathers
<1>11. insideSmm' <=> q \in 51 .. 85
  BY <1>2, <1>3, <1>5, <1>8
<1>13. OthersKept(w, b)
  BY <1>8, <1>9 DEF OthersKept
<1>14. MembersFit(g, w, q)
  <2> SUFFICES ASSUME NEW d \in Cpu, w[d] \in 20 .. 39
               PROVE  /\ Match(g, w[d], run'[d], busy'[d], requested'[d], q)
                      /\ Own(g, w[d], run'[d], present[d], busy'[d], requested'[d], mtrr[d])
    BY DEF MembersFit
  <2>1. d # b /\ Match(g, w[d], run[d], busy[d], requested[d], w[b])
    BY <1>3
  <2>2. OnPath(g, w[d]) /\ run[d] \in Nat /\ busy[d] \in BOOLEAN /\ requested[d] \in BOOLEAN
    BY <1>1 DEF Where, Typed
  <2>3. Match(g, w[d], run[d], busy[d], requested[d], q)
    <3>1. Follows(g, w[d], busy[d], requested[d], w[b], q)
      BY <1>2, <1>5 DEF Follows
    <3> QED
      BY <1>3, <1>6, <2>1, <2>2, <3>1, MoveFits
  <2> QED
    BY <1>3, <1>8, <1>9, <2>1, <2>3
<1>15. BspFits(g, b, q)
  BY <1>2, <1>3, <1>5, <1>8, <1>9 DEF BspFits, Own
<1>16. UNCHANGED <<bspIndex, bsp, cpuCount, apCount, smiPending>> /\ run'[b] = run[b]
  BY <1>8
<1>17. allCpusInSync' = (allCpusInSync \/ w[b] \in {54, 82})
  BY <1>1, <1>2, <1>8 DEF Typed
<1>18. ~Gathers(g) /\ q >= 85 => \A d \in Cpu : w[d] \notin 10 .. 13
  <2>1. ~Gathers(g) /\ q >= 85 => IsGathered(g, w[b])
    BY <1>2, <1>3, <1>5 DEF IsGathered, OnPath, Gathers
  <2> QED
    BY <2>1 DEF Inv, Quiesced
<1> QED
  BY <1>4, <1>6, <1>7, <1>10, <1>11, <1>13, <1>14, <1>15, <1>16, <1>17, <1>18, BspQuiet

\* The BSP saves its MTRRs.
LEMMA BspBackupKeeps ==
  ASSUME NEW g, NEW w, Inv(g, w), NEW b \in Cpu, BackupMtrrs(b), w[b] = 58
  PROVE  \E v : Inv(g, v)'
<1>1. w \in [Cpu -> Places] /\ Where(g, w) /\ Typed
  BY DEF Inv
<1>2. w[b] \in {58}
  OBVIOUS
<1> DEFINE q == NextAt(g, w[b])
<1>3. /\ g \in ConfigType /\ OnPath(g, w[b]) /\ run[b] \in Nat
      /\ insideSmm <=> w[b] \in 51 .. 85
      /\ Own(g, w[b], run[b], present[b], busy[b], requested[b], mtrr[b])
      /\ \A d \in Cpu \ {b} : w[d] \notin BspPlaces
      /\ \A d \in Cpu : w[d] \in 20 .. 39 =>
           /\ Match(g, w[d], run[d], busy[d], requested[d], w[b])
           /\ Own(g, w[d], run[d], present[d], busy[d], requested[d], mtrr[d])
           /\ d # b
  BY <1>2, BspFacts
<1>4. todo' = [todo EXCEPT ![b] = Rest(g, q)] /\ config' = config
  BY <1>1, <1>2, ContinuesAt DEF BackupMtrrs
<1>5. q = 59
  BY <1>2 DEF NextAt
<1>6. OnPath(g, q)
  BY <1>2, <1>3, NextOnPath
<1> HIDE DEF q
<1>7. Typed'
  BY <1>1, <1>2 DEF Typed, BackupMtrrs, shared, cpuData, smi, local
<1>8. /\ UNCHANGED <<bspIndex, bsp, cpuCount, apCount, smiPending, run>>
      /\ insideSmm' = insideSmm /\ allCpusInSync' = allCpusInSync
  BY DEF BackupMtrrs, shared, cpuData, smi, local
<1>9. UNCHANGED <<present, busy, requested, mtrr>>
  BY DEF BackupMtrrs, cpuData
<1>10. Quietly(g, w[b], q)
  BY <1>2, <1>3, <1>5 DEF Quietly, IsLocked, SignalledFrom, IsGathered, OnPath, Gathers
<1>11. insideSmm' <=> q \in 51 .. 85
  BY <1>2, <1>3, <1>5, <1>8
<1>13. OthersKept(w, b)
  BY <1>8, <1>9 DEF OthersKept
<1>14. MembersFit(g, w, q)
  <2> SUFFICES ASSUME NEW d \in Cpu, w[d] \in 20 .. 39
               PROVE  /\ Match(g, w[d], run'[d], busy'[d], requested'[d], q)
                      /\ Own(g, w[d], run'[d], present[d], busy'[d], requested'[d], mtrr[d])
    BY DEF MembersFit
  <2>1. d # b /\ Match(g, w[d], run[d], busy[d], requested[d], w[b])
    BY <1>3
  <2>2. OnPath(g, w[d]) /\ run[d] \in Nat /\ busy[d] \in BOOLEAN /\ requested[d] \in BOOLEAN
    BY <1>1 DEF Where, Typed
  <2>3. Match(g, w[d], run[d], busy[d], requested[d], q)
    <3>1. Follows(g, w[d], busy[d], requested[d], w[b], q)
      BY <1>2, <1>5 DEF Follows
    <3> QED
      BY <1>3, <1>6, <2>1, <2>2, <3>1, MoveFits
  <2> QED
    BY <1>3, <1>8, <1>9, <2>1, <2>3
<1>15. BspFits(g, b, q)
  BY <1>2, <1>3, <1>5, <1>8, <1>9 DEF BspFits, Own
<1>16. UNCHANGED <<bspIndex, bsp, cpuCount, apCount, smiPending>> /\ run'[b] = run[b]
  BY <1>8
<1>17. allCpusInSync' = (allCpusInSync \/ w[b] \in {54, 82})
  BY <1>1, <1>2, <1>8 DEF Typed
<1>18. ~Gathers(g) /\ q >= 85 => \A d \in Cpu : w[d] \notin 10 .. 13
  <2>1. ~Gathers(g) /\ q >= 85 => IsGathered(g, w[b])
    BY <1>2, <1>3, <1>5 DEF IsGathered, OnPath, Gathers
  <2> QED
    BY <2>1 DEF Inv, Quiesced
<1> QED
  BY <1>4, <1>6, <1>7, <1>10, <1>11, <1>13, <1>14, <1>15, <1>16, <1>17, <1>18, BspQuiet

\* The BSP changes its MTRRs.
LEMMA BspSetMtrrsKeeps ==
  ASSUME NEW g, NEW w, Inv(g, w), NEW b \in Cpu, SetMtrrs(b), w[b] \in {61, 89}
  PROVE  \E v : Inv(g, v)'
<1>1. w \in [Cpu -> Places] /\ Where(g, w) /\ Typed
  BY DEF Inv
<1>2. w[b] \in {61, 89}
  OBVIOUS
<1> DEFINE q == NextAt(g, w[b])
<1>3. /\ g \in ConfigType /\ OnPath(g, w[b]) /\ run[b] \in Nat
      /\ insideSmm <=> w[b] \in 51 .. 85
      /\ Own(g, w[b], run[b], present[b], busy[b], requested[b], mtrr[b])
      /\ \A d \in Cpu \ {b} : w[d] \notin BspPlaces
      /\ \A d \in Cpu : w[d] \in 20 .. 39 =>
           /\ Match(g, w[d], run[d], busy[d], requested[d], w[b])
           /\ Own(g, w[d], run[d], present[d], busy[d], requested[d], mtrr[d])
           /\ d # b
  BY <1>2, BspFacts
<1>4. todo' = [todo EXCEPT ![b] = Rest(g, q)] /\ config' = config
  BY <1>1, <1>2, ContinuesAt DEF SetMtrrs
<1>5. q = w[b] + 1
  BY <1>2 DEF NextAt
<1>6. OnPath(g, q)
  BY <1>2, <1>3, NextOnPath
<1> HIDE DEF q
<1>7. Typed'
  BY <1>1, <1>2 DEF Typed, SetMtrrs, shared, cpuData, smi, local
<1>8. /\ UNCHANGED <<bspIndex, bsp, cpuCount, apCount, smiPending, run>>
      /\ insideSmm' = insideSmm /\ allCpusInSync' = allCpusInSync
  BY DEF SetMtrrs, shared, cpuData, smi, local
<1>9. UNCHANGED <<present, busy, requested>>
  BY DEF SetMtrrs, cpuData
<1>10. Quietly(g, w[b], q)
  BY <1>2, <1>3, <1>5 DEF Quietly, IsLocked, SignalledFrom, IsGathered, OnPath, Gathers
<1>11. insideSmm' <=> q \in 51 .. 85
  BY <1>2, <1>3, <1>5, <1>8
<1>12. \A d \in Cpu \ {b} : mtrr'[d] = mtrr[d]
  BY <1>1 DEF SetMtrrs, Typed
<1>13. OthersKept(w, b)
  BY <1>8, <1>9, <1>12 DEF OthersKept
<1>14. MembersFit(g, w, q)
  <2> SUFFICES ASSUME NEW d \in Cpu, w[d] \in 20 .. 39
               PROVE  /\ Match(g, w[d], run'[d], busy'[d], requested'[d], q)
                      /\ Own(g, w[d], run'[d], present[d], busy'[d], requested'[d], mtrr[d])
    BY DEF MembersFit
  <2>1. d # b /\ Match(g, w[d], run[d], busy[d], requested[d], w[b])
    BY <1>3
  <2>2. OnPath(g, w[d]) /\ run[d] \in Nat /\ busy[d] \in BOOLEAN /\ requested[d] \in BOOLEAN
    BY <1>1 DEF Where, Typed
  <2>3. Match(g, w[d], run[d], busy[d], requested[d], q)
    <3>1. Follows(g, w[d], busy[d], requested[d], w[b], q)
      BY <1>2, <1>5 DEF Follows
    <3> QED
      BY <1>3, <1>6, <2>1, <2>2, <3>1, MoveFits
  <2> QED
    BY <1>3, <1>8, <1>9, <1>12, <2>1, <2>3
<1>15. BspFits(g, b, q)
  <2>1. At(b, "program") <=> w[b] = 61
    <3>1. At(b, "program") => StepAt(w[b]) = "program"
      BY <1>1, AtPlace
    <3>2. At(b, "restore") => StepAt(w[b]) = "restore"
      BY <1>1, AtPlace
    <3>3. At(b, "program") \/ At(b, "restore")
      BY DEF SetMtrrs
    <3>4. StepAt(61) = "program" /\ StepAt(89) = "restore"
      BY DEF StepAt
    <3> QED
      BY <1>2, <3>1, <3>2, <3>3, <3>4
  <2>2. mtrr'[b] = IF w[b] = 61 THEN "smm" ELSE "os"
    BY <1>1, <2>1 DEF SetMtrrs, Typed
  <2> QED
    BY <1>2, <1>3, <1>5, <1>8, <1>9, <2>2 DEF BspFits, Own
<1>16. UNCHANGED <<bspIndex, bsp, cpuCount, apCount, smiPending>> /\ run'[b] = run[b]
  BY <1>8
<1>17. allCpusInSync' = (allCpusInSync \/ w[b] \in {54, 82})
  BY <1>1, <1>2, <1>8 DEF Typed
<1>18. ~Gathers(g) /\ q >= 85 => \A d \in Cpu : w[d] \notin 10 .. 13
  <2>1. ~Gathers(g) /\ q >= 85 => IsGathered(g, w[b])
    BY <1>2, <1>3, <1>5 DEF IsGathered, OnPath, Gathers
  <2> QED
    BY <2>1 DEF Inv, Quiesced
<1> QED
  BY <1>4, <1>6, <1>7, <1>10, <1>11, <1>13, <1>14, <1>15, <1>16, <1>17, <1>18, BspQuiet

\* FlagLeaveSmm keeps the invariant.
LEMMA FlagLeaveSmmKeeps ==
  ASSUME NEW g, NEW w, Inv(g, w), NEW b \in Cpu, FlagLeaveSmm(b)
  PROVE  \E v : Inv(g, v)'
<1>1. w \in [Cpu -> Places] /\ Where(g, w) /\ Typed
  BY DEF Inv
<1>2. w[b] \in {85}
  <2>1. At(b, "leave")
    BY DEF FlagLeaveSmm
  <2>2. w[b] \in Places \ {0} /\ StepAt(w[b]) = "leave"
    BY <1>1, <2>1, AtPlace
  <2> QED
    BY <2>2, StepPlaces DEF PlacesOf
<1> DEFINE q == NextAt(g, w[b])
<1>3. /\ g \in ConfigType /\ OnPath(g, w[b]) /\ run[b] \in Nat
      /\ insideSmm <=> w[b] \in 51 .. 85
      /\ Own(g, w[b], run[b], present[b], busy[b], requested[b], mtrr[b])
      /\ \A d \in Cpu \ {b} : w[d] \notin BspPlaces
      /\ \A d \in Cpu : w[d] \in 20 .. 39 =>
           /\ Match(g, w[d], run[d], busy[d], requested[d], w[b])
           /\ Own(g, w[d], run[d], present[d], busy[d], requested[d], mtrr[d])
           /\ d # b
  BY <1>2, BspFacts
<1>4. todo' = [todo EXCEPT ![b] = Rest(g, q)] /\ config' = config
  BY <1>1, <1>2, ContinuesAt DEF FlagLeaveSmm
<1>5. q = 86
  BY <1>2 DEF NextAt
<1>6. OnPath(g, q)
  BY <1>2, <1>3, NextOnPath
<1> HIDE DEF q
<1>7. Typed'
  BY <1>1, <1>2 DEF Typed, FlagLeaveSmm, shared, cpuData, smi, local
<1>8. /\ UNCHANGED <<bspIndex, bsp, cpuCount, apCount, smiPending, run>>
      /\ ~insideSmm' /\ allCpusInSync' = allCpusInSync
  BY DEF FlagLeaveSmm, shared, cpuData, smi, local
<1>9. UNCHANGED <<present, busy, requested, mtrr>>
  BY DEF FlagLeaveSmm, cpuData
<1>10. Quietly(g, w[b], q)
  BY <1>2, <1>3, <1>5 DEF Quietly, IsLocked, SignalledFrom, IsGathered, OnPath, Gathers
<1>11. insideSmm' <=> q \in 51 .. 85
  BY <1>2, <1>3, <1>5, <1>8
<1>13. OthersKept(w, b)
  BY <1>8, <1>9 DEF OthersKept
<1>14. MembersFit(g, w, q)
  <2> SUFFICES ASSUME NEW d \in Cpu, w[d] \in 20 .. 39
               PROVE  /\ Match(g, w[d], run'[d], busy'[d], requested'[d], q)
                      /\ Own(g, w[d], run'[d], present[d], busy'[d], requested'[d], mtrr[d])
    BY DEF MembersFit
  <2>1. d # b /\ Match(g, w[d], run[d], busy[d], requested[d], w[b])
    BY <1>3
  <2>2. OnPath(g, w[d]) /\ run[d] \in Nat /\ busy[d] \in BOOLEAN /\ requested[d] \in BOOLEAN
    BY <1>1 DEF Where, Typed
  <2>3. Match(g, w[d], run[d], busy[d], requested[d], q)
    <3>1. Follows(g, w[d], busy[d], requested[d], w[b], q)
      BY <1>2, <1>5 DEF Follows
    <3> QED
      BY <1>3, <1>6, <2>1, <2>2, <3>1, MoveFits
  <2> QED
    BY <1>3, <1>8, <1>9, <2>1, <2>3
<1>15. BspFits(g, b, q)
  BY <1>2, <1>3, <1>5, <1>8, <1>9 DEF BspFits, Own
<1>16. UNCHANGED <<bspIndex, bsp, cpuCount, apCount, smiPending>> /\ run'[b] = run[b]
  BY <1>8
<1>17. allCpusInSync' = (allCpusInSync \/ w[b] \in {54, 82})
  BY <1>1, <1>2, <1>8 DEF Typed
<1>18. ~Gathers(g) /\ q >= 85 => \A d \in Cpu : w[d] \notin 10 .. 13
  <2>1. ~Gathers(g) /\ q >= 85 => IsGathered(g, w[b])
    BY <1>2, <1>3, <1>5 DEF IsGathered, OnPath, Gathers
  <2> QED
    BY <2>1 DEF Inv, Quiesced
<1> QED
  BY <1>4, <1>6, <1>7, <1>10, <1>11, <1>13, <1>14, <1>15, <1>16, <1>17, <1>18, BspQuiet

\* HandlersReturn keeps the invariant.
LEMMA HandlersReturnKeeps ==
  ASSUME NEW g, NEW w, Inv(g, w), NEW b \in Cpu, HandlersReturn(b)
  PROVE  \E v : Inv(g, v)'
<1>1. w \in [Cpu -> Places] /\ Where(g, w) /\ Typed
  BY DEF Inv
<1>2. w[b] \in {66, 76}
  <2>1. PICK s \in {"handler", "tasks"} : At(b, s)
    BY DEF HandlersReturn
  <2>2. w[b] \in Places \ {0} /\ StepAt(w[b]) = s
    BY <1>1, <2>1, AtPlace
  <2> QED
    BY <2>2, StepPlaces DEF PlacesOf
<1> DEFINE q == NextAt(g, w[b])
<1>3. /\ g \in ConfigType /\ OnPath(g, w[b]) /\ run[b] \in Nat
      /\ insideSmm <=> w[b] \in 51 .. 85
      /\ Own(g, w[b], run[b], present[b], busy[b], requested[b], mtrr[b])
      /\ \A d \in Cpu \ {b} : w[d] \notin BspPlaces
      /\ \A d \in Cpu : w[d] \in 20 .. 39 =>
           /\ Match(g, w[d], run[d], busy[d], requested[d], w[b])
           /\ Own(g, w[d], run[d], present[d], busy[d], requested[d], mtrr[d])
           /\ d # b
  BY <1>2, BspFacts
<1>4. todo' = [todo EXCEPT ![b] = Rest(g, q)] /\ config' = config
  BY <1>1, <1>2, ContinuesAt DEF HandlersReturn
<1>5. /\ q = IF w[b] = 66 THEN 75 ELSE IF Gathers(g) THEN 85 ELSE 82
      /\ w[b] = 76 => q = NextAt(g, 76)
  BY <1>2 DEF NextAt
<1>6. OnPath(g, q)
  BY <1>2, <1>3, NextOnPath
<1> HIDE DEF q
<1>7. Typed'
  BY <1>1, <1>2 DEF Typed, HandlersReturn, shared, cpuData, smi, local
<1>8. /\ UNCHANGED <<bspIndex, bsp, cpuCount, apCount, smiPending, run>>
      /\ insideSmm' = insideSmm /\ allCpusInSync' = allCpusInSync
  BY DEF HandlersReturn, shared, cpuData, smi, local
<1>9. UNCHANGED <<present, busy, requested, mtrr>>
  BY DEF HandlersReturn, cpuData
<1>10. Quietly(g, w[b], q)
  BY <1>2, <1>3, <1>5 DEF Quietly, IsLocked, SignalledFrom, IsGathered, OnPath, Gathers
<1>11. insideSmm' <=> q \in 51 .. 85
  BY <1>2, <1>3, <1>5, <1>8
<1>13. OthersKept(w, b)
  BY <1>8, <1>9 DEF OthersKept
<1>14. MembersFit(g, w, q)
  <2> SUFFICES ASSUME NEW d \in Cpu, w[d] \in 20 .. 39
               PROVE  /\ Match(g, w[d], run'[d], busy'[d], requested'[d], q)
                      /\ Own(g, w[d], run'[d], present[d], busy'[d], requested'[d], mtrr[d])
    BY DEF MembersFit
  <2>1. d # b /\ Match(g, w[d], run[d], busy[d], requested[d], w[b])
    BY <1>3
  <2>2. OnPath(g, w[d]) /\ run[d] \in Nat /\ busy[d] \in BOOLEAN /\ requested[d] \in BOOLEAN
    BY <1>1 DEF Where, Typed
  <2>3. Match(g, w[d], run[d], busy[d], requested[d], q)
    <3>1. Follows(g, w[d], busy[d], requested[d], w[b], q)
      BY <1>2, <1>5 DEF Follows
    <3> QED
      BY <1>3, <1>6, <2>1, <2>2, <3>1, MoveFits
  <2> QED
    BY <1>3, <1>8, <1>9, <2>1, <2>3
<1>15. BspFits(g, b, q)
  BY <1>2, <1>3, <1>5, <1>8, <1>9 DEF BspFits, Own
<1>16. UNCHANGED <<bspIndex, bsp, cpuCount, apCount, smiPending>> /\ run'[b] = run[b]
  BY <1>8
<1>17. allCpusInSync' = (allCpusInSync \/ w[b] \in {54, 82})
  BY <1>1, <1>2, <1>8 DEF Typed
<1>18. ~Gathers(g) /\ q >= 85 => \A d \in Cpu : w[d] \notin 10 .. 13
  <2>1. ~Gathers(g) /\ q >= 85 => IsGathered(g, w[b])
    BY <1>2, <1>3, <1>5 DEF IsGathered, OnPath, Gathers
  <2> QED
    BY <2>1 DEF Inv, Quiesced
<1> QED
  BY <1>4, <1>6, <1>7, <1>10, <1>11, <1>13, <1>14, <1>15, <1>16, <1>17, <1>18, BspQuiet

\* ProcedureDone keeps the invariant.
LEMMA ProcedureDoneKeeps ==
  ASSUME NEW g, NEW w, Inv(g, w), NEW b \in Cpu, ProcedureDone(b)
  PROVE  \E v : Inv(g, v)'
<1>1. w \in [Cpu -> Places] /\ Where(g, w) /\ Typed
  BY DEF Inv
<1>2. w[b] \in {67}
  <2>1. At(b, "notbusy")
    BY DEF ProcedureDone
  <2>2. w[b] \in Places \ {0} /\ StepAt(w[b]) = "notbusy"
    BY <1>1, <2>1, AtPlace
  <2> QED
    BY <2>2, StepPlaces DEF PlacesOf
<1> DEFINE q == NextAt(g, w[b])
<1>3. /\ g \in ConfigType /\ OnPath(g, w[b]) /\ run[b] \in Nat
      /\ insideSmm <=> w[b] \in 51 .. 85
      /\ Own(g, w[b], run[b], present[b], busy[b], requested[b], mtrr[b])
      /\ \A d \in Cpu \ {b} : w[d] \notin BspPlaces
      /\ \A d \in Cpu : w[d] \in 20 .. 39 =>
           /\ Match(g, w[d], run[d], busy[d], requested[d], w[b])
           /\ Own(g, w[d], run[d], present[d], busy[d], requested[d], mtrr[d])
           /\ d # b
  BY <1>2, BspFacts
<1>4. todo' = [todo EXCEPT ![b] = Rest(g, q)] /\ config' = config
  BY <1>1, <1>2, ContinuesAt DEF ProcedureDone
<1>5. q = 66
  BY <1>2 DEF NextAt
<1>6. OnPath(g, q)
  BY <1>2, <1>3, NextOnPath
<1> HIDE DEF q
<1>7. Typed'
  BY <1>1, <1>2 DEF Typed, ProcedureDone, shared, cpuData, smi, local
<1>8. /\ UNCHANGED <<bspIndex, bsp, cpuCount, apCount, smiPending, run>>
      /\ insideSmm' = insideSmm /\ allCpusInSync' = allCpusInSync
  BY DEF ProcedureDone, shared, cpuData, smi, local
<1>9. UNCHANGED <<present, busy, requested, mtrr>>
  BY DEF ProcedureDone, cpuData
<1>10. Quietly(g, w[b], q)
  BY <1>2, <1>3, <1>5 DEF Quietly, IsLocked, SignalledFrom, IsGathered, OnPath, Gathers
<1>11. insideSmm' <=> q \in 51 .. 85
  BY <1>2, <1>3, <1>5, <1>8
<1>13. OthersKept(w, b)
  BY <1>8, <1>9 DEF OthersKept
<1>14. MembersFit(g, w, q)
  <2> SUFFICES ASSUME NEW d \in Cpu, w[d] \in 20 .. 39
               PROVE  /\ Match(g, w[d], run'[d], busy'[d], requested'[d], q)
                      /\ Own(g, w[d], run'[d], present[d], busy'[d], requested'[d], mtrr[d])
    BY DEF MembersFit
  <2>1. d # b /\ Match(g, w[d], run[d], busy[d], requested[d], w[b])
    BY <1>3
  <2>2. OnPath(g, w[d]) /\ run[d] \in Nat /\ busy[d] \in BOOLEAN /\ requested[d] \in BOOLEAN
    BY <1>1 DEF Where, Typed
  <2>3. Match(g, w[d], run[d], busy[d], requested[d], q)
    <3>1. Follows(g, w[d], busy[d], requested[d], w[b], q)
      BY <1>2, <1>5 DEF Follows
    <3> QED
      BY <1>3, <1>6, <2>1, <2>2, <3>1, MoveFits
  <2> QED
    BY <1>3, <1>8, <1>9, <2>1, <2>3
<1>15. BspFits(g, b, q)
  BY <1>2, <1>3, <1>5, <1>8, <1>9 DEF BspFits, Own
<1>16. UNCHANGED <<bspIndex, bsp, cpuCount, apCount, smiPending>> /\ run'[b] = run[b]
  BY <1>8
<1>17. allCpusInSync' = (allCpusInSync \/ w[b] \in {54, 82})
  BY <1>1, <1>2, <1>8 DEF Typed
<1>18. ~Gathers(g) /\ q >= 85 => \A d \in Cpu : w[d] \notin 10 .. 13
  <2>1. ~Gathers(g) /\ q >= 85 => IsGathered(g, w[b])
    BY <1>2, <1>3, <1>5 DEF IsGathered, OnPath, Gathers
  <2> QED
    BY <2>1 DEF Inv, Quiesced
<1> QED
  BY <1>4, <1>6, <1>7, <1>10, <1>11, <1>13, <1>14, <1>15, <1>16, <1>17, <1>18, BspQuiet

\* AcquireOwnBusy keeps the invariant.
LEMMA AcquireOwnBusyKeeps ==
  ASSUME NEW g, NEW w, Inv(g, w), NEW b \in Cpu, AcquireOwnBusy(b)
  PROVE  \E v : Inv(g, v)'
<1>1. w \in [Cpu -> Places] /\ Where(g, w) /\ Typed
  BY DEF Inv
<1>2. w[b] \in {65}
  <2>1. At(b, "own")
    BY DEF AcquireOwnBusy
  <2>2. w[b] \in Places \ {0} /\ StepAt(w[b]) = "own"
    BY <1>1, <2>1, AtPlace
  <2> QED
    BY <2>2, StepPlaces DEF PlacesOf
<1> DEFINE q == NextAt(g, w[b])
<1>3. /\ g \in ConfigType /\ OnPath(g, w[b]) /\ run[b] \in Nat
      /\ insideSmm <=> w[b] \in 51 .. 85
      /\ Own(g, w[b], run[b], present[b], busy[b], requested[b], mtrr[b])
      /\ \A d \in Cpu \ {b} : w[d] \notin BspPlaces
      /\ \A d \in Cpu : w[d] \in 20 .. 39 =>
           /\ Match(g, w[d], run[d], busy[d], requested[d], w[b])
           /\ Own(g, w[d], run[d], present[d], busy[d], requested[d], mtrr[d])
           /\ d # b
  BY <1>2, BspFacts
<1>4. todo' = [todo EXCEPT ![b] = Rest(g, q)] /\ config' = config
  BY <1>1, <1>2, ContinuesAt DEF AcquireOwnBusy
<1>5. q = 66
  BY <1>2 DEF NextAt
<1>6. OnPath(g, q)
  BY <1>2, <1>3, NextOnPath
<1> HIDE DEF q
<1>7. Typed'
  BY <1>1, <1>2 DEF Typed, AcquireOwnBusy, shared, cpuData, smi, local
<1>8. /\ UNCHANGED <<bspIndex, bsp, cpuCount, apCount, smiPending, run>>
      /\ insideSmm' = insideSmm /\ allCpusInSync' = allCpusInSync
  BY DEF AcquireOwnBusy, shared, cpuData, smi, local
<1>9. UNCHANGED <<present, requested, mtrr>>
  BY DEF AcquireOwnBusy, cpuData
<1>10. Quietly(g, w[b], q)
  BY <1>2, <1>3, <1>5 DEF Quietly, IsLocked, SignalledFrom, IsGathered, OnPath, Gathers
<1>11. insideSmm' <=> q \in 51 .. 85
  BY <1>2, <1>3, <1>5, <1>8
<1>12. \A d \in Cpu \ {b} : busy'[d] = busy[d]
  BY <1>1 DEF AcquireOwnBusy, Typed
<1>13. OthersKept(w, b)
  BY <1>8, <1>9, <1>12 DEF OthersKept
<1>14. MembersFit(g, w, q)
  <2> SUFFICES ASSUME NEW d \in Cpu, w[d] \in 20 .. 39
               PROVE  /\ Match(g, w[d], run'[d], busy'[d], requested'[d], q)
                      /\ Own(g, w[d], run'[d], present[d], busy'[d], requested'[d], mtrr[d])
    BY DEF MembersFit
  <2>1. d # b /\ Match(g, w[d], run[d], busy[d], requested[d], w[b])
    BY <1>3
  <2>2. OnPath(g, w[d]) /\ run[d] \in Nat /\ busy[d] \in BOOLEAN /\ requested[d] \in BOOLEAN
    BY <1>1 DEF Where, Typed
  <2>3. Match(g, w[d], run[d], busy[d], requested[d], q)
    <3>1. Follows(g, w[d], busy[d], requested[d], w[b], q)
      BY <1>2, <1>5 DEF Follows
    <3> QED
      BY <1>3, <1>6, <2>1, <2>2, <3>1, MoveFits
  <2> QED
    BY <1>3, <1>8, <1>9, <1>12, <2>1, <2>3
<1>15. BspFits(g, b, q)
  BY <1>2, <1>3, <1>5, <1>8, <1>9 DEF BspFits, Own
<1>16. UNCHANGED <<bspIndex, bsp, cpuCount, apCount, smiPending>> /\ run'[b] = run[b]
  BY <1>8
<1>17. allCpusInSync' = (allCpusInSync \/ w[b] \in {54, 82})
  BY <1>1, <1>2, <1>8 DEF Typed
<1>18. ~Gathers(g) /\ q >= 85 => \A d \in Cpu : w[d] \notin 10 .. 13
  <2>1. ~Gathers(g) /\ q >= 85 => IsGathered(g, w[b])
    BY <1>2, <1>3, <1>5 DEF IsGathered, OnPath, Gathers
  <2> QED
    BY <2>1 DEF Inv, Quiesced
<1> QED
  BY <1>4, <1>6, <1>7, <1>10, <1>11, <1>13, <1>14, <1>15, <1>16, <1>17, <1>18, BspQuiet

\* CodeAccessChecked keeps the invariant.
LEMMA CodeAccessCheckedKeeps ==
  ASSUME NEW g, NEW w, Inv(g, w), NEW b \in Cpu, CodeAccessChecked(b)
  PROVE  \E v : Inv(g, v)'
<1>1. w \in [Cpu -> Places] /\ Where(g, w) /\ Typed
  BY DEF Inv
<1>2. w[b] \in {77}
  <2>1. At(b, "ran")
    BY DEF CodeAccessChecked
  <2>2. w[b] \in Places \ {0} /\ StepAt(w[b]) = "ran"
    BY <1>1, <2>1, AtPlace
  <2> QED
    BY <2>2, StepPlaces DEF PlacesOf
<1> DEFINE q == NextAt(g, w[b])
<1>3. /\ g \in ConfigType /\ OnPath(g, w[b]) /\ run[b] \in Nat
      /\ insideSmm <=> w[b] \in 51 .. 85
      /\ Own(g, w[b], run[b], present[b], busy[b], requested[b], mtrr[b])
      /\ \A d \in Cpu \ {b} : w[d] \notin BspPlaces
      /\ \A d \in Cpu : w[d] \in 20 .. 39 =>
           /\ Match(g, w[d], run[d], busy[d], requested[d], w[b])
           /\ Own(g, w[d], run[d], present[d], busy[d], requested[d], mtrr[d])
           /\ d # b
  BY <1>2, BspFacts
<1>4. todo' = [todo EXCEPT ![b] = Rest(g, q)] /\ config' = config
  BY <1>1, <1>2, ContinuesAt DEF CodeAccessChecked
<1>5. q = 76
  BY <1>2 DEF NextAt
<1>6. OnPath(g, q)
  BY <1>2, <1>3, NextOnPath
<1> HIDE DEF q
<1>7. Typed'
  BY <1>1, <1>2 DEF Typed, CodeAccessChecked, shared, cpuData, smi, local
<1>8. /\ UNCHANGED <<bspIndex, bsp, cpuCount, apCount, smiPending, run>>
      /\ insideSmm' = insideSmm /\ allCpusInSync' = allCpusInSync
  BY DEF CodeAccessChecked, shared, cpuData, smi, local
<1>9. UNCHANGED <<present, busy, requested, mtrr>>
  BY DEF CodeAccessChecked, cpuData
<1>10. Quietly(g, w[b], q)
  BY <1>2, <1>3, <1>5 DEF Quietly, IsLocked, SignalledFrom, IsGathered, OnPath, Gathers
<1>11. insideSmm' <=> q \in 51 .. 85
  BY <1>2, <1>3, <1>5, <1>8
<1>13. OthersKept(w, b)
  BY <1>8, <1>9 DEF OthersKept
<1>14. MembersFit(g, w, q)
  <2> SUFFICES ASSUME NEW d \in Cpu, w[d] \in 20 .. 39
               PROVE  /\ Match(g, w[d], run'[d], busy'[d], requested'[d], q)
                      /\ Own(g, w[d], run'[d], present[d], busy'[d], requested'[d], mtrr[d])
    BY DEF MembersFit
  <2>1. d # b /\ Match(g, w[d], run[d], busy[d], requested[d], w[b])
    BY <1>3
  <2>2. OnPath(g, w[d]) /\ run[d] \in Nat /\ busy[d] \in BOOLEAN /\ requested[d] \in BOOLEAN
    BY <1>1 DEF Where, Typed
  <2>3. Match(g, w[d], run[d], busy[d], requested[d], q)
    <3>1. Follows(g, w[d], busy[d], requested[d], w[b], q)
      BY <1>2, <1>5 DEF Follows, CodeAccessChecked
    <3> QED
      BY <1>3, <1>6, <2>1, <2>2, <3>1, MoveFits
  <2> QED
    BY <1>3, <1>8, <1>9, <2>1, <2>3
<1>15. BspFits(g, b, q)
  BY <1>2, <1>3, <1>5, <1>8, <1>9 DEF BspFits, Own
<1>16. UNCHANGED <<bspIndex, bsp, cpuCount, apCount, smiPending>> /\ run'[b] = run[b]
  BY <1>8
<1>17. allCpusInSync' = (allCpusInSync \/ w[b] \in {54, 82})
  BY <1>1, <1>2, <1>8 DEF Typed
<1>18. ~Gathers(g) /\ q >= 85 => \A d \in Cpu : w[d] \notin 10 .. 13
  <2>1. ~Gathers(g) /\ q >= 85 => IsGathered(g, w[b])
    BY <1>2, <1>3, <1>5 DEF IsGathered, OnPath, Gathers
  <2> QED
    BY <2>1 DEF Inv, Quiesced
<1> QED
  BY <1>4, <1>6, <1>7, <1>10, <1>11, <1>13, <1>14, <1>15, <1>16, <1>17, <1>18, BspQuiet

\* WaitForAllAPsNotBusy keeps the invariant.
LEMMA WaitForAllAPsNotBusyKeeps ==
  ASSUME NEW g, NEW w, Inv(g, w), NEW b \in Cpu, WaitForAllAPsNotBusy(b)
  PROVE  \E v : Inv(g, v)'
<1>1. w \in [Cpu -> Places] /\ Where(g, w) /\ Typed
  BY DEF Inv
<1>2. w[b] \in {71, 75, 81}
  <2>1. At(b, "drain")
    BY DEF WaitForAllAPsNotBusy
  <2>2. w[b] \in Places \ {0} /\ StepAt(w[b]) = "drain"
    BY <1>1, <2>1, AtPlace
  <2> QED
    BY <2>2, StepPlaces DEF PlacesOf
<1> DEFINE q == NextAt(g, w[b])
<1>3. /\ g \in ConfigType /\ OnPath(g, w[b]) /\ run[b] \in Nat
      /\ insideSmm <=> w[b] \in 51 .. 85
      /\ Own(g, w[b], run[b], present[b], busy[b], requested[b], mtrr[b])
      /\ \A d \in Cpu \ {b} : w[d] \notin BspPlaces
      /\ \A d \in Cpu : w[d] \in 20 .. 39 =>
           /\ Match(g, w[d], run[d], busy[d], requested[d], w[b])
           /\ Own(g, w[d], run[d], present[d], busy[d], requested[d], mtrr[d])
           /\ d # b
  BY <1>2, BspFacts
<1>4. todo' = [todo EXCEPT ![b] = Rest(g, q)] /\ config' = config
  BY <1>1, <1>2, ContinuesAt DEF WaitForAllAPsNotBusy
<1>5. q = IF w[b] = 71 THEN 66 ELSE 76
  BY <1>2 DEF NextAt
<1>6. OnPath(g, q)
  BY <1>2, <1>3, NextOnPath
<1> HIDE DEF q
<1>7. Typed'
  BY <1>1, <1>2 DEF Typed, WaitForAllAPsNotBusy, shared, cpuData, smi, local
<1>8. /\ UNCHANGED <<bspIndex, bsp, cpuCount, apCount, smiPending, run>>
      /\ insideSmm' = insideSmm /\ allCpusInSync' = allCpusInSync
  BY DEF WaitForAllAPsNotBusy, shared, cpuData, smi, local
<1>9. UNCHANGED <<present, busy, requested, mtrr>>
  BY DEF WaitForAllAPsNotBusy, cpuData
<1>10. Quietly(g, w[b], q)
  BY <1>2, <1>3, <1>5 DEF Quietly, IsLocked, SignalledFrom, IsGathered, OnPath, Gathers
<1>11. insideSmm' <=> q \in 51 .. 85
  BY <1>2, <1>3, <1>5, <1>8
<1>13. OthersKept(w, b)
  BY <1>8, <1>9 DEF OthersKept
<1>14. MembersFit(g, w, q)
  <2> SUFFICES ASSUME NEW d \in Cpu, w[d] \in 20 .. 39
               PROVE  /\ Match(g, w[d], run'[d], busy'[d], requested'[d], q)
                      /\ Own(g, w[d], run'[d], present[d], busy'[d], requested'[d], mtrr[d])
    BY DEF MembersFit
  <2>1. d # b /\ Match(g, w[d], run[d], busy[d], requested[d], w[b])
    BY <1>3
  <2>2. OnPath(g, w[d]) /\ run[d] \in Nat /\ busy[d] \in BOOLEAN /\ requested[d] \in BOOLEAN
    BY <1>1 DEF Where, Typed
  <2>3. CASE w[b] = 71
    <3>1. Match(g, w[d], run[d], busy[d], requested[d], q)
      <4>1. Follows(g, w[d], busy[d], requested[d], w[b], q)
        BY <1>5, <2>3 DEF Follows
      <4> QED
        BY <1>3, <1>6, <2>1, <2>2, <4>1, MoveFits
    <3> QED
      BY <1>3, <1>8, <1>9, <3>1
  <2>4. CASE w[b] \in {75, 81}
    <3>1. w[d] # 20 => w[d] \in 30 .. 32
      BY <2>1, <2>4 DEF Match, Looping, Finishing, Assigning, Releasing, Drained, Idle, Working, Between
    <3>2. w[d] # 20 => present[d]
      BY <1>3, <3>1 DEF Own
    <3>3. w[d] # 20 => ~busy[d]
      BY <2>1, <3>2 DEF WaitForAllAPsNotBusy, PresentAps
    <3>4. q = 76
      BY <1>5, <2>4
    <3>5. Match(g, w[d], run[d], busy[d], requested[d], q)
      <4>1. Follows(g, w[d], busy[d], requested[d], w[b], q)
        BY <2>4, <3>3, <3>4 DEF Follows
      <4> QED
        BY <1>3, <1>6, <2>1, <2>2, <4>1, MoveFits
    <3> QED
      BY <1>3, <1>8, <1>9, <3>5
  <2> QED
    BY <1>2, <2>3, <2>4
<1>15. BspFits(g, b, q)
  BY <1>2, <1>3, <1>5, <1>8, <1>9 DEF BspFits, Own
<1>16. UNCHANGED <<bspIndex, bsp, cpuCount, apCount, smiPending>> /\ run'[b] = run[b]
  BY <1>8
<1>17. allCpusInSync' = (allCpusInSync \/ w[b] \in {54, 82})
  BY <1>1, <1>2, <1>8 DEF Typed
<1>18. ~Gathers(g) /\ q >= 85 => \A d \in Cpu : w[d] \notin 10 .. 13
  <2>1. ~Gathers(g) /\ q >= 85 => IsGathered(g, w[b])
    BY <1>2, <1>3, <1>5 DEF IsGathered, OnPath, Gathers
  <2> QED
    BY <2>1 DEF Inv, Quiesced
<1> QED
  BY <1>4, <1>6, <1>7, <1>10, <1>11, <1>13, <1>14, <1>15, <1>16, <1>17, <1>18, BspQuiet

(***************************************************************************)
(* The BSP and the APs that are present.                                   *)
(***************************************************************************)
LEMMA TodoSame ==
  ASSUME NEW g, NEW w, Where(g, w), NEW b \in Cpu
  PROVE  todo = [todo EXCEPT ![b] = todo[b]]
BY DEF Where

\* IsPresentAp finds the APs between their setting and clearing of Present.
LEMMA PresentMembers ==
  ASSUME NEW g, NEW w, Inv(g, w), NEW b \in Cpu, w[b] \in 50 .. 93
  PROVE  \A d \in Cpu : d \in PresentAps(b) <=> w[d] \in 21 .. 38
<1>1. \A d \in Cpu : present[d] <=> w[d] \in 21 .. 38 \cup 52 .. 92
  BY DEF Inv, Flags, Own
<1>2. \A d \in Cpu \ {b} : w[d] \notin BspPlaces
  BY BspFacts
<1> QED
  BY <1>1, <1>2 DEF PresentAps, BspPlaces

\* A broadcast that waits.
LEMMA AppendDrain ==
  <<"acquire", "assign", "release">> \o <<"drain">>
    = <<"acquire", "assign", "release", "drain">>
<1> DEFINE s == <<"acquire", "assign", "release">>
           t == <<"acquire", "assign", "release", "drain">>
<1>1. s \in Seq(StepNames) /\ "drain" \in StepNames /\ t \in Seq(StepNames)
  BY DEF StepNames
<1>2. s \o <<"drain">> = Append(s, "drain")
  BY <1>1
<1>3. Append(s, "drain") \in Seq(StepNames) /\ Len(Append(s, "drain")) = 4 /\ Len(t) = 4
  BY <1>1
<1>4. \A i \in 1 .. 4 : Append(s, "drain")[i] = t[i]
  BY <1>1
<1> HIDE DEF s, t
<1>5. Append(s, "drain") = t
  BY <1>1, <1>3, <1>4, SeqEqual
<1> QED
  BY <1>2, <1>5 DEF s, t

\* An AP that has yet to set its Present flag takes no part in a broadcast.
LEMMA NotYetPresent ==
  ASSUME NEW g, NEW r, NEW u, NEW q, NEW p \in 66 .. 81, NEW s \in 66 .. 81,
         Match(g, 20, r, u, q, p)
  PROVE  Match(g, 20, r, u, q, s)
<1>1. ~Gathers(g) /\ r = 0
  BY DEF Match, Between, Looping, Finishing, Assigning, Releasing, Drained, Idle, Working
<1> QED
  BY <1>1 DEF Match, Between

\* During a broadcast every AP is at its loop.
LEMMA BroadcastAt ==
  ASSUME NEW g \in ConfigType, NEW i \in 20 .. 39, NEW r \in Nat, NEW u, NEW q,
         NEW p \in {68, 69, 72, 73, 78, 79}, Match(g, i, r, u, q, p),
         i \in 21 .. 38 /\ p \in {68, 72, 78} => ~u
  PROVE  i = 20 \/ i = 30
BY DEF Match, Between, Looping, Finishing, Assigning, Releasing, Drained, Idle, Working

Acquires(i, u, p, s, x) == i = 30 /\ ~u /\ p \in {68, 72, 78} /\ s = p + 1 /\ x

\* An AP whose Busy lock is acquired fits.
LEMMA AcquireFits ==
  ASSUME NEW g, NEW i, NEW r, NEW u, NEW q, NEW p, NEW s, NEW x,
         Match(g, i, r, u, q, p), Acquires(i, u, p, s, x)
  PROVE  Match(g, i, r, x, q, s)
<1> USE DEF Acquires
<1>2. r = 0 /\ ~q
  BY DEF Match, Between, Looping, Finishing, Assigning, Releasing, Drained, Idle, Working
<1>3. CASE p = 68
  BY <1>2, <1>3 DEF Match, Looping, Finishing, Assigning, Releasing, Drained
<1>4. CASE p = 72
  BY <1>2, <1>4 DEF Match, Looping, Finishing, Assigning, Releasing, Drained
<1>5. CASE p = 78
  BY <1>2, <1>5 DEF Match, Looping, Finishing, Assigning, Releasing, Drained
<1> QED
  BY <1>3, <1>4, <1>5

\* An AP that has been given a procedure fits.
LEMMA AssignFits ==
  ASSUME NEW g \in ConfigType, NEW i, i = 30, NEW r \in Nat, NEW u, NEW q,
         NEW p \in {69, 73, 79}, Match(g, i, r, u, q, p),
         NEW s, s = p + 1, NEW x, x
  PROVE  Match(g, i, r, u, x, s)
<1>2. r = 0 /\ u
  BY DEF Match, Between, Looping, Finishing, Assigning, Releasing, Drained, Idle, Working
<1>3. CASE p = 69
  BY <1>2, <1>3 DEF Match, Looping, Finishing, Assigning, Releasing, Drained
<1>4. CASE p = 73
  BY <1>2, <1>4 DEF Match, Looping, Finishing, Assigning, Releasing, Drained
<1>5. CASE p = 79
  BY <1>2, <1>5 DEF Match, Looping, Finishing, Assigning, Releasing, Drained
<1> QED
  BY <1>3, <1>4, <1>5

Starts(i, r, u, p, s, t, x, y) ==
  /\ i \in 21 .. 38 /\ r \in Nat /\ ~u
  /\ (p = 66 /\ s \in {66, 67}) \/ (p = 76 /\ s = 77)
  /\ t = r + 1 /\ x /\ y

\* An AP that a procedure is started on fits.
LEMMA StartupFits ==
  ASSUME NEW g, NEW i, NEW r, NEW u, NEW q, NEW p, NEW s, NEW t, NEW x, NEW y,
         Match(g, i, r, u, q, p), Starts(i, r, u, p, s, t, x, y)
  PROVE  i = 30 /\ Match(g, i, t, x, y, s)
<1> USE DEF Starts
<1>1. i = 30 /\ r = 0
  BY DEF Match, Looping, Finishing, Assigning, Releasing, Drained, Idle, Working, Between
<1>2. Working(i, t, x, y)
  BY <1>1 DEF Working
<1>3. s \in {66, 67, 77}
  OBVIOUS
<1>4. s \notin Assigning \cup Releasing \cup Drained
  BY <1>3 DEF Assigning, Releasing, Drained
<1>5. Looping(i, t, x, y, s)
  <2>1. s \notin Assigning /\ s \notin Releasing /\ s \notin Drained
    BY <1>4
  <2> QED
    BY <1>2, <2>1, Zenon DEF Looping
<1>6. Match(g, i, t, x, y, s)
  <2>1. s \in 51 .. 93 /\ s \in 65 .. 86 /\ ~(s >= 87) /\ s \notin 85 .. 86
    BY <1>3
  <2>2. /\ s \notin 51 .. 57 /\ s \notin 58 .. 60 /\ s \notin 61 .. 63 /\ s # 64
        /\ s \notin 87 .. 88 /\ s \notin 89 .. 91 /\ s \notin 92 .. 93
        /\ s \notin {57, 60, 63, 88, 91}
    BY <1>3
  <2> QED
    BY <1>5, <2>1, <2>2, Zenon DEF Match
<1> QED
  BY <1>1, <1>6

Releases(g, i, r, u, q, p, t, s) ==
  /\ i \in 20 .. 39 /\ r \in Nat /\ u \in BOOLEAN /\ q \in BOOLEAN
  /\ p \in {57, 60, 63, 70, 74, 80, 86, 88, 91} /\ (p \in Releasing => i # 20)
  /\ t = r + 1 /\ s = NextAt(g, p)

\* An AP that the BSP releases fits.
LEMMA ReleaseFits ==
  ASSUME NEW g \in ConfigType, NEW i, NEW r, NEW u, NEW q, NEW p, NEW t, NEW s,
         OnPath(g, p), Match(g, i, r, u, q, p), Releases(g, i, r, u, q, p, t, s)
  PROVE  i \in 21 .. 38 /\ Match(g, i, t, u, q, s)
<1> USE DEF Releases, Match, Between, Released, LeavesLoop, Looping, Finishing, Assigning, Releasing, Drained, Idle, Working, OnPath,
            Gathers, NextAt
<1>1. CASE p = 57
  BY <1>1
<1>2. CASE p = 60
  BY <1>2
<1>3. CASE p = 63
  BY <1>3
<1>4. CASE p = 70
  BY <1>4
<1>5. CASE p = 74
  BY <1>5
<1>6. CASE p = 86
  BY <1>6
<1>7. CASE p = 88
  BY <1>7
<1>8. CASE p = 91
  BY <1>8
<1>9. CASE p = 80
  BY <1>9
<1> QED
  BY <1>1, <1>2, <1>3, <1>4, <1>5, <1>6, <1>7, <1>8, <1>9

\* AcquireAllBusy keeps the invariant.
LEMMA AcquireAllBusyKeeps ==
  ASSUME NEW g, NEW w, Inv(g, w), NEW b \in Cpu, AcquireAllBusy(b)
  PROVE  \E v : Inv(g, v)'
<1>1. w \in [Cpu -> Places] /\ Where(g, w) /\ Typed
  BY DEF Inv
<1>2. w[b] \in {68, 72, 78}
  <2>1. At(b, "acquire")
    BY DEF AcquireAllBusy
  <2>2. w[b] \in Places \ {0} /\ StepAt(w[b]) = "acquire"
    BY <1>1, <2>1, AtPlace
  <2> QED
    BY <2>2, StepPlaces DEF PlacesOf
<1> DEFINE q == NextAt(g, w[b])
<1>3. /\ g \in ConfigType /\ OnPath(g, w[b]) /\ run[b] \in Nat
      /\ insideSmm <=> w[b] \in 51 .. 85
      /\ Own(g, w[b], run[b], present[b], busy[b], requested[b], mtrr[b])
      /\ \A d \in Cpu \ {b} : w[d] \notin BspPlaces
      /\ \A d \in Cpu : w[d] \in 20 .. 39 =>
           /\ Match(g, w[d], run[d], busy[d], requested[d], w[b])
           /\ Own(g, w[d], run[d], present[d], busy[d], requested[d], mtrr[d])
           /\ d # b
  BY <1>2, BspFacts
<1>4. \A d \in Cpu : d \in PresentAps(b) <=> w[d] \in 21 .. 38
  BY <1>2, PresentMembers
<1>5. todo' = [todo EXCEPT ![b] = Rest(g, q)] /\ config' = config
  BY <1>1, <1>2, ContinuesAt DEF AcquireAllBusy
<1>6. q = w[b] + 1
  BY <1>2 DEF NextAt
<1>7. OnPath(g, q)
  BY <1>2, <1>3, NextOnPath
<1> HIDE DEF q
<1>8. Typed'
  BY <1>1, <1>2, SmmAssumption DEF Typed, AcquireAllBusy, shared, cpuData, smi, local
<1>9. UNCHANGED <<bspIndex, bsp, cpuCount, apCount, smiPending, insideSmm,
                  allCpusInSync, run, present, requested, mtrr>>
  BY DEF AcquireAllBusy, shared, cpuData, smi, local
<1>10. Quietly(g, w[b], q)
  BY <1>2, <1>3, <1>6 DEF Quietly, IsLocked, SignalledFrom, IsGathered, OnPath, Gathers
<1>11. insideSmm' <=> q \in 51 .. 85
  BY <1>2, <1>3, <1>6, <1>9
<1>12. /\ \A d \in Cpu : busy'[d] = (busy[d] \/ w[d] \in 21 .. 38)
       /\ \A d \in Cpu : w[d] \in 21 .. 38 => ~busy[d]
       /\ busy'[b] = busy[b]
  BY <1>1, <1>2, <1>4 DEF AcquireAllBusy, Typed
<1>13. OthersKept(w, b)
  BY <1>1, <1>9, <1>12 DEF OthersKept, Typed
<1>14. MembersFit(g, w, q)
  <2> SUFFICES ASSUME NEW d \in Cpu, w[d] \in 20 .. 39
               PROVE  /\ Match(g, w[d], run'[d], busy'[d], requested'[d], q)
                      /\ Own(g, w[d], run'[d], present[d], busy'[d], requested'[d], mtrr[d])
    BY DEF MembersFit
  <2>1. /\ d # b /\ Match(g, w[d], run[d], busy[d], requested[d], w[b])
        /\ Own(g, w[d], run[d], present[d], busy[d], requested[d], mtrr[d])
    BY <1>3
  <2>2. /\ OnPath(g, w[d]) /\ run[d] \in Nat /\ busy[d] \in BOOLEAN
        /\ requested[d] \in BOOLEAN
    BY <1>1 DEF Where, Typed
  <2>3. w[d] \in 21 .. 38 /\ w[b] \in {68, 72, 78} => ~busy[d]
    BY <1>12
  <2>7. CASE w[d] = 20
    <3>1. busy'[d] = busy[d]
      BY <1>12, <2>2, <2>7
    <3>2. w[b] \in 66 .. 81 /\ q \in 66 .. 81
      BY <1>2, <1>6
    <3>3. Match(g, w[d], run[d], busy[d], requested[d], q)
      BY <2>1, <2>7, <3>2, NotYetPresent
    <3> QED
      BY <1>9, <2>1, <3>1, <3>3
  <2> SUFFICES ASSUME w[d] # 20
               PROVE  /\ Match(g, w[d], run'[d], busy'[d], requested'[d], q)
                      /\ Own(g, w[d], run'[d], present[d], busy'[d], requested'[d], mtrr[d])
    BY <2>7
  <2>4. w[d] = 30
    BY <1>2, <1>3, <2>1, <2>2, <2>3, BroadcastAt
  <2>5. ~busy[d] /\ busy'[d]
    <3>1. w[d] \in 21 .. 38
      BY <2>4
    <3>2. ~busy[d]
      BY <1>12, <3>1
    <3>3. busy'[d]
      BY <1>12, <3>1, Zenon
    <3> QED
      BY <3>2, <3>3
  <2>6. Match(g, w[d], run[d], busy'[d], requested[d], q)
    <3>1. Acquires(w[d], busy[d], w[b], q, busy'[d])
      BY <1>2, <1>6, <2>4, <2>5 DEF Acquires
    <3> QED
      BY <1>3, <2>1, <3>1, AcquireFits
  <2> QED
    BY <1>9, <2>1, <2>4, <2>6 DEF Own
<1>15. BspFits(g, b, q)
  BY <1>2, <1>3, <1>6, <1>9, <1>12 DEF BspFits, Own
<1>16. UNCHANGED <<bspIndex, bsp, cpuCount, apCount, smiPending>> /\ run'[b] = run[b]
  BY <1>9, <1>12
<1>17. allCpusInSync' = (allCpusInSync \/ w[b] \in {54, 82})
  BY <1>1, <1>2, <1>9 DEF Typed
<1>18. ~Gathers(g) /\ q >= 85 => \A d \in Cpu : w[d] \notin 10 .. 13
  <2>1. ~Gathers(g) /\ q >= 85 => IsGathered(g, w[b])
    BY <1>2, <1>3, <1>6 DEF IsGathered, OnPath, Gathers
  <2> QED
    BY <2>1 DEF Inv, Quiesced
<1> QED
  BY <1>5, <1>7, <1>8, <1>10, <1>11, <1>13, <1>14, <1>15, <1>16, <1>17, <1>18, BspQuiet

\* AssignProcedures keeps the invariant.
LEMMA AssignProceduresKeeps ==
  ASSUME NEW g, NEW w, Inv(g, w), NEW b \in Cpu, AssignProcedures(b)
  PROVE  \E v : Inv(g, v)'
<1>1. w \in [Cpu -> Places] /\ Where(g, w) /\ Typed
  BY DEF Inv
<1>2. w[b] \in {69, 73, 79}
  <2>1. At(b, "assign")
    BY DEF AssignProcedures
  <2>2. w[b] \in Places \ {0} /\ StepAt(w[b]) = "assign"
    BY <1>1, <2>1, AtPlace
  <2> QED
    BY <2>2, StepPlaces DEF PlacesOf
<1> DEFINE q == NextAt(g, w[b])
<1>3. /\ g \in ConfigType /\ OnPath(g, w[b]) /\ run[b] \in Nat
      /\ insideSmm <=> w[b] \in 51 .. 85
      /\ Own(g, w[b], run[b], present[b], busy[b], requested[b], mtrr[b])
      /\ \A d \in Cpu \ {b} : w[d] \notin BspPlaces
      /\ \A d \in Cpu : w[d] \in 20 .. 39 =>
           /\ Match(g, w[d], run[d], busy[d], requested[d], w[b])
           /\ Own(g, w[d], run[d], present[d], busy[d], requested[d], mtrr[d])
           /\ d # b
  BY <1>2, BspFacts
<1>4. \A d \in Cpu : d \in PresentAps(b) <=> w[d] \in 21 .. 38
  BY <1>2, PresentMembers
<1>5. todo' = [todo EXCEPT ![b] = Rest(g, q)] /\ config' = config
  BY <1>1, <1>2, ContinuesAt DEF AssignProcedures
<1>6. q = w[b] + 1
  BY <1>2 DEF NextAt
<1>7. OnPath(g, q)
  BY <1>2, <1>3, NextOnPath
<1> HIDE DEF q
<1>8. Typed'
  BY <1>1, <1>2, SmmAssumption DEF Typed, AssignProcedures, shared, cpuData, smi, local
<1>9. UNCHANGED <<bspIndex, bsp, cpuCount, apCount, smiPending, insideSmm,
                  allCpusInSync, run, present, busy, mtrr>>
  BY DEF AssignProcedures, shared, cpuData, smi, local
<1>10. Quietly(g, w[b], q)
  BY <1>2, <1>3, <1>6 DEF Quietly, IsLocked, SignalledFrom, IsGathered, OnPath, Gathers
<1>11. insideSmm' <=> q \in 51 .. 85
  BY <1>2, <1>3, <1>6, <1>9
<1>12. /\ \A d \in Cpu : requested'[d] = (requested[d] \/ w[d] \in 21 .. 38)
       /\ requested'[b] = requested[b]
  BY <1>1, <1>2, <1>4 DEF AssignProcedures, Typed
<1>13. OthersKept(w, b)
  BY <1>1, <1>9, <1>12 DEF OthersKept, Typed
<1>14. MembersFit(g, w, q)
  <2> SUFFICES ASSUME NEW d \in Cpu, w[d] \in 20 .. 39
               PROVE  /\ Match(g, w[d], run'[d], busy'[d], requested'[d], q)
                      /\ Own(g, w[d], run'[d], present[d], busy'[d], requested'[d], mtrr[d])
    BY DEF MembersFit
  <2>1. /\ d # b /\ Match(g, w[d], run[d], busy[d], requested[d], w[b])
        /\ Own(g, w[d], run[d], present[d], busy[d], requested[d], mtrr[d])
    BY <1>3
  <2>2. /\ OnPath(g, w[d]) /\ run[d] \in Nat /\ busy[d] \in BOOLEAN
        /\ requested[d] \in BOOLEAN
    BY <1>1 DEF Where, Typed
  <2>7. CASE w[d] = 20
    <3>1. requested'[d] = requested[d]
      BY <1>12, <2>2, <2>7
    <3>2. w[b] \in 66 .. 81 /\ q \in 66 .. 81
      BY <1>2, <1>6
    <3>3. Match(g, w[d], run[d], busy[d], requested[d], q)
      BY <2>1, <2>7, <3>2, NotYetPresent
    <3> QED
      BY <1>9, <2>1, <3>1, <3>3
  <2> SUFFICES ASSUME w[d] # 20
               PROVE  /\ Match(g, w[d], run'[d], busy'[d], requested'[d], q)
                      /\ Own(g, w[d], run'[d], present[d], busy'[d], requested'[d], mtrr[d])
    BY <2>7
  <2>4. w[d] = 30
    BY <1>2, <1>3, <2>1, <2>2, BroadcastAt
  <2>5. requested'[d] /\ q = w[b] + 1
    <3>1. w[d] \in 21 .. 38
      BY <2>4
    <3>2. requested'[d]
      BY <1>12, <3>1, Zenon
    <3>3. q = w[b] + 1
      BY <1>2, <1>6
    <3> QED
      BY <3>2, <3>3
  <2>6. Match(g, w[d], run[d], busy[d], requested'[d], q)
    BY <1>2, <1>3, <2>1, <2>2, <2>4, <2>5, AssignFits, ZenonT(40)
  <2> QED
    BY <1>9, <2>1, <2>4, <2>6 DEF Own
<1>15. BspFits(g, b, q)
  BY <1>2, <1>3, <1>6, <1>9, <1>12 DEF BspFits, Own
<1>16. UNCHANGED <<bspIndex, bsp, cpuCount, apCount, smiPending>> /\ run'[b] = run[b]
  BY <1>9, <1>12
<1>17. allCpusInSync' = (allCpusInSync \/ w[b] \in {54, 82})
  BY <1>1, <1>2, <1>9 DEF Typed
<1>18. ~Gathers(g) /\ q >= 85 => \A d \in Cpu : w[d] \notin 10 .. 13
  <2>1. ~Gathers(g) /\ q >= 85 => IsGathered(g, w[b])
    BY <1>2, <1>3, <1>6 DEF IsGathered, OnPath, Gathers
  <2> QED
    BY <2>1 DEF Inv, Quiesced
<1> QED
  BY <1>5, <1>7, <1>8, <1>10, <1>11, <1>13, <1>14, <1>15, <1>16, <1>17, <1>18, BspQuiet

\* The BSP releases the APs at a barrier or to a procedure.
LEMMA ReleaseAllAPsQuietKeeps ==
  ASSUME NEW g, NEW w, Inv(g, w), NEW b \in Cpu, ReleaseAllAPs(b),
         NextAt(g, w[b]) # 92
  PROVE  \E v : Inv(g, v)'
<1>1. w \in [Cpu -> Places] /\ Where(g, w) /\ Typed
  BY DEF Inv
<1>2. w[b] \in {57, 60, 63, 70, 74, 80, 86, 88, 91}
  <2>1. At(b, "release")
    BY DEF ReleaseAllAPs
  <2>2. w[b] \in Places \ {0} /\ StepAt(w[b]) = "release"
    BY <1>1, <2>1, AtPlace
  <2> QED
    BY <2>2, StepPlaces DEF PlacesOf
<1> DEFINE q == NextAt(g, w[b])
<1>3. /\ g \in ConfigType /\ OnPath(g, w[b]) /\ run[b] \in Nat
      /\ insideSmm <=> w[b] \in 51 .. 85
      /\ Own(g, w[b], run[b], present[b], busy[b], requested[b], mtrr[b])
      /\ \A d \in Cpu \ {b} : w[d] \notin BspPlaces
      /\ \A d \in Cpu : w[d] \in 20 .. 39 =>
           /\ Match(g, w[d], run[d], busy[d], requested[d], w[b])
           /\ Own(g, w[d], run[d], present[d], busy[d], requested[d], mtrr[d])
           /\ d # b
  BY <1>2, BspFacts
<1>4. \A d \in Cpu : d \in PresentAps(b) <=> w[d] \in 21 .. 38
  BY <1>2, PresentMembers
<1>5. todo' = [todo EXCEPT ![b] = Rest(g, q)] /\ config' = config
  BY <1>1, <1>2, ContinuesAt DEF ReleaseAllAPs
<1>6. /\ q \in {58, 61, 64, 66, 71, 81, 87, 89, 90}
      /\ w[b] \in {57, 60, 63, 70, 74, 80, 86, 88}
      /\ w[b] = 57 => q = IF g.mtrrs THEN 58 ELSE 64
      /\ w[b] = 60 => q = 61
      /\ w[b] = 63 => q = 64
      /\ w[b] = 70 => q = 71
      /\ w[b] = 74 => q = 66
      /\ w[b] = 80 => q = 81
      /\ w[b] = 86 => q = IF g.mtrrs THEN 87 ELSE 90
      /\ w[b] = 88 => q = 89
  BY <1>2 DEF NextAt
<1>7. OnPath(g, q)
  BY <1>2, <1>3, NextOnPath
<1> HIDE DEF q
<1>8. Typed'
  BY <1>1, <1>2, SmmAssumption DEF Typed, ReleaseAllAPs, shared, cpuData, smi, local
<1>9. UNCHANGED <<bspIndex, bsp, cpuCount, apCount, smiPending, insideSmm,
                  allCpusInSync, present, busy, requested, mtrr>>
  BY DEF ReleaseAllAPs, shared, cpuData, smi, local
<1>10. Quietly(g, w[b], q)
  BY <1>2, <1>3, <1>6 DEF Quietly, IsLocked, SignalledFrom, IsGathered, OnPath, Gathers
<1>11. insideSmm' <=> q \in 51 .. 85
  BY <1>2, <1>3, <1>6, <1>9
<1>12. /\ \A d \in Cpu : run'[d] = IF w[d] \in 21 .. 38 THEN run[d] + 1 ELSE run[d]
       /\ run'[b] = run[b]
  BY <1>1, <1>2, <1>4 DEF ReleaseAllAPs
<1>13. OthersKept(w, b)
  BY <1>9, <1>12 DEF OthersKept
<1>14. MembersFit(g, w, q)
  <2> SUFFICES ASSUME NEW d \in Cpu, w[d] \in 20 .. 39
               PROVE  /\ Match(g, w[d], run'[d], busy'[d], requested'[d], q)
                      /\ Own(g, w[d], run'[d], present[d], busy'[d], requested'[d], mtrr[d])
    BY DEF MembersFit
  <2>1. /\ d # b /\ Match(g, w[d], run[d], busy[d], requested[d], w[b])
        /\ Own(g, w[d], run[d], present[d], busy[d], requested[d], mtrr[d])
    BY <1>3
  <2>2. /\ OnPath(g, w[d]) /\ run[d] \in Nat /\ busy[d] \in BOOLEAN
        /\ requested[d] \in BOOLEAN
    BY <1>1 DEF Where, Typed
  <2>6. CASE w[d] = 20 /\ w[b] \in Releasing
    <3>1. run'[d] = run[d]
      BY <1>12, <2>6
    <3>2. w[b] \in 66 .. 81 /\ q \in 66 .. 81
      BY <1>6, <2>6 DEF Releasing
    <3>3. Match(g, w[d], run[d], busy[d], requested[d], q)
      BY <2>1, <2>6, <3>2, NotYetPresent
    <3> QED
      BY <1>9, <2>1, <3>1, <3>3
  <2> SUFFICES ASSUME w[b] \in Releasing => w[d] # 20
               PROVE  /\ Match(g, w[d], run'[d], busy'[d], requested'[d], q)
                      /\ Own(g, w[d], run'[d], present[d], busy'[d], requested'[d], mtrr[d])
    BY <2>6
  <2>3. Releases(g, w[d], run[d], busy[d], requested[d], w[b], run[d] + 1, q)
    BY <1>2, <2>2 DEF Releases, q
  <2>4. w[d] \in 21 .. 38 /\ Match(g, w[d], run[d] + 1, busy[d], requested[d], q)
    BY <1>3, <2>1, <2>3, ReleaseFits
  <2>5. run'[d] = run[d] + 1
    BY <1>12, <2>4
  <2> QED
    BY <1>9, <2>1, <2>4, <2>5 DEF Own
<1>15. BspFits(g, b, q)
  BY <1>2, <1>3, <1>6, <1>9, <1>12 DEF BspFits, Own
<1>16. UNCHANGED <<bspIndex, bsp, cpuCount, apCount, smiPending>> /\ run'[b] = run[b]
  BY <1>9, <1>12
<1>17. allCpusInSync' = (allCpusInSync \/ w[b] \in {54, 82})
  BY <1>1, <1>2, <1>9 DEF Typed
<1>18. ~Gathers(g) /\ q >= 85 => \A d \in Cpu : w[d] \notin 10 .. 13
  <2>1. ~Gathers(g) /\ q >= 85 => IsGathered(g, w[b])
    BY <1>2, <1>3, <1>6 DEF IsGathered, OnPath, Gathers
  <2> QED
    BY <2>1 DEF Inv, Quiesced
<1> QED
  BY <1>5, <1>7, <1>8, <1>10, <1>11, <1>13, <1>14, <1>15, <1>16, <1>17, <1>18, BspQuiet

\* StartupThisAp keeps the invariant.
LEMMA StartupThisApKeeps ==
  ASSUME NEW g, NEW w, Inv(g, w), NEW b \in Cpu, NEW ap \in Cpu,
         NEW block \in BOOLEAN, StartupThisAp(b, ap, block)
  PROVE  \E v : Inv(g, v)'
<1>1. w \in [Cpu -> Places] /\ Where(g, w) /\ Typed
  BY DEF Inv
<1>2. w[b] \in {66}
  <2>1. At(b, "handler")
    BY DEF StartupThisAp
  <2>2. w[b] \in Places \ {0} /\ StepAt(w[b]) = "handler"
    BY <1>1, <2>1, AtPlace
  <2> QED
    BY <2>2, StepPlaces DEF PlacesOf
<1> DEFINE q == IF block THEN 67 ELSE 66
<1>3. /\ g \in ConfigType /\ OnPath(g, w[b]) /\ run[b] \in Nat
      /\ insideSmm <=> w[b] \in 51 .. 85
      /\ Own(g, w[b], run[b], present[b], busy[b], requested[b], mtrr[b])
      /\ \A d \in Cpu \ {b} : w[d] \notin BspPlaces
      /\ \A d \in Cpu : w[d] \in 20 .. 39 =>
           /\ Match(g, w[d], run[d], busy[d], requested[d], w[b])
           /\ Own(g, w[d], run[d], present[d], busy[d], requested[d], mtrr[d])
           /\ d # b
  BY <1>2, BspFacts
<1>4. \A d \in Cpu : d \in PresentAps(b) <=> w[d] \in 21 .. 38
  BY <1>2, PresentMembers
<1>5. todo' = [todo EXCEPT ![b] = Rest(g, q)] /\ config' = config
  <2>1. todo[b] = Rest(g, 66) /\ config' = config
    BY <1>1, <1>2 DEF Where, StartupThisAp, Schedule
  <2>2. CASE block
    BY <2>1, <2>2, BroadcastProgram, ZenonT(40) DEF StartupThisAp, Call
  <2>3. CASE ~block
    <3>1. todo' = todo /\ q = 66
      BY <2>3 DEF StartupThisAp
    <3>2. todo = [todo EXCEPT ![b] = todo[b]]
      BY <1>1, TodoSame
    <3> QED
      BY <2>1, <3>1, <3>2
  <2> QED
    BY <2>2, <2>3
<1>6. q \in {66, 67}
  OBVIOUS
<1>7. OnPath(g, q)
  BY <1>6 DEF OnPath
<1> HIDE DEF q
<1>8. Typed'
  BY <1>1, <1>2, SmmAssumption DEF Typed, StartupThisAp, Schedule, shared, cpuData, smi, local
<1>9. UNCHANGED <<bspIndex, bsp, cpuCount, apCount, smiPending, insideSmm,
                  allCpusInSync, present, mtrr>>
  BY DEF StartupThisAp, Schedule, shared, cpuData, smi, local
<1>10. Quietly(g, w[b], q)
  BY <1>2, <1>3, <1>6 DEF Quietly, IsLocked, SignalledFrom, IsGathered, OnPath, Gathers
<1>11. insideSmm' <=> q \in 51 .. 85
  BY <1>2, <1>3, <1>6, <1>9
<1>12. /\ w[ap] \in 21 .. 38 /\ ~busy[ap] /\ ap # b
       /\ busy'[ap] = TRUE /\ requested'[ap] = TRUE /\ run'[ap] = run[ap] + 1
       /\ \A d \in Cpu \ {ap} : /\ busy'[d] = busy[d] /\ requested'[d] = requested[d]
                                /\ run'[d] = run[d]
       /\ busy'[b] = busy[b] /\ requested'[b] = requested[b] /\ run'[b] = run[b]
  <2>1. w[ap] \in 21 .. 38 /\ ~busy[ap] /\ ap # b
    BY <1>4 DEF StartupThisAp, Schedule, PresentAps
  <2>2. /\ busy' = [busy EXCEPT ![ap] = TRUE]
        /\ requested' = [requested EXCEPT ![ap] = TRUE]
        /\ run' = [run EXCEPT ![ap] = @ + 1]
    BY DEF StartupThisAp, Schedule
  <2> QED
    BY <1>1, <2>1, <2>2 DEF Typed
<1>13. OthersKept(w, b)
  BY <1>9, <1>12 DEF OthersKept
<1>14. MembersFit(g, w, q)
  <2> SUFFICES ASSUME NEW d \in Cpu, w[d] \in 20 .. 39
               PROVE  /\ Match(g, w[d], run'[d], busy'[d], requested'[d], q)
                      /\ Own(g, w[d], run'[d], present[d], busy'[d], requested'[d], mtrr[d])
    BY DEF MembersFit
  <2>1. /\ d # b /\ Match(g, w[d], run[d], busy[d], requested[d], w[b])
        /\ Own(g, w[d], run[d], present[d], busy[d], requested[d], mtrr[d])
    BY <1>3
  <2>2. /\ OnPath(g, w[d]) /\ run[d] \in Nat /\ busy[d] \in BOOLEAN
        /\ requested[d] \in BOOLEAN
    BY <1>1 DEF Where, Typed
  <2>3. CASE d = ap
    <3>1. /\ w[d] \in 21 .. 38 /\ ~busy[d] /\ busy'[d] /\ requested'[d]
          /\ run'[d] = run[d] + 1 /\ Match(g, w[d], run[d], busy[d], requested[d], 66)
      BY <1>2, <1>12, <2>1, <2>3
    <3>2. w[d] = 30 /\ Match(g, w[d], run'[d], busy'[d], requested'[d], q)
      <4>1. Starts(w[d], run[d], busy[d], w[b], q, run'[d], busy'[d], requested'[d])
        BY <1>2, <1>6, <2>2, <3>1 DEF Starts
      <4> QED
        BY <2>1, <4>1, StartupFits
    <3> QED
      BY <2>1, <3>2 DEF Own
  <2>4. CASE d # ap
    <3>1. Follows(g, w[d], busy[d], requested[d], w[b], q)
      BY <1>2, <1>6 DEF Follows
    <3>2. Match(g, w[d], run[d], busy[d], requested[d], q)
      BY <1>3, <1>7, <2>1, <2>2, <3>1, MoveFits
    <3> QED
      BY <1>12, <2>1, <2>4, <3>2
  <2> QED
    BY <2>3, <2>4
<1>15. BspFits(g, b, q)
  BY <1>2, <1>3, <1>6, <1>9, <1>12 DEF BspFits, Own
<1>16. UNCHANGED <<bspIndex, bsp, cpuCount, apCount, smiPending>> /\ run'[b] = run[b]
  BY <1>9, <1>12
<1>17. allCpusInSync' = (allCpusInSync \/ w[b] \in {54, 82})
  BY <1>1, <1>2, <1>9 DEF Typed
<1>18. ~Gathers(g) /\ q >= 85 => \A d \in Cpu : w[d] \notin 10 .. 13
  <2>1. ~Gathers(g) /\ q >= 85 => IsGathered(g, w[b])
    BY <1>2, <1>3, <1>6 DEF IsGathered, OnPath, Gathers
  <2> QED
    BY <2>1 DEF Inv, Quiesced
<1> QED
  BY <1>5, <1>7, <1>8, <1>10, <1>11, <1>13, <1>14, <1>15, <1>16, <1>17, <1>18, BspQuiet

\* ConfigSmmCodeAccessCheck keeps the invariant.
LEMMA ConfigSmmCodeAccessCheckKeeps ==
  ASSUME NEW g, NEW w, Inv(g, w), NEW b \in Cpu, NEW ap \in Cpu,
         ConfigSmmCodeAccessCheck(b, ap)
  PROVE  \E v : Inv(g, v)'
<1>1. w \in [Cpu -> Places] /\ Where(g, w) /\ Typed
  BY DEF Inv
<1>2. w[b] \in {76}
  <2>1. At(b, "tasks")
    BY DEF ConfigSmmCodeAccessCheck
  <2>2. w[b] \in Places \ {0} /\ StepAt(w[b]) = "tasks"
    BY <1>1, <2>1, AtPlace
  <2> QED
    BY <2>2, StepPlaces DEF PlacesOf
<1> DEFINE q == 77
<1>3. /\ g \in ConfigType /\ OnPath(g, w[b]) /\ run[b] \in Nat
      /\ insideSmm <=> w[b] \in 51 .. 85
      /\ Own(g, w[b], run[b], present[b], busy[b], requested[b], mtrr[b])
      /\ \A d \in Cpu \ {b} : w[d] \notin BspPlaces
      /\ \A d \in Cpu : w[d] \in 20 .. 39 =>
           /\ Match(g, w[d], run[d], busy[d], requested[d], w[b])
           /\ Own(g, w[d], run[d], present[d], busy[d], requested[d], mtrr[d])
           /\ d # b
  BY <1>2, BspFacts
<1>4. \A d \in Cpu : d \in PresentAps(b) <=> w[d] \in 21 .. 38
  BY <1>2, PresentMembers
<1>5. todo' = [todo EXCEPT ![b] = Rest(g, q)] /\ config' = config
  <2>1. todo[b] = Rest(g, 76) /\ config' = config
    BY <1>1, <1>2 DEF Where, ConfigSmmCodeAccessCheck, Schedule
  <2> QED
    BY <2>1, TasksProgram, ZenonT(40) DEF ConfigSmmCodeAccessCheck, Call
<1>6. q = 77
  OBVIOUS
<1>7. OnPath(g, q)
  BY <1>6 DEF OnPath
<1> HIDE DEF q
<1>8. Typed'
  BY <1>1, <1>2, SmmAssumption DEF Typed, ConfigSmmCodeAccessCheck, Schedule, shared, cpuData, smi, local
<1>9. UNCHANGED <<bspIndex, bsp, cpuCount, apCount, smiPending, insideSmm,
                  allCpusInSync, present, mtrr>>
  BY DEF ConfigSmmCodeAccessCheck, Schedule, shared, cpuData, smi, local
<1>10. Quietly(g, w[b], q)
  BY <1>2, <1>3, <1>6 DEF Quietly, IsLocked, SignalledFrom, IsGathered, OnPath, Gathers
<1>11. insideSmm' <=> q \in 51 .. 85
  BY <1>2, <1>3, <1>6, <1>9
<1>12. /\ w[ap] \in 21 .. 38 /\ ~busy[ap] /\ ap # b
       /\ busy'[ap] = TRUE /\ requested'[ap] = TRUE /\ run'[ap] = run[ap] + 1
       /\ \A d \in Cpu \ {ap} : /\ busy'[d] = busy[d] /\ requested'[d] = requested[d]
                                /\ run'[d] = run[d]
       /\ busy'[b] = busy[b] /\ requested'[b] = requested[b] /\ run'[b] = run[b]
  <2>1. w[ap] \in 21 .. 38 /\ ~busy[ap] /\ ap # b
    BY <1>4 DEF ConfigSmmCodeAccessCheck, Schedule, PresentAps
  <2>2. /\ busy' = [busy EXCEPT ![ap] = TRUE]
        /\ requested' = [requested EXCEPT ![ap] = TRUE]
        /\ run' = [run EXCEPT ![ap] = @ + 1]
    BY DEF ConfigSmmCodeAccessCheck, Schedule
  <2> QED
    BY <1>1, <2>1, <2>2 DEF Typed
<1>13. OthersKept(w, b)
  BY <1>9, <1>12 DEF OthersKept
<1>14. MembersFit(g, w, q)
  <2> SUFFICES ASSUME NEW d \in Cpu, w[d] \in 20 .. 39
               PROVE  /\ Match(g, w[d], run'[d], busy'[d], requested'[d], q)
                      /\ Own(g, w[d], run'[d], present[d], busy'[d], requested'[d], mtrr[d])
    BY DEF MembersFit
  <2>1. /\ d # b /\ Match(g, w[d], run[d], busy[d], requested[d], w[b])
        /\ Own(g, w[d], run[d], present[d], busy[d], requested[d], mtrr[d])
    BY <1>3
  <2>2. /\ OnPath(g, w[d]) /\ run[d] \in Nat /\ busy[d] \in BOOLEAN
        /\ requested[d] \in BOOLEAN
    BY <1>1 DEF Where, Typed
  <2>3. CASE d = ap
    <3>1. /\ w[d] \in 21 .. 38 /\ ~busy[d] /\ busy'[d] /\ requested'[d]
          /\ run'[d] = run[d] + 1 /\ Match(g, w[d], run[d], busy[d], requested[d], 76)
      BY <1>2, <1>12, <2>1, <2>3
    <3>2. w[d] = 30 /\ Match(g, w[d], run'[d], busy'[d], requested'[d], q)
      <4>1. Starts(w[d], run[d], busy[d], w[b], q, run'[d], busy'[d], requested'[d])
        BY <1>2, <1>6, <2>2, <3>1 DEF Starts
      <4> QED
        BY <2>1, <4>1, StartupFits
    <3> QED
      BY <2>1, <3>2 DEF Own
  <2>4. CASE d # ap
    <3>1. Follows(g, w[d], busy[d], requested[d], w[b], q)
      BY <1>2, <1>6 DEF Follows
    <3>2. Match(g, w[d], run[d], busy[d], requested[d], q)
      BY <1>3, <1>7, <2>1, <2>2, <3>1, MoveFits
    <3> QED
      BY <1>12, <2>1, <2>4, <3>2
  <2> QED
    BY <2>3, <2>4
<1>15. BspFits(g, b, q)
  BY <1>2, <1>3, <1>6, <1>9, <1>12 DEF BspFits, Own
<1>16. UNCHANGED <<bspIndex, bsp, cpuCount, apCount, smiPending>> /\ run'[b] = run[b]
  BY <1>9, <1>12
<1>17. allCpusInSync' = (allCpusInSync \/ w[b] \in {54, 82})
  BY <1>1, <1>2, <1>9 DEF Typed
<1>18. ~Gathers(g) /\ q >= 85 => \A d \in Cpu : w[d] \notin 10 .. 13
  <2>1. ~Gathers(g) /\ q >= 85 => IsGathered(g, w[b])
    BY <1>2, <1>3, <1>6 DEF IsGathered, OnPath, Gathers
  <2> QED
    BY <2>1 DEF Inv, Quiesced
<1> QED
  BY <1>5, <1>7, <1>8, <1>10, <1>11, <1>13, <1>14, <1>15, <1>16, <1>17, <1>18, BspQuiet

\* StartupAllAPs keeps the invariant.
LEMMA StartupAllAPsKeeps ==
  ASSUME NEW g, NEW w, Inv(g, w), NEW b \in Cpu, NEW block \in BOOLEAN,
         StartupAllAPs(b, block)
  PROVE  \E v : Inv(g, v)'
<1>1. w \in [Cpu -> Places] /\ Where(g, w) /\ Typed
  BY DEF Inv
<1>2. w[b] = 66 \/ (w[b] = 76 /\ block)
  <2>1. CASE At(b, "handler")
    <3>1. w[b] \in Places \ {0} /\ StepAt(w[b]) = "handler"
      BY <1>1, <2>1, AtPlace
    <3> QED
      BY <3>1, StepPlaces DEF PlacesOf
  <2>2. CASE At(b, "tasks") /\ block
    <3>1. w[b] \in Places \ {0} /\ StepAt(w[b]) = "tasks"
      BY <1>1, <2>2, AtPlace
    <3> QED
      BY <2>2, <3>1, StepPlaces DEF PlacesOf
  <2> QED
    BY <2>1, <2>2 DEF StartupAllAPs
<1> DEFINE q == IF w[b] = 76 THEN 78 ELSE IF block THEN 68 ELSE 72
<1>3. /\ g \in ConfigType /\ OnPath(g, w[b]) /\ run[b] \in Nat
      /\ insideSmm <=> w[b] \in 51 .. 85
      /\ Own(g, w[b], run[b], present[b], busy[b], requested[b], mtrr[b])
      /\ \A d \in Cpu \ {b} : w[d] \notin BspPlaces
      /\ \A d \in Cpu : w[d] \in 20 .. 39 =>
           /\ Match(g, w[d], run[d], busy[d], requested[d], w[b])
           /\ Own(g, w[d], run[d], present[d], busy[d], requested[d], mtrr[d])
           /\ d # b
  BY <1>2, BspFacts
<1>4. \A d \in Cpu : d \in PresentAps(b) <=> w[d] \in 21 .. 38
  BY <1>2, PresentMembers
<1>5. todo' = [todo EXCEPT ![b] = Rest(g, q)] /\ config' = config
  <2>1. todo[b] = Rest(g, w[b]) /\ config' = config
    BY <1>1, <1>2 DEF Where, StartupAllAPs
  <2>2. CASE block
    <3>1. <<"acquire", "assign", "release">> \o If(block, <<"drain">>)
            = <<"acquire", "assign", "release", "drain">>
      <4>1. If(block, <<"drain">>) = <<"drain">>
        BY <2>2 DEF If
      <4>2. <<"acquire", "assign", "release">> \o <<"drain">>
              = <<"acquire", "assign", "release", "drain">>
        BY AppendDrain
      <4> QED
        BY <4>1, <4>2
    <3>2. todo' = [todo EXCEPT ![b] =
                     <<"acquire", "assign", "release", "drain">> \o Rest(g, w[b])]
      BY <2>1, <3>1 DEF StartupAllAPs, Call
    <3>3. CASE w[b] = 66
      <4>1. q = 68
        BY <2>2, <3>3
      <4>2. <<"acquire", "assign", "release", "drain">> \o Rest(g, 66) = Rest(g, 68)
        BY BroadcastProgram
      <4> HIDE DEF q
      <4> QED
        BY <2>1, <3>2, <3>3, <4>1, <4>2, ZenonT(40)
    <3>4. CASE w[b] = 76
      <4>1. q = 78
        BY <3>4
      <4> QED
        BY <2>1, <3>2, <3>4, <4>1, TasksProgram, ZenonT(40)
    <3> QED
      BY <1>2, <3>3, <3>4
  <2>3. CASE ~block
    <3>1. <<"acquire", "assign", "release">> \o If(block, <<"drain">>)
            = <<"acquire", "assign", "release">>
      BY <2>3 DEF If
    <3>2. w[b] = 66 /\ q = 72
      BY <1>2, <2>3
    <3>3. todo' = [todo EXCEPT ![b] = <<"acquire", "assign", "release">> \o Rest(g, 66)]
      BY <2>1, <3>1, <3>2 DEF StartupAllAPs, Call
    <3>4. <<"acquire", "assign", "release">> \o Rest(g, 66) = Rest(g, 72)
      BY BroadcastProgram
    <3> HIDE DEF q
    <3> QED
      BY <2>1, <3>2, <3>3, <3>4, ZenonT(40)
  <2> QED
    BY <2>2, <2>3
<1>6. (w[b] = 66 /\ q \in {68, 72}) \/ (w[b] = 76 /\ q = 78)
  BY <1>2
<1>7. OnPath(g, q)
  BY <1>6 DEF OnPath
<1> HIDE DEF q
<1>8. Typed'
  BY <1>1, <1>2, SmmAssumption DEF Typed, StartupAllAPs, shared, cpuData, smi, local
<1>9. UNCHANGED <<bspIndex, bsp, cpuCount, apCount, smiPending, insideSmm,
                  allCpusInSync, run, present, busy, requested, mtrr>>
  BY DEF StartupAllAPs, shared, cpuData, smi, local
<1>10. Quietly(g, w[b], q)
  BY <1>2, <1>3, <1>6 DEF Quietly, IsLocked, SignalledFrom, IsGathered, OnPath, Gathers
<1>11. insideSmm' <=> q \in 51 .. 85
  BY <1>2, <1>3, <1>6, <1>9
<1>12. run'[b] = run[b]
  BY <1>9
<1>13. OthersKept(w, b)
  BY <1>9 DEF OthersKept
<1>14. MembersFit(g, w, q)
  <2> SUFFICES ASSUME NEW d \in Cpu, w[d] \in 20 .. 39
               PROVE  /\ Match(g, w[d], run'[d], busy'[d], requested'[d], q)
                      /\ Own(g, w[d], run'[d], present[d], busy'[d], requested'[d], mtrr[d])
    BY DEF MembersFit
  <2>1. /\ d # b /\ Match(g, w[d], run[d], busy[d], requested[d], w[b])
        /\ Own(g, w[d], run[d], present[d], busy[d], requested[d], mtrr[d])
    BY <1>3
  <2>2. /\ OnPath(g, w[d]) /\ run[d] \in Nat /\ busy[d] \in BOOLEAN
        /\ requested[d] \in BOOLEAN
    BY <1>1 DEF Where, Typed
  <2>3. Follows(g, w[d], busy[d], requested[d], w[b], q)
    BY <1>2, <1>6 DEF Follows
  <2>4. Match(g, w[d], run[d], busy[d], requested[d], q)
    BY <1>3, <1>7, <2>1, <2>2, <2>3, MoveFits
  <2> QED
    BY <1>9, <2>1, <2>4
<1>15. BspFits(g, b, q)
  BY <1>2, <1>3, <1>6, <1>9, <1>12 DEF BspFits, Own
<1>16. UNCHANGED <<bspIndex, bsp, cpuCount, apCount, smiPending>> /\ run'[b] = run[b]
  BY <1>9, <1>12
<1>17. allCpusInSync' = (allCpusInSync \/ w[b] \in {54, 82})
  BY <1>1, <1>2, <1>9 DEF Typed
<1>18. ~Gathers(g) /\ q >= 85 => \A d \in Cpu : w[d] \notin 10 .. 13
  <2>1. ~Gathers(g) /\ q >= 85 => IsGathered(g, w[b])
    BY <1>2, <1>3, <1>6 DEF IsGathered, OnPath, Gathers
  <2> QED
    BY <2>1 DEF Inv, Quiesced
<1> QED
  BY <1>5, <1>7, <1>8, <1>10, <1>11, <1>13, <1>14, <1>15, <1>16, <1>17, <1>18, BspQuiet

(***************************************************************************)
(* The BSP begins, gathers the APs and passes the barriers.                *)
(***************************************************************************)
LEMMA PlaceAt ==
  ASSUME NEW g, NEW w \in [Cpu -> Places], Where(g, w), NEW c \in Cpu, w[c] # 0
  PROVE  At(c, StepAt(w[c]))
<1>1. w[c] \in Places \ {0} /\ todo[c] = Rest(g, w[c])
  BY DEF Where
<1> QED
  BY <1>1, FirstAndRest DEF At

\* Everybody stays called in when nothing is said to change.
LEMMA ReachedStill ==
  ASSUME NEW g, NEW w, Inv(g, w), NEW b \in Cpu, NEW q, w[b] \in 55 .. 93,
         w[b] <= 85 \/ q \notin 53 .. 85, UNCHANGED <<smiPending, allCpusInSync>>
  PROVE  CalledIn(g, w, q)
<1>1. Gathers(g) => /\ w[b] \in 55 .. 95 => allCpusInSync
                    /\ w[b] \in 53 .. 85 =>
                         \A d \in Cpu : /\ w[d] = 0 => smiPending[d]
                                        /\ w[d] = 5 => smiPending[d] \/ allCpusInSync
  BY DEF Inv, Reached
<1>2. Gathers(g) /\ q \in 53 .. 85 => w[b] \in 53 .. 85
  OBVIOUS
<1> QED
  BY <1>1, <1>2 DEF CalledIn

\* FlagInsideSmm keeps the invariant.
LEMMA FlagInsideSmmKeeps ==
  ASSUME NEW g, NEW w, Inv(g, w), NEW b \in Cpu, FlagInsideSmm(b)
  PROVE  \E v : Inv(g, v)'
<1>1. w \in [Cpu -> Places] /\ Where(g, w) /\ Typed
  BY DEF Inv
<1>2. w[b] \in {50}
  <2>1. At(b, "inside")
    BY DEF FlagInsideSmm
  <2>2. w[b] \in Places \ {0} /\ StepAt(w[b]) = "inside"
    BY <1>1, <2>1, AtPlace
  <2> QED
    BY <2>2, StepPlaces DEF PlacesOf
<1> DEFINE q == NextAt(g, w[b])
<1>3. /\ g \in ConfigType /\ OnPath(g, w[b]) /\ run[b] \in Nat
      /\ insideSmm <=> w[b] \in 51 .. 85
      /\ Own(g, w[b], run[b], present[b], busy[b], requested[b], mtrr[b])
      /\ \A d \in Cpu \ {b} : w[d] \notin BspPlaces
      /\ \A d \in Cpu : w[d] \in 20 .. 39 =>
           /\ Match(g, w[d], run[d], busy[d], requested[d], w[b])
           /\ Own(g, w[d], run[d], present[d], busy[d], requested[d], mtrr[d])
           /\ d # b
  BY <1>2, BspFacts
<1>4. \A d \in Cpu : d \in PresentAps(b) <=> w[d] \in 21 .. 38
  BY <1>2, PresentMembers
<1>5. todo' = [todo EXCEPT ![b] = Rest(g, q)] /\ config' = config
  BY <1>1, <1>2, ContinuesAt DEF FlagInsideSmm
<1>6. q = 51
  BY <1>2 DEF NextAt
<1>7. OnPath(g, q)
  BY <1>2, <1>3, NextOnPath
<1> HIDE DEF q
<1>8. UNCHANGED <<bspIndex, bsp, cpuCount, apCount, smiPending, allCpusInSync,
                  run, present, busy, requested, mtrr>>
  BY DEF FlagInsideSmm, shared, cpuData, smi, local
<1>9. /\ q \in 51 .. 94 /\ w[b] \in 50 .. 93 /\ UNCHANGED <<bspIndex, bsp>>
      /\ insideSmm' <=> q \in 51 .. 85
  BY <1>2, <1>6, <1>8 DEF FlagInsideSmm
<1>10. BspCounted(g, w, b, q)
  <2>1. /\ cpuCount = IF IsLocked(g, w[b]) THEN Locked ELSE Count(w, CheckedIn)
        /\ IsLocked(g, w[b]) /\ w[b] < 92 => apCount = Count(w, ApPlaces)
        /\ w[b] \in 50 .. 91 => run[b] = Count(w, Signalled(g, w[b]))
        /\ w[b] \in 92 .. 93 => run[b] + Count(w, ApPlaces) = apCount
    BY <1>2, BspFacts
  <2>2. Signalled(g, w[b]) = Signalled(g, q)
    <3>1. SignalledFrom(g, w[b]) = SignalledFrom(g, q)
      BY <1>2, <1>3, <1>6 DEF SignalledFrom, OnPath, Gathers
    <3> QED
      BY <3>1 DEF Signalled
  <2>3. ~IsLocked(g, w[b]) /\ ~IsLocked(g, q)
    BY <1>2, <1>3, <1>6 DEF IsLocked, OnPath, Gathers
  <2> QED
    BY <1>2, <1>6, <1>8, <2>1, <2>2, <2>3 DEF BspCounted
<1>11. Settled(g, w, b, q)
  BY <1>6 DEF Settled, IsGathered
<1>12. CalledIn(g, w, q)
  BY <1>6 DEF CalledIn
<1>13. OthersKept(w, b)
  BY <1>8 DEF OthersKept
<1>14. MembersFit(g, w, q)
  BY <1>2, <1>3 DEF MembersFit, Match
<1>15. BspFits(g, b, q)
  BY <1>2, <1>3, <1>6, <1>8 DEF BspFits, Own
<1>16. Typed'
  BY <1>1, <1>2, SmmAssumption DEF Typed, FlagInsideSmm, shared, cpuData, smi, local
<1> QED
  BY <1>5, <1>7, <1>8, <1>9, <1>10, <1>11, <1>12, <1>13, <1>14, <1>15, <1>16, BspGo

\* ClearSmiStatus keeps the invariant.
LEMMA ClearSmiStatusKeeps ==
  ASSUME NEW g, NEW w, Inv(g, w), NEW b \in Cpu, ClearSmiStatus(b),
         Timely
  PROVE  \E v : Inv(g, v)'
<1>1. w \in [Cpu -> Places] /\ Where(g, w) /\ Typed
  BY DEF Inv
<1>2. w[b] \in {51}
  <2>1. At(b, "status")
    BY DEF ClearSmiStatus
  <2>2. w[b] \in Places \ {0} /\ StepAt(w[b]) = "status"
    BY <1>1, <2>1, AtPlace
  <2> QED
    BY <2>2, StepPlaces DEF PlacesOf
<1> DEFINE q == NextAt(g, w[b])
<1>3. /\ g \in ConfigType /\ OnPath(g, w[b]) /\ run[b] \in Nat
      /\ insideSmm <=> w[b] \in 51 .. 85
      /\ Own(g, w[b], run[b], present[b], busy[b], requested[b], mtrr[b])
      /\ \A d \in Cpu \ {b} : w[d] \notin BspPlaces
      /\ \A d \in Cpu : w[d] \in 20 .. 39 =>
           /\ Match(g, w[d], run[d], busy[d], requested[d], w[b])
           /\ Own(g, w[d], run[d], present[d], busy[d], requested[d], mtrr[d])
           /\ d # b
  BY <1>2, BspFacts
<1>4. \A d \in Cpu : d \in PresentAps(b) <=> w[d] \in 21 .. 38
  BY <1>2, PresentMembers
<1>5. todo' = [todo EXCEPT ![b] = Rest(g, q)] /\ config' = config
  BY <1>1, <1>2, ContinuesAt DEF ClearSmiStatus
<1>6. q = IF Gathers(g) THEN 52 ELSE 65
  BY <1>2 DEF NextAt
<1>7. OnPath(g, q)
  BY <1>2, <1>3, NextOnPath
<1> HIDE DEF q
<1>8. UNCHANGED <<bspIndex, bsp, cpuCount, apCount, smiPending, insideSmm,
                  allCpusInSync, run, busy, requested, mtrr>>
  BY DEF ClearSmiStatus, shared, cpuData, smi, local
<1>9. /\ q \in 51 .. 94 /\ w[b] \in 50 .. 93 /\ UNCHANGED <<bspIndex, bsp>>
      /\ insideSmm' <=> q \in 51 .. 85
  BY <1>2, <1>3, <1>6, <1>8
<1>10. BspCounted(g, w, b, q)
  <2>1. /\ cpuCount = IF IsLocked(g, w[b]) THEN Locked ELSE Count(w, CheckedIn)
        /\ IsLocked(g, w[b]) /\ w[b] < 92 => apCount = Count(w, ApPlaces)
        /\ w[b] \in 50 .. 91 => run[b] = Count(w, Signalled(g, w[b]))
        /\ w[b] \in 92 .. 93 => run[b] + Count(w, ApPlaces) = apCount
    BY <1>2, BspFacts
  <2>2. Signalled(g, w[b]) = Signalled(g, q)
    <3>1. SignalledFrom(g, w[b]) = SignalledFrom(g, q)
      BY <1>2, <1>3, <1>6 DEF SignalledFrom, OnPath, Gathers
    <3> QED
      BY <3>1 DEF Signalled
  <2>3. ~IsLocked(g, w[b]) /\ ~IsLocked(g, q)
    BY <1>2, <1>3, <1>6 DEF IsLocked, OnPath, Gathers
  <2> QED
    BY <1>2, <1>6, <1>8, <2>1, <2>2, <2>3 DEF BspCounted
<1>11. Settled(g, w, b, q)
  <2>1. ASSUME NEW d \in Cpu
        PROVE  w[d] # 9 /\ w[d] # 96
    <3>1. ~At(d, "giveup") /\ ~At(d, "unsync")
      <4>1. todo[b] = Rest(g, 51) /\ 51 \in Places \ {0}
        BY <1>1, <1>2 DEF Where, Places
      <4>2. Head(todo[b]) = "status"
        BY DEF ClearSmiStatus, At
      <4>3. todo'[b] = Rest(g, q) /\ q \in Places \ {0}
        BY <1>1, <1>5, <1>6 DEF Where, Places
      <4>4. Head(todo'[b]) = StepAt(q)
        BY <4>3, FirstAndRest
      <4>5. StepAt(q) # "status"
        BY <1>6 DEF StepAt
      <4>6. todo'[b] # todo[b] /\ At(b, "status")
        BY <4>2, <4>4, <4>5 DEF ClearSmiStatus
      <4> QED
        BY <4>6 DEF Timely, BetweenTwoStores
    <3>2. w[d] = 9 => At(d, StepAt(9))
      BY <1>1, PlaceAt
    <3>3. w[d] = 96 => At(d, StepAt(96))
      BY <1>1, PlaceAt
    <3> QED
      BY <3>1, <3>2, <3>3 DEF StepAt
  <2>2. ~IsGathered(g, q) /\ q # 94
    BY <1>6 DEF IsGathered
  <2> QED
    BY <2>1, <2>2 DEF Settled
<1>12. CalledIn(g, w, q)
  BY <1>6 DEF CalledIn
<1>13. OthersKept(w, b)
  BY <1>1, <1>8 DEF OthersKept, ClearSmiStatus, Typed
<1>14. MembersFit(g, w, q)
  <2> SUFFICES ASSUME NEW d \in Cpu, w[d] \in 20 .. 39
               PROVE  /\ Match(g, w[d], run'[d], busy'[d], requested'[d], q)
                      /\ Own(g, w[d], run'[d], present[d], busy'[d], requested'[d], mtrr[d])
    BY DEF MembersFit
  <2>1. /\ d # b /\ Match(g, w[d], run[d], busy[d], requested[d], w[b])
        /\ Own(g, w[d], run[d], present[d], busy[d], requested[d], mtrr[d])
    BY <1>3
  <2>2. /\ OnPath(g, w[d]) /\ run[d] \in Nat /\ busy[d] \in BOOLEAN
        /\ requested[d] \in BOOLEAN
    BY <1>1 DEF Where, Typed
  <2>3. Follows(g, w[d], busy[d], requested[d], w[b], q)
    BY <1>2, <1>6 DEF Follows, q
  <2>4. Match(g, w[d], run[d], busy[d], requested[d], q)
    BY <1>3, <1>7, <2>1, <2>2, <2>3, MoveFits
  <2> QED
    BY <1>8, <2>1, <2>4
<1>15. BspFits(g, b, q)
  <2>1. present'[b] = TRUE
    BY <1>1 DEF ClearSmiStatus, Typed
  <2> QED
    BY <1>2, <1>3, <1>6, <1>8, <2>1 DEF BspFits, Own, Gathers
<1>16. Typed'
  <2>1. present' \in [Cpu -> BOOLEAN]
    BY <1>1 DEF Typed, ClearSmiStatus
  <2>2. calls' \in 0 .. MaxCalls
    BY SmmAssumption DEF ClearSmiStatus
  <2>3. smiStatus' \in BOOLEAN
    BY DEF ClearSmiStatus
  <2>4. UNCHANGED <<smiPending, smis, validSmi, waitFor>>
    BY DEF ClearSmiStatus
  <2> QED
    BY <1>1, <1>8, <2>1, <2>2, <2>3, <2>4 DEF Typed
<1> QED
  BY <1>5, <1>7, <1>8, <1>9, <1>10, <1>11, <1>12, <1>13, <1>14, <1>15, <1>16, BspGo

\* When N are counted, all have checked in.
LEMMA AllCheckedIn ==
  ASSUME NEW w \in [Cpu -> Places], Count(w, CheckedIn) >= N
  PROVE  \A d \in Cpu : w[d] \in CheckedIn
<1>1. IsFiniteSet(Cpu) /\ Cardinality(Cpu) = N /\ N \in Nat
  BY FS_Interval, SmmAssumption DEF Cpu
<1>2. Count(w, CheckedIn \cup Places) = N
  <2>1. {c \in Cpu : w[c] \in CheckedIn \cup Places} = Cpu
    OBVIOUS
  <2> QED
    BY <1>1, <2>1 DEF Count
<1>3. CheckedIn \subseteq CheckedIn \cup Places
  OBVIOUS
<1>5. Count(w, CheckedIn) \in Nat
  BY CountType
<1>4. /\ Count(w, CheckedIn) <= Count(w, CheckedIn \cup Places)
      /\ Count(w, CheckedIn) = Count(w, CheckedIn \cup Places) =>
           \A c \in Cpu : w[c] \in CheckedIn \cup Places => w[c] \in CheckedIn
  BY <1>3, CountAll
<1>6. Count(w, CheckedIn) = Count(w, CheckedIn \cup Places)
  BY <1>1, <1>2, <1>5, <1>4
<1> QED
  BY <1>4, <1>6

\* FirstArrivalWaitEnds keeps the invariant.
LEMMA FirstArrivalWaitEndsKeeps ==
  ASSUME NEW g, NEW w, Inv(g, w), NEW b \in Cpu, FirstArrivalWaitEnds(b)
  PROVE  \E v : Inv(g, v)'
<1>1. w \in [Cpu -> Places] /\ Where(g, w) /\ Typed
  BY DEF Inv
<1>2. w[b] \in {52}
  <2>1. At(b, "arrive")
    BY DEF FirstArrivalWaitEnds
  <2>2. w[b] \in Places \ {0} /\ StepAt(w[b]) = "arrive"
    BY <1>1, <2>1, AtPlace
  <2> QED
    BY <2>2, StepPlaces DEF PlacesOf
<1> DEFINE q == IF cpuCount < N THEN 53 ELSE 54
<1>3. /\ g \in ConfigType /\ OnPath(g, w[b]) /\ run[b] \in Nat
      /\ insideSmm <=> w[b] \in 51 .. 85
      /\ Own(g, w[b], run[b], present[b], busy[b], requested[b], mtrr[b])
      /\ \A d \in Cpu \ {b} : w[d] \notin BspPlaces
      /\ \A d \in Cpu : w[d] \in 20 .. 39 =>
           /\ Match(g, w[d], run[d], busy[d], requested[d], w[b])
           /\ Own(g, w[d], run[d], present[d], busy[d], requested[d], mtrr[d])
           /\ d # b
  BY <1>2, BspFacts
<1>4. \A d \in Cpu : d \in PresentAps(b) <=> w[d] \in 21 .. 38
  BY <1>2, PresentMembers
<1>5. todo' = [todo EXCEPT ![b] = Rest(g, q)] /\ config' = config
  <2>1. Tail(todo[b]) = Rest(g, 53)
    <3>1. Tail(Rest(g, 52)) = Rest(g, NextAt(g, 52)) /\ NextAt(g, 52) = 53
      <4>1. 52 \in Places \ {0}
        BY DEF Places
      <4>2. NextAt(g, 52) = 53
        BY DEF NextAt
      <4> QED
        BY <4>1, <4>2, FirstAndRest
    <3> QED
      BY <1>1, <1>2, <3>1 DEF Where
  <2>2. Tail(Tail(todo[b])) = Rest(g, 54)
    <3>1. Tail(Rest(g, 53)) = Rest(g, NextAt(g, 53)) /\ NextAt(g, 53) = 54
      <4>1. 53 \in Places \ {0}
        BY DEF Places
      <4>2. NextAt(g, 53) = 54
        BY DEF NextAt
      <4> QED
        BY <4>1, <4>2, FirstAndRest
    <3> QED
      BY <2>1, <3>1
  <2> QED
    BY <2>1, <2>2 DEF FirstArrivalWaitEnds, Continue, Goto
<1>6. q = IF cpuCount < N THEN 53 ELSE 54
  OBVIOUS
<1>7. OnPath(g, q)
  BY <1>2, <1>3, <1>6 DEF OnPath
<1> HIDE DEF q
<1>8. UNCHANGED <<bspIndex, bsp, cpuCount, apCount, insideSmm, allCpusInSync,
                  run, present, busy, requested, mtrr>>
  BY DEF FirstArrivalWaitEnds, shared, cpuData, local
<1>9. /\ q \in 51 .. 94 /\ w[b] \in 50 .. 93 /\ UNCHANGED <<bspIndex, bsp>>
      /\ insideSmm' <=> q \in 51 .. 85
  BY <1>2, <1>3, <1>6, <1>8
<1>10. BspCounted(g, w, b, q)
  <2>1. /\ cpuCount = IF IsLocked(g, w[b]) THEN Locked ELSE Count(w, CheckedIn)
        /\ IsLocked(g, w[b]) /\ w[b] < 92 => apCount = Count(w, ApPlaces)
        /\ w[b] \in 50 .. 91 => run[b] = Count(w, Signalled(g, w[b]))
        /\ w[b] \in 92 .. 93 => run[b] + Count(w, ApPlaces) = apCount
    BY <1>2, BspFacts
  <2>2. Signalled(g, w[b]) = Signalled(g, q)
    <3>1. SignalledFrom(g, w[b]) = SignalledFrom(g, q)
      BY <1>2, <1>3, <1>6 DEF SignalledFrom, OnPath, Gathers
    <3> QED
      BY <3>1 DEF Signalled
  <2>3. ~IsLocked(g, w[b]) /\ ~IsLocked(g, q)
    BY <1>2, <1>3, <1>6 DEF IsLocked, OnPath, Gathers
  <2> QED
    BY <1>2, <1>6, <1>8, <2>1, <2>2, <2>3 DEF BspCounted
<1>11. Settled(g, w, b, q)
  <2>1. ~IsGathered(g, q) /\ q # 94
    BY <1>6 DEF IsGathered
  <2> QED
    BY <1>2, <2>1 DEF Settled
<1>12. CalledIn(g, w, q)
  <2>1. CASE cpuCount < N
    <3>1. \A d \in Cpu : w[d] \in {0, 5} => ~present[d]
      BY DEF Inv, Flags, Own
    <3>2. \A d \in Cpu : ~present[d] => smiPending'[d]
      BY <2>1 DEF FirstArrivalWaitEnds
    <3> QED
      BY <1>6, <2>1, <3>1, <3>2 DEF CalledIn
  <2>2. CASE ~(cpuCount < N)
    <3>1. cpuCount = Count(w, CheckedIn)
      <4>1. ~IsLocked(g, w[b])
        BY <1>2 DEF IsLocked
      <4> QED
        BY <1>2, <4>1, BspFacts
    <3>2. Count(w, CheckedIn) \in Nat /\ N \in Nat
      BY CountType, SmmAssumption
    <3>3. \A d \in Cpu : w[d] \in CheckedIn
      <4>1. Count(w, CheckedIn) >= N
        BY <2>2, <3>1, <3>2
      <4> QED
        BY <1>1, <4>1, AllCheckedIn
    <3>4. \A d \in Cpu : w[d] # 0 /\ w[d] # 5
      BY <3>3 DEF CheckedIn
    <3> QED
      BY <1>6, <2>2, <3>4 DEF CalledIn
  <2> QED
    BY <2>1, <2>2
<1>13. OthersKept(w, b)
  BY <1>8 DEF OthersKept
<1>14. MembersFit(g, w, q)
  <2> SUFFICES ASSUME NEW d \in Cpu, w[d] \in 20 .. 39
               PROVE  /\ Match(g, w[d], run'[d], busy'[d], requested'[d], q)
                      /\ Own(g, w[d], run'[d], present[d], busy'[d], requested'[d], mtrr[d])
    BY DEF MembersFit
  <2>1. /\ d # b /\ Match(g, w[d], run[d], busy[d], requested[d], w[b])
        /\ Own(g, w[d], run[d], present[d], busy[d], requested[d], mtrr[d])
    BY <1>3
  <2>2. /\ OnPath(g, w[d]) /\ run[d] \in Nat /\ busy[d] \in BOOLEAN
        /\ requested[d] \in BOOLEAN
    BY <1>1 DEF Where, Typed
  <2>3. Follows(g, w[d], busy[d], requested[d], w[b], q)
    BY <1>2, <1>6 DEF Follows
  <2>4. Match(g, w[d], run[d], busy[d], requested[d], q)
    BY <1>3, <1>7, <2>1, <2>2, <2>3, MoveFits
  <2> QED
    BY <1>8, <2>1, <2>4
<1>15. BspFits(g, b, q)
  BY <1>2, <1>3, <1>6, <1>8 DEF BspFits, Own
<1>16. Typed'
  <2>1. smiPending' \in [Cpu -> BOOLEAN]
    <3>1. CASE cpuCount < N
      <4>1. smiPending' = [c \in Cpu |-> smiPending[c] \/ ~present[c]]
        BY <3>1 DEF FirstArrivalWaitEnds
      <4> QED
        BY <4>1
    <3>2. CASE ~(cpuCount < N)
      BY <1>1, <3>2 DEF Typed, FirstArrivalWaitEnds
    <3> QED
      BY <3>1, <3>2
  <2>2. UNCHANGED <<smiStatus, smis, validSmi, calls, waitFor>>
    BY DEF FirstArrivalWaitEnds, local
  <2> QED
    BY <1>1, <1>8, <2>1, <2>2 DEF Typed
<1> QED
  BY <1>5, <1>7, <1>8, <1>9, <1>10, <1>11, <1>12, <1>13, <1>14, <1>15, <1>16, BspGo

\* The CPUs that have checked in are the BSP and the APs.
LEMMA CheckedInAre ==
  ASSUME NEW w, NEW b \in Cpu, w[b] \in BspPlaces,
         \A d \in Cpu \ {b} : w[d] \notin BspPlaces,
         \A d \in Cpu : w[d] # 9
  PROVE  Count(w, CheckedIn) = Count(w, ApPlaces) + 1
<1>1. Count(w, BspPlaces) = 1
  BY CountOne
<1>2. Count(w, {9}) = 0
  BY CountZero
<1>3. Count(w, {9} \cup ApPlaces) = Count(w, {9}) + Count(w, ApPlaces)
  <2>1. {9} \cap ApPlaces = {}
    BY DEF ApPlaces
  <2> QED
    BY <2>1, CountJoin
<1>4. Count(w, ({9} \cup ApPlaces) \cup BspPlaces)
        = Count(w, {9} \cup ApPlaces) + Count(w, BspPlaces)
  <2>1. ({9} \cup ApPlaces) \cap BspPlaces = {}
    BY DEF ApPlaces, BspPlaces
  <2> QED
    BY <2>1, CountJoin
<1>5. ({9} \cup ApPlaces) \cup BspPlaces = CheckedIn
  BY DEF ApPlaces, BspPlaces, CheckedIn
<1>6. Count(w, ApPlaces) \in Nat
  BY CountType
<1>7. Count(w, CheckedIn) = Count(w, {9} \cup ApPlaces) + Count(w, BspPlaces)
  BY <1>4, <1>5
<1> QED
  BY <1>1, <1>2, <1>3, <1>6, <1>7

\* LockDoor keeps the invariant.
LEMMA LockDoorKeeps ==
  ASSUME NEW g, NEW w, Inv(g, w), NEW b \in Cpu, LockDoor(b)
  PROVE  \E v : Inv(g, v)'
<1>1. w \in [Cpu -> Places] /\ Where(g, w) /\ Typed
  BY DEF Inv
<1>2. w[b] \in {55, 83}
  <2>1. At(b, "lock")
    BY DEF LockDoor
  <2>2. w[b] \in Places \ {0} /\ StepAt(w[b]) = "lock"
    BY <1>1, <2>1, AtPlace
  <2> QED
    BY <2>2, StepPlaces DEF PlacesOf
<1> DEFINE q == NextAt(g, w[b])
<1>3. /\ g \in ConfigType /\ OnPath(g, w[b]) /\ run[b] \in Nat
      /\ insideSmm <=> w[b] \in 51 .. 85
      /\ Own(g, w[b], run[b], present[b], busy[b], requested[b], mtrr[b])
      /\ \A d \in Cpu \ {b} : w[d] \notin BspPlaces
      /\ \A d \in Cpu : w[d] \in 20 .. 39 =>
           /\ Match(g, w[d], run[d], busy[d], requested[d], w[b])
           /\ Own(g, w[d], run[d], present[d], busy[d], requested[d], mtrr[d])
           /\ d # b
  BY <1>2, BspFacts
<1>4. \A d \in Cpu : d \in PresentAps(b) <=> w[d] \in 21 .. 38
  BY <1>2, PresentMembers
<1>5. todo' = [todo EXCEPT ![b] = Rest(g, q)] /\ config' = config
  BY <1>1, <1>2, ContinuesAt DEF LockDoor
<1>6. q = w[b] + 1
  BY <1>2 DEF NextAt
<1>7. OnPath(g, q)
  BY <1>2, <1>3, NextOnPath
<1> HIDE DEF q
<1>8. UNCHANGED <<bspIndex, bsp, smiPending, insideSmm, allCpusInSync, run,
                  present, busy, requested, mtrr>>
  BY DEF LockDoor, shared, cpuData, smi, local
<1>9. /\ q \in 51 .. 94 /\ w[b] \in 50 .. 93 /\ UNCHANGED <<bspIndex, bsp>>
      /\ insideSmm' <=> q \in 51 .. 85
  BY <1>2, <1>3, <1>6, <1>8
<1>17. cpuCount = Count(w, ApPlaces) + 1
  <2>1. ~IsLocked(g, w[b])
    BY <1>2, <1>3 DEF IsLocked, OnPath
  <2>2. cpuCount = Count(w, CheckedIn)
    BY <1>2, <2>1, BspFacts
  <2>3. \A d \in Cpu : w[d] # 9
    BY <1>2 DEF Inv, Quiesced
  <2>4. w[b] \in BspPlaces
    BY <1>2 DEF BspPlaces
  <2> QED
    BY <1>3, <2>2, <2>3, <2>4, CheckedInAre
<1>18. Count(w, ApPlaces) \in Nat /\ cpuCount \in 0 .. N /\ N \in Nat
  <2>1. ~IsLocked(g, w[b])
    BY <1>2, <1>3 DEF IsLocked, OnPath
  <2>2. cpuCount = Count(w, CheckedIn)
    BY <1>2, <2>1, BspFacts
  <2> QED
    BY <2>2, CountType, SmmAssumption
<1>19. cpuCount' = Locked /\ apCount' = Count(w, ApPlaces) /\ apCount' \in 0 .. N - 1
  <2>1. cpuCount' = Locked /\ apCount' = cpuCount - 1
    BY DEF LockDoor
  <2> QED
    BY <1>17, <1>18, <2>1
<1>10. BspCounted(g, w, b, q)
  <2>1. /\ cpuCount = IF IsLocked(g, w[b]) THEN Locked ELSE Count(w, CheckedIn)
        /\ IsLocked(g, w[b]) /\ w[b] < 92 => apCount = Count(w, ApPlaces)
        /\ w[b] \in 50 .. 91 => run[b] = Count(w, Signalled(g, w[b]))
        /\ w[b] \in 92 .. 93 => run[b] + Count(w, ApPlaces) = apCount
    BY <1>2, BspFacts
  <2>2. Signalled(g, w[b]) = Signalled(g, q)
    <3>1. SignalledFrom(g, w[b]) = SignalledFrom(g, q)
      BY <1>2, <1>3, <1>6 DEF SignalledFrom, OnPath, Gathers
    <3> QED
      BY <3>1 DEF Signalled
  <2>3. IsLocked(g, q)
    BY <1>2, <1>3, <1>6 DEF IsLocked, OnPath, Gathers
  <2> QED
    BY <1>2, <1>6, <1>8, <1>19, <2>1, <2>2, <2>3 DEF BspCounted
<1>11. Settled(g, w, b, q)
  <2>1. ~IsGathered(g, q) /\ q # 94
    BY <1>2, <1>3, <1>6 DEF IsGathered, OnPath
  <2> QED
    BY <1>2, <2>1 DEF Settled
<1>12. CalledIn(g, w, q)
  BY <1>2, <1>8, ReachedStill
<1>13. OthersKept(w, b)
  BY <1>8 DEF OthersKept
<1>14. MembersFit(g, w, q)
  <2> SUFFICES ASSUME NEW d \in Cpu, w[d] \in 20 .. 39
               PROVE  /\ Match(g, w[d], run'[d], busy'[d], requested'[d], q)
                      /\ Own(g, w[d], run'[d], present[d], busy'[d], requested'[d], mtrr[d])
    BY DEF MembersFit
  <2>1. /\ d # b /\ Match(g, w[d], run[d], busy[d], requested[d], w[b])
        /\ Own(g, w[d], run[d], present[d], busy[d], requested[d], mtrr[d])
    BY <1>3
  <2>2. /\ OnPath(g, w[d]) /\ run[d] \in Nat /\ busy[d] \in BOOLEAN
        /\ requested[d] \in BOOLEAN
    BY <1>1 DEF Where, Typed
  <2>3. Follows(g, w[d], busy[d], requested[d], w[b], q)
    BY <1>2, <1>6 DEF Follows
  <2>4. Match(g, w[d], run[d], busy[d], requested[d], q)
    BY <1>3, <1>7, <2>1, <2>2, <2>3, MoveFits
  <2> QED
    BY <1>8, <2>1, <2>4
<1>15. BspFits(g, b, q)
  BY <1>2, <1>3, <1>6, <1>8 DEF BspFits, Own
<1>16. Typed'
  BY <1>1, <1>19 DEF Typed, LockDoor, shared, cpuData, smi, local
<1> QED
  BY <1>5, <1>7, <1>8, <1>9, <1>10, <1>11, <1>12, <1>13, <1>14, <1>15, <1>16, BspGo

\* A barrier: all the APs have signalled.
Passes(p, s) == p \in {56, 59, 62, 64, 87, 90} /\ s = p + 1

\* An AP that has signalled fits the BSP behind the barrier, and has not
\* signalled for the next one.
LEMMA BarrierFits ==
  ASSUME NEW g \in ConfigType, NEW i, NEW r, NEW u, NEW y, NEW p, NEW s,
         Passes(p, s), OnPath(g, p), Match(g, i, r, u, y, p), i \in Signalled(g, p)
  PROVE  Match(g, i, r, u, y, s) /\ i \notin Signalled(g, s)
<1> USE DEF Passes, Match, Between, Released, LeavesLoop, Looping, Finishing, Assigning, Releasing, Drained, Idle, Working, OnPath,
            Gathers, Signalled, SignalledFrom
<1>1. CASE p = 56
  BY <1>1
<1>2. CASE p = 59
  BY <1>2
<1>3. CASE p = 62
  BY <1>3
<1>4. CASE p = 64
  BY <1>4
<1>5. CASE p = 87
  BY <1>5
<1>6. CASE p = 90
  BY <1>6
<1> QED
  BY <1>1, <1>2, <1>3, <1>4, <1>5, <1>6

\* When the semaphore reaches ApCount, every AP has signalled.
LEMMA WaitedFor ==
  ASSUME NEW g, NEW w, NEW p, OnPath(g, p), p \in {56, 59, 62, 64, 87, 90},
         Count(w, Signalled(g, p)) >= Count(w, ApPlaces)
  PROVE  /\ Count(w, Signalled(g, p)) = Count(w, ApPlaces)
         /\ \A d \in Cpu : w[d] \in ApPlaces => w[d] \in Signalled(g, p)
<1>1. Signalled(g, p) \subseteq ApPlaces
  BY DEF Signalled, SignalledFrom, ApPlaces
<1>2. Count(w, Signalled(g, p)) \in Nat /\ Count(w, ApPlaces) \in Nat
  BY CountType
<1>3. /\ Count(w, Signalled(g, p)) <= Count(w, ApPlaces)
      /\ Count(w, Signalled(g, p)) = Count(w, ApPlaces) =>
           \A d \in Cpu : w[d] \in ApPlaces => w[d] \in Signalled(g, p)
  BY <1>1, CountAll
<1>4. Count(w, Signalled(g, p)) = Count(w, ApPlaces)
  BY <1>2, <1>3
<1> QED
  BY <1>3, <1>4

\* The BSP passes a barrier: every AP it counted has signalled.
LEMMA WaitForAPsKeeps ==
  ASSUME NEW g, NEW w, Inv(g, w), NEW b \in Cpu, WaitForAPs(b),
         w[b] # 93
  PROVE  \E v : Inv(g, v)'
<1>1. w \in [Cpu -> Places] /\ Where(g, w) /\ Typed
  BY DEF Inv
<1>2. w[b] \in {56, 59, 62, 64, 87, 90, 93}
  <2>1. At(b, "waitAPs")
    BY DEF WaitForAPs
  <2>2. w[b] \in Places \ {0} /\ StepAt(w[b]) = "waitAPs"
    BY <1>1, <2>1, AtPlace
  <2> QED
    BY <2>2, StepPlaces DEF PlacesOf
<1> DEFINE q == NextAt(g, w[b])
<1>3. /\ g \in ConfigType /\ OnPath(g, w[b]) /\ run[b] \in Nat
      /\ insideSmm <=> w[b] \in 51 .. 85
      /\ Own(g, w[b], run[b], present[b], busy[b], requested[b], mtrr[b])
      /\ \A d \in Cpu \ {b} : w[d] \notin BspPlaces
      /\ \A d \in Cpu : w[d] \in 20 .. 39 =>
           /\ Match(g, w[d], run[d], busy[d], requested[d], w[b])
           /\ Own(g, w[d], run[d], present[d], busy[d], requested[d], mtrr[d])
           /\ d # b
  BY <1>2, BspFacts
<1>4. \A d \in Cpu : d \in PresentAps(b) <=> w[d] \in 21 .. 38
  BY <1>2, PresentMembers
<1>20. w[b] \in {56, 59, 62, 64, 87, 90}
  BY <1>2
<1>5. todo' = [todo EXCEPT ![b] = Rest(g, q)] /\ config' = config
  BY <1>1, <1>2, ContinuesAt DEF WaitForAPs
<1>6. q = w[b] + 1
  BY <1>2 DEF NextAt
<1>7. OnPath(g, q)
  BY <1>2, <1>3, NextOnPath
<1> HIDE DEF q
<1>8. UNCHANGED <<bspIndex, bsp, cpuCount, apCount, smiPending, insideSmm,
                  allCpusInSync, present, busy, requested, mtrr>>
  BY DEF WaitForAPs, shared, cpuData, smi, local
<1>9. /\ q \in 51 .. 94 /\ w[b] \in 50 .. 93 /\ UNCHANGED <<bspIndex, bsp>>
      /\ insideSmm' <=> q \in 51 .. 85
  BY <1>3, <1>6, <1>8, <1>20
<1>17. /\ IsLocked(g, w[b]) /\ IsLocked(g, q) /\ w[b] < 92 /\ q < 92
       /\ IsGathered(g, q) => IsGathered(g, w[b]) \/ w[b] = 56
  BY <1>3, <1>6, <1>20 DEF IsLocked, IsGathered, OnPath, Gathers
<1>18. cpuCount = Locked /\ apCount = Count(w, ApPlaces) /\ run[b] = Count(w, Signalled(g, w[b]))
  BY <1>9, <1>17, <1>20, BspFacts
<1>19. /\ run[b] = apCount
       /\ \A d \in Cpu : w[d] \in ApPlaces => w[d] \in Signalled(g, w[b])
  <2>1. run[b] >= apCount
    BY DEF WaitForAPs
  <2> QED
    BY <1>3, <1>18, <1>20, <2>1, WaitedFor
<1>21. run'[b] = 0 /\ \A d \in Cpu \ {b} : run'[d] = run[d]
  <2>1. run' = [run EXCEPT ![b] = run[b] - apCount]
    BY DEF WaitForAPs
  <2> QED
    BY <1>1, <1>3, <1>19, <2>1 DEF Typed
<1>22. ASSUME NEW d \in Cpu, w[d] \in 20 .. 39
       PROVE  /\ Match(g, w[d], run[d], busy[d], requested[d], q)
              /\ w[d] \notin Signalled(g, q)
  <2>1. w[d] \in Signalled(g, w[b])
    BY <1>19, <1>22 DEF ApPlaces
  <2>2. Passes(w[b], q)
    BY <1>6, <1>20 DEF Passes
  <2> QED
    <3>1. /\ g \in ConfigType /\ OnPath(g, w[b])
          /\ Match(g, w[d], run[d], busy[d], requested[d], w[b])
      BY <1>3, <1>22
    <3> QED
      BY <2>1, <2>2, <3>1, BarrierFits
<1>23. Count(w, Signalled(g, q)) = 0
  <2>1. \A d \in Cpu : w[d] \notin Signalled(g, q)
    <3>1. Signalled(g, q) \subseteq 20 .. 39
      BY DEF Signalled, SignalledFrom
    <3> QED
      BY <1>22, <3>1
  <2> QED
    BY <2>1, CountZero
<1>10. BspCounted(g, w, b, q)
  BY <1>6, <1>8, <1>17, <1>18, <1>20, <1>21, <1>23 DEF BspCounted
<1>11. Settled(g, w, b, q)
  <2>1. w[b] = 56 => \A d \in Cpu : w[d] \notin 10 .. 13
    <3>1. w[b] = 56 => Signalled(g, w[b]) \subseteq 20 .. 39
      BY DEF Signalled, SignalledFrom
    <3> QED
      BY <1>19, <3>1 DEF ApPlaces
  <2>2. q # 94 /\ w[b] \in 52 .. 93
    BY <1>6, <1>20
  <2> QED
    BY <1>17, <2>1, <2>2 DEF Settled
<1>12. CalledIn(g, w, q)
  <2>1. w[b] \in 55 .. 93 /\ (w[b] <= 85 \/ q \notin 53 .. 85)
    BY <1>6, <1>20
  <2> QED
    BY <1>8, <2>1, ReachedStill
<1>13. OthersKept(w, b)
  BY <1>8, <1>21 DEF OthersKept
<1>14. MembersFit(g, w, q)
  BY <1>3, <1>8, <1>21, <1>22 DEF MembersFit
<1>15. BspFits(g, b, q)
  BY <1>3, <1>6, <1>8, <1>20 DEF BspFits, Own
<1>16. Typed'
  <2>1. run' \in [Cpu -> Nat]
    <3>1. run' = [run EXCEPT ![b] = run[b] - apCount]
      BY DEF WaitForAPs
    <3> QED
      BY <1>1, <1>3, <1>19, <3>1 DEF Typed
  <2> QED
    BY <1>1, <2>1 DEF Typed, WaitForAPs, shared, cpuData, smi, local
<1> QED
  BY <1>5, <1>7, <1>8, <1>9, <1>10, <1>11, <1>12, <1>13, <1>14, <1>15, <1>16, BspGo

\* The BSP passes the last barrier (#13): every AP it counted is gone.
LEMMA LastWaitForAPsKeeps ==
  ASSUME NEW g, NEW w, Inv(g, w), NEW b \in Cpu, WaitForAPs(b),
         w[b] = 93
  PROVE  \E v : Inv(g, v)'
<1>1. w \in [Cpu -> Places] /\ Where(g, w) /\ Typed
  BY DEF Inv
<1>2. w[b] \in {56, 59, 62, 64, 87, 90, 93}
  <2>1. At(b, "waitAPs")
    BY DEF WaitForAPs
  <2>2. w[b] \in Places \ {0} /\ StepAt(w[b]) = "waitAPs"
    BY <1>1, <2>1, AtPlace
  <2> QED
    BY <2>2, StepPlaces DEF PlacesOf
<1> DEFINE q == NextAt(g, w[b])
<1>3. /\ g \in ConfigType /\ OnPath(g, w[b]) /\ run[b] \in Nat
      /\ insideSmm <=> w[b] \in 51 .. 85
      /\ Own(g, w[b], run[b], present[b], busy[b], requested[b], mtrr[b])
      /\ \A d \in Cpu \ {b} : w[d] \notin BspPlaces
      /\ \A d \in Cpu : w[d] \in 20 .. 39 =>
           /\ Match(g, w[d], run[d], busy[d], requested[d], w[b])
           /\ Own(g, w[d], run[d], present[d], busy[d], requested[d], mtrr[d])
           /\ d # b
  BY <1>2, BspFacts
<1>4. \A d \in Cpu : d \in PresentAps(b) <=> w[d] \in 21 .. 38
  BY <1>2, PresentMembers
<1>5. todo' = [todo EXCEPT ![b] = Rest(g, q)] /\ config' = config
  BY <1>1, <1>2, ContinuesAt DEF WaitForAPs
<1>6. q = 94
  BY DEF NextAt
<1>7. OnPath(g, q)
  BY <1>6 DEF OnPath
<1> HIDE DEF q
<1>8. UNCHANGED <<bspIndex, bsp, cpuCount, apCount, smiPending, insideSmm,
                  allCpusInSync, present, busy, requested, mtrr>>
  BY DEF WaitForAPs, shared, cpuData, smi, local
<1>9. /\ q \in 51 .. 94 /\ w[b] \in 50 .. 93 /\ UNCHANGED <<bspIndex, bsp>>
      /\ insideSmm' <=> q \in 51 .. 85
  BY <1>3, <1>6, <1>8
<1>17. IsLocked(g, w[b]) /\ IsLocked(g, q) /\ IsGathered(g, w[b])
  BY <1>6 DEF IsLocked, IsGathered
<1>18. cpuCount = Locked /\ run[b] + Count(w, ApPlaces) = apCount
  BY <1>9, <1>17, BspFacts
<1>19. Count(w, ApPlaces) = 0 /\ run[b] = apCount
  <2>1. run[b] >= apCount /\ apCount \in Nat
    BY <1>1, SmmAssumption DEF WaitForAPs, Typed
  <2>2. Count(w, ApPlaces) \in Nat
    BY CountType
  <2> QED
    BY <1>3, <1>18, <2>1, <2>2
<1>21. run'[b] = 0 /\ \A d \in Cpu \ {b} : run'[d] = run[d]
  <2>1. run' = [run EXCEPT ![b] = run[b] - apCount]
    BY DEF WaitForAPs
  <2> QED
    BY <1>1, <1>3, <1>19, <2>1 DEF Typed
<1>22. \A d \in Cpu : w[d] \notin ApPlaces
  BY <1>19, CountZero
<1>10. BspCounted(g, w, b, q)
  BY <1>6, <1>17, <1>18, <1>8 DEF BspCounted
<1>11. Settled(g, w, b, q)
  BY <1>17, <1>22 DEF Settled
<1>12. CalledIn(g, w, q)
  <2>1. w[b] \in 55 .. 93 /\ (w[b] <= 85 \/ q \notin 53 .. 85)
    BY <1>6
  <2> QED
    BY <1>8, <2>1, ReachedStill
<1>13. OthersKept(w, b)
  BY <1>8, <1>21 DEF OthersKept
<1>14. MembersFit(g, w, q)
  BY <1>22 DEF MembersFit, ApPlaces
<1>15. BspFits(g, b, q)
  BY <1>3, <1>6, <1>8, <1>21 DEF BspFits, Own
<1>16. Typed'
  <2>1. run' \in [Cpu -> Nat]
    <3>1. run' = [run EXCEPT ![b] = run[b] - apCount]
      BY DEF WaitForAPs
    <3> QED
      BY <1>1, <1>3, <1>19, <3>1 DEF Typed
  <2> QED
    BY <1>1, <2>1 DEF Typed, WaitForAPs, shared, cpuData, smi, local
<1> QED
  BY <1>5, <1>7, <1>8, <1>9, <1>10, <1>11, <1>12, <1>13, <1>14, <1>15, <1>16, BspGo

\* The BSP releases the APs for the last time.
LEMMA LastReleaseAllAPsKeeps ==
  ASSUME NEW g, NEW w, Inv(g, w), NEW b \in Cpu, ReleaseAllAPs(b),
         NextAt(g, w[b]) = 92
  PROVE  \E v : Inv(g, v)'
<1>1. w \in [Cpu -> Places] /\ Where(g, w) /\ Typed
  BY DEF Inv
<1>2. w[b] \in {57, 60, 63, 70, 74, 80, 86, 88, 91}
  <2>1. At(b, "release")
    BY DEF ReleaseAllAPs
  <2>2. w[b] \in Places \ {0} /\ StepAt(w[b]) = "release"
    BY <1>1, <2>1, AtPlace
  <2> QED
    BY <2>2, StepPlaces DEF PlacesOf
<1> DEFINE q == NextAt(g, w[b])
<1>3. /\ g \in ConfigType /\ OnPath(g, w[b]) /\ run[b] \in Nat
      /\ insideSmm <=> w[b] \in 51 .. 85
      /\ Own(g, w[b], run[b], present[b], busy[b], requested[b], mtrr[b])
      /\ \A d \in Cpu \ {b} : w[d] \notin BspPlaces
      /\ \A d \in Cpu : w[d] \in 20 .. 39 =>
           /\ Match(g, w[d], run[d], busy[d], requested[d], w[b])
           /\ Own(g, w[d], run[d], present[d], busy[d], requested[d], mtrr[d])
           /\ d # b
  BY <1>2, BspFacts
<1>4. \A d \in Cpu : d \in PresentAps(b) <=> w[d] \in 21 .. 38
  BY <1>2, PresentMembers
<1>5. todo' = [todo EXCEPT ![b] = Rest(g, q)] /\ config' = config
  BY <1>1, <1>2, ContinuesAt DEF ReleaseAllAPs
<1>6. q = 92 /\ w[b] \in {86, 91} /\ (w[b] = 86 => ~g.mtrrs /\ ~g.debug)
  BY <1>2 DEF NextAt
<1>7. OnPath(g, q)
  BY <1>2, <1>3, NextOnPath
<1> HIDE DEF q
<1>8. UNCHANGED <<bspIndex, bsp, cpuCount, apCount, smiPending, insideSmm,
                  allCpusInSync, present, busy, requested, mtrr>>
  BY DEF ReleaseAllAPs, shared, cpuData, smi, local
<1>9. /\ q \in 51 .. 94 /\ w[b] \in 50 .. 93 /\ UNCHANGED <<bspIndex, bsp>>
      /\ insideSmm' <=> q \in 51 .. 85
  BY <1>3, <1>6, <1>8
<1>17. /\ IsLocked(g, w[b]) /\ IsLocked(g, q) /\ IsGathered(g, w[b]) /\ w[b] < 92
       /\ SignalledFrom(g, w[b]) = 40
  BY <1>6 DEF IsLocked, IsGathered, SignalledFrom, Gathers
<1>18. /\ cpuCount = Locked /\ apCount = Count(w, ApPlaces)
       /\ run[b] = Count(w, Signalled(g, w[b]))
  BY <1>6, <1>9, <1>17, BspFacts
<1>19. run[b] = 0
  <2>1. Signalled(g, w[b]) = {}
    BY <1>17 DEF Signalled
  <2>2. Count(w, {}) = 0
    BY CountZero
  <2> QED
    BY <1>18, <2>1, <2>2
<1>20. /\ \A d \in Cpu : run'[d] = IF w[d] \in 21 .. 38 THEN run[d] + 1 ELSE run[d]
       /\ run'[b] = run[b]
  BY <1>2, <1>4 DEF ReleaseAllAPs
<1>21. Count(w, ApPlaces) \in Nat
  BY CountType
<1>10. BspCounted(g, w, b, q)
  BY <1>6, <1>8, <1>17, <1>18, <1>19, <1>20, <1>21 DEF BspCounted
<1>11. Settled(g, w, b, q)
  BY <1>6, <1>17 DEF Settled
<1>12. CalledIn(g, w, q)
  <2>1. w[b] \in 55 .. 93 /\ (w[b] <= 85 \/ q \notin 53 .. 85)
    BY <1>6
  <2> QED
    BY <1>8, <2>1, ReachedStill
<1>13. OthersKept(w, b)
  BY <1>8, <1>20 DEF OthersKept
<1>14. MembersFit(g, w, q)
  <2> SUFFICES ASSUME NEW d \in Cpu, w[d] \in 20 .. 39
               PROVE  /\ Match(g, w[d], run'[d], busy'[d], requested'[d], q)
                      /\ Own(g, w[d], run'[d], present[d], busy'[d], requested'[d], mtrr[d])
    BY DEF MembersFit
  <2>1. /\ d # b /\ Match(g, w[d], run[d], busy[d], requested[d], w[b])
        /\ Own(g, w[d], run[d], present[d], busy[d], requested[d], mtrr[d])
    BY <1>3
  <2>2. /\ OnPath(g, w[d]) /\ run[d] \in Nat /\ busy[d] \in BOOLEAN
        /\ requested[d] \in BOOLEAN
    BY <1>1 DEF Where, Typed
  <2>3. Releases(g, w[d], run[d], busy[d], requested[d], w[b], run[d] + 1, q)
    BY <1>2, <1>6, <2>2 DEF Releases, Releasing, q
  <2>4. w[d] \in 21 .. 38 /\ Match(g, w[d], run[d] + 1, busy[d], requested[d], q)
    BY <1>3, <2>1, <2>3, ReleaseFits
  <2>5. run'[d] = run[d] + 1
    BY <1>20, <2>4
  <2> QED
    BY <1>8, <2>1, <2>4, <2>5 DEF Own
<1>15. BspFits(g, b, q)
  BY <1>3, <1>6, <1>8, <1>20 DEF BspFits, Own
<1>16. Typed'
  BY <1>1, <1>2, SmmAssumption DEF Typed, ReleaseAllAPs, shared, cpuData, smi, local
<1> QED
  BY <1>5, <1>7, <1>8, <1>9, <1>10, <1>11, <1>12, <1>13, <1>14, <1>15, <1>16, BspGo

\* The BSP clears its Present flag.
LEMMA BspAbsentKeeps ==
  ASSUME NEW g, NEW w, Inv(g, w), NEW b \in Cpu, ClearPresent(b),
         w[b] = 92
  PROVE  \E v : Inv(g, v)'
<1>1. w \in [Cpu -> Places] /\ Where(g, w) /\ Typed
  BY DEF Inv
<1>2. w[b] \in 50 .. 93
  OBVIOUS
<1> DEFINE q == NextAt(g, w[b])
<1>3. /\ g \in ConfigType /\ OnPath(g, w[b]) /\ run[b] \in Nat
      /\ insideSmm <=> w[b] \in 51 .. 85
      /\ Own(g, w[b], run[b], present[b], busy[b], requested[b], mtrr[b])
      /\ \A d \in Cpu \ {b} : w[d] \notin BspPlaces
      /\ \A d \in Cpu : w[d] \in 20 .. 39 =>
           /\ Match(g, w[d], run[d], busy[d], requested[d], w[b])
           /\ Own(g, w[d], run[d], present[d], busy[d], requested[d], mtrr[d])
           /\ d # b
  BY <1>2, BspFacts
<1>4. \A d \in Cpu : d \in PresentAps(b) <=> w[d] \in 21 .. 38
  BY <1>2, PresentMembers
<1>5. todo' = [todo EXCEPT ![b] = Rest(g, q)] /\ config' = config
  BY <1>1, <1>2, ContinuesAt DEF ClearPresent
<1>6. q = 93
  BY DEF NextAt
<1>7. OnPath(g, q)
  BY <1>6 DEF OnPath
<1> HIDE DEF q
<1>8. UNCHANGED <<bspIndex, bsp, cpuCount, apCount, smiPending, insideSmm,
                  allCpusInSync, run, busy, requested, mtrr>>
  BY DEF ClearPresent, shared, cpuData, smi, local
<1>9. /\ q \in 51 .. 94 /\ w[b] \in 50 .. 93 /\ UNCHANGED <<bspIndex, bsp>>
      /\ insideSmm' <=> q \in 51 .. 85
  BY <1>3, <1>6, <1>8
<1>17. IsLocked(g, w[b]) /\ IsLocked(g, q) /\ IsGathered(g, w[b])
  BY <1>6 DEF IsLocked, IsGathered
<1>18. cpuCount = Locked /\ run[b] + Count(w, ApPlaces) = apCount
  BY <1>9, <1>17, BspFacts
<1>10. BspCounted(g, w, b, q)
  BY <1>6, <1>8, <1>17, <1>18 DEF BspCounted
<1>11. Settled(g, w, b, q)
  BY <1>6, <1>17 DEF Settled
<1>12. CalledIn(g, w, q)
  <2>1. w[b] \in 55 .. 93 /\ (w[b] <= 85 \/ q \notin 53 .. 85)
    BY <1>6
  <2> QED
    BY <1>8, <2>1, ReachedStill
<1>13. OthersKept(w, b)
  BY <1>1, <1>8 DEF OthersKept, ClearPresent, Typed
<1>14. MembersFit(g, w, q)
  <2> SUFFICES ASSUME NEW d \in Cpu, w[d] \in 20 .. 39
               PROVE  /\ Match(g, w[d], run'[d], busy'[d], requested'[d], q)
                      /\ Own(g, w[d], run'[d], present[d], busy'[d], requested'[d], mtrr[d])
    BY DEF MembersFit
  <2>1. /\ d # b /\ Match(g, w[d], run[d], busy[d], requested[d], w[b])
        /\ Own(g, w[d], run[d], present[d], busy[d], requested[d], mtrr[d])
    BY <1>3
  <2>2. /\ OnPath(g, w[d]) /\ run[d] \in Nat /\ busy[d] \in BOOLEAN
        /\ requested[d] \in BOOLEAN
    BY <1>1 DEF Where, Typed
  <2>3. Follows(g, w[d], busy[d], requested[d], w[b], q)
    BY <1>6 DEF Follows
  <2>4. Match(g, w[d], run[d], busy[d], requested[d], q)
    BY <1>3, <1>7, <2>1, <2>2, <2>3, MoveFits
  <2> QED
    BY <1>8, <2>1, <2>4
<1>15. BspFits(g, b, q)
  <2>1. present'[b] = FALSE
    BY <1>1 DEF ClearPresent, Typed
  <2> QED
    BY <1>3, <1>6, <1>8, <2>1 DEF BspFits, Own
<1>16. Typed'
  BY <1>1, <1>2, SmmAssumption DEF Typed, ClearPresent, shared, cpuData, smi, local
<1> QED
  BY <1>5, <1>7, <1>8, <1>9, <1>10, <1>11, <1>12, <1>13, <1>14, <1>15, <1>16, BspGo

\* The relaxed flow: all the APs counted are present.
LEMMA AllAreThere ==
  ASSUME NEW g, NEW w, Inv(g, w), NEW b \in Cpu, w[b] = 84,
         Cardinality({c \in Cpu : present[c]}) > apCount
  PROVE  \A d \in Cpu : w[d] \in ApPlaces => w[d] \in 21 .. 38
<1>1. \A d \in Cpu : present[d] <=> w[d] \in 21 .. 38 \cup 52 .. 92
  BY DEF Inv, Flags, Own
<1>2. Cardinality({c \in Cpu : present[c]}) = Count(w, 21 .. 38 \cup 52 .. 92)
  <2>1. {c \in Cpu : present[c]} = {c \in Cpu : w[c] \in 21 .. 38 \cup 52 .. 92}
    BY <1>1
  <2> QED
    BY <2>1 DEF Count
<1>3. Count(w, 21 .. 38 \cup 52 .. 92) = Count(w, 21 .. 38) + Count(w, 52 .. 92)
  <2>1. (21 .. 38) \cap (52 .. 92) = {}
    OBVIOUS
  <2> QED
    BY <2>1, CountJoin
<1>4. Count(w, 52 .. 92) = 1
  <2>1. \A d \in Cpu \ {b} : w[d] \notin BspPlaces
    BY BspFacts
  <2>2. w[b] \in 52 .. 92 /\ \A d \in Cpu : w[d] \in 52 .. 92 => d = b
    BY <2>1 DEF BspPlaces
  <2> QED
    BY <2>2, CountOne
<1>5. apCount = Count(w, ApPlaces)
  <2>1. IsLocked(g, w[b]) /\ w[b] < 92
    BY DEF IsLocked
  <2> QED
    BY <2>1, BspFacts
<1>6. Count(w, 21 .. 38) \in Nat /\ Count(w, ApPlaces) \in Nat
  BY CountType
<1>7. /\ Count(w, 21 .. 38) <= Count(w, ApPlaces)
      /\ Count(w, 21 .. 38) = Count(w, ApPlaces) =>
           \A d \in Cpu : w[d] \in ApPlaces => w[d] \in 21 .. 38
  <2>1. 21 .. 38 \subseteq ApPlaces
    BY DEF ApPlaces
  <2> QED
    BY <2>1, CountAll
<1>8. Count(w, 21 .. 38) = Count(w, ApPlaces)
  BY <1>2, <1>3, <1>4, <1>5, <1>6, <1>7
<1> QED
  BY <1>7, <1>8

\* AllPresent keeps the invariant.
LEMMA AllPresentKeeps ==
  ASSUME NEW g, NEW w, Inv(g, w), NEW b \in Cpu, AllPresent(b)
  PROVE  \E v : Inv(g, v)'
<1>1. w \in [Cpu -> Places] /\ Where(g, w) /\ Typed
  BY DEF Inv
<1>2. w[b] \in {84}
  <2>1. At(b, "gather")
    BY DEF AllPresent
  <2>2. w[b] \in Places \ {0} /\ StepAt(w[b]) = "gather"
    BY <1>1, <2>1, AtPlace
  <2> QED
    BY <2>2, StepPlaces DEF PlacesOf
<1> DEFINE q == NextAt(g, w[b])
<1>3. /\ g \in ConfigType /\ OnPath(g, w[b]) /\ run[b] \in Nat
      /\ insideSmm <=> w[b] \in 51 .. 85
      /\ Own(g, w[b], run[b], present[b], busy[b], requested[b], mtrr[b])
      /\ \A d \in Cpu \ {b} : w[d] \notin BspPlaces
      /\ \A d \in Cpu : w[d] \in 20 .. 39 =>
           /\ Match(g, w[d], run[d], busy[d], requested[d], w[b])
           /\ Own(g, w[d], run[d], present[d], busy[d], requested[d], mtrr[d])
           /\ d # b
  BY <1>2, BspFacts
<1>4. \A d \in Cpu : d \in PresentAps(b) <=> w[d] \in 21 .. 38
  BY <1>2, PresentMembers
<1>5. todo' = [todo EXCEPT ![b] = Rest(g, q)] /\ config' = config
  BY <1>1, <1>2, ContinuesAt DEF AllPresent
<1>6. q = 85
  BY <1>2 DEF NextAt
<1>7. OnPath(g, q)
  BY <1>2, <1>3, NextOnPath
<1> HIDE DEF q
<1>8. Typed'
  BY <1>1, <1>2, SmmAssumption DEF Typed, AllPresent, shared, cpuData, smi, local
<1>9. UNCHANGED <<bspIndex, bsp, cpuCount, apCount, smiPending, insideSmm,
                  allCpusInSync, run, present, busy, requested, mtrr>>
  BY DEF AllPresent, shared, cpuData, smi, local
<1>10. Quietly(g, w[b], q)
  BY <1>2, <1>3, <1>6 DEF Quietly, IsLocked, SignalledFrom, IsGathered, OnPath, Gathers
<1>11. insideSmm' <=> q \in 51 .. 85
  BY <1>2, <1>3, <1>6, <1>9
<1>12. run'[b] = run[b]
  BY <1>9
<1>13. OthersKept(w, b)
  BY <1>9 DEF OthersKept
<1>19. \A d \in Cpu : w[d] \in ApPlaces => w[d] \in 21 .. 38
  BY <1>2, AllAreThere DEF AllPresent
<1>14. MembersFit(g, w, q)
  <2> SUFFICES ASSUME NEW d \in Cpu, w[d] \in 20 .. 39
               PROVE  /\ Match(g, w[d], run'[d], busy'[d], requested'[d], q)
                      /\ Own(g, w[d], run'[d], present[d], busy'[d], requested'[d], mtrr[d])
    BY DEF MembersFit
  <2>1. /\ d # b /\ Match(g, w[d], run[d], busy[d], requested[d], w[b])
        /\ Own(g, w[d], run[d], present[d], busy[d], requested[d], mtrr[d])
    BY <1>3
  <2>2. /\ OnPath(g, w[d]) /\ run[d] \in Nat /\ busy[d] \in BOOLEAN
        /\ requested[d] \in BOOLEAN
    BY <1>1 DEF Where, Typed
  <2>3. Follows(g, w[d], busy[d], requested[d], w[b], q)
    <3>1. w[d] # 20
      BY <1>19 DEF ApPlaces
    <3> QED
      BY <1>2, <1>6, <3>1 DEF Follows
  <2>4. Match(g, w[d], run[d], busy[d], requested[d], q)
    BY <1>3, <1>7, <2>1, <2>2, <2>3, MoveFits
  <2> QED
    BY <1>9, <2>1, <2>4
<1>15. BspFits(g, b, q)
  BY <1>2, <1>3, <1>6, <1>9, <1>12 DEF BspFits, Own
<1>16. UNCHANGED <<bspIndex, bsp, cpuCount, apCount, smiPending>> /\ run'[b] = run[b]
  BY <1>9, <1>12
<1>17. allCpusInSync' = (allCpusInSync \/ w[b] \in {54, 82})
  BY <1>1, <1>2, <1>9 DEF Typed
<1>18. ~Gathers(g) /\ q >= 85 => \A d \in Cpu : w[d] \notin 10 .. 13
  BY <1>19 DEF ApPlaces
<1> QED
  BY <1>5, <1>7, <1>8, <1>10, <1>11, <1>13, <1>14, <1>15, <1>16, <1>17, <1>18, BspQuiet

(***************************************************************************)
(* A processor becomes the BSP, and the BSP ends the SMI.                  *)
(***************************************************************************)
\* Nobody is elected while another BSP, or an AP of one, is still there.
LEMMA ElectedAlone ==
  ASSUME NEW g, NEW w, Inv(g, w), NEW c \in Cpu, w[c] = 10,
         bspIndex = c \/ (g.election /\ bspIndex = NoBsp)
  PROVE  /\ \A d \in Cpu : w[d] \notin BspPlaces /\ w[d] \notin 20 .. 39
         /\ ~insideSmm
<1>1. c # NoBsp
  BY SmmAssumption DEF Cpu, NoBsp
<1>2. \A d \in Cpu : w[d] \notin BspPlaces
  <2>1. CASE g.election
    <3>1. bspIndex = NoBsp
      BY <1>1, <2>1 DEF Inv, Leader
    <3>2. \A d \in Cpu : d # NoBsp
      BY SmmAssumption DEF Cpu, NoBsp
    <3>3. \A d \in Cpu : w[d] \notin 50 .. 94
      BY <2>1, <3>1, <3>2 DEF Inv, Leader
    <3>4. \A d \in Cpu : w[d] # 95
      <4>1. \A d \in Cpu : w[d] \in 94 .. 95 => w[c] \notin ApPlaces
        BY DEF Inv, Quiesced
      <4> QED
        BY <4>1 DEF ApPlaces
    <3> QED
      BY <3>3, <3>4 DEF BspPlaces
  <2>2. CASE ~g.election
    BY <2>2 DEF Inv, Leader, BspPlaces
  <2> QED
    BY <2>1, <2>2
<1>3. \A d \in Cpu : w[d] \notin 20 .. 39
  BY <1>2 DEF Inv, Members, Match, BspPlaces
<1>4. ~insideSmm
  BY <1>2 DEF Inv, Leader, BspPlaces
<1> QED
  BY <1>2, <1>3, <1>4

\* The processor that wins the election becomes the BSP.
LEMMA BecomesBsp ==
  ASSUME NEW g, NEW w, Inv(g, w), NEW c \in Cpu, Elect(c), bspIndex' = c
  PROVE  \E v : Inv(g, v)'
<1>1. w \in [Cpu -> Places] /\ Where(g, w) /\ Typed /\ g \in Configs /\ config = g
  BY DEF Inv, Where
<1>2. w[c] = 10
  <2>1. At(c, "elect")
    BY DEF Elect
  <2>2. w[c] \in Places \ {0} /\ StepAt(w[c]) = "elect"
    BY <1>1, <2>1, AtPlace
  <2> QED
    BY <2>2, StepPlaces DEF PlacesOf
<1>3. todo' = [todo EXCEPT ![c] = Rest(g, 50)] /\ config' = config
  <2>1. g \in ConfigType
    BY <1>1, SmmAssumption
  <2>2. BspProgram = Rest(g, 50)
    BY <1>1, <2>1, BspProgramPlace
  <2> QED
    BY <2>2 DEF Elect, Goto
<1>4. UNCHANGED <<cpuCount, insideSmm, allCpusInSync, run, present, busy, requested,
                  mtrr, smiPending, bsp, apCount>>
  BY DEF Elect, cpuData, smi, local
<1>5. bspIndex = c \/ (g.election /\ bspIndex = NoBsp)
  BY <1>1 DEF Elect
<1>6. /\ \A d \in Cpu : w[d] \notin BspPlaces /\ w[d] \notin 20 .. 39
      /\ ~insideSmm
  BY <1>2, <1>5, ElectedAlone
<1> DEFINE v == [w EXCEPT ![c] = 50]
<1>7. Moved(w, v, c, 50)
  BY DEF Moved
<1>8. v[c] = 50 /\ \A d \in Cpu \ {c} : v[d] = w[d]
  BY <1>1
<1> HIDE DEF v
<1>9. v \in [Cpu -> Places] /\ Where(g, v)'
  <2>1. 50 \in Places /\ OnPath(g, 50)
    BY DEF Places, OnPath
  <2> QED
    BY <1>1, <1>3, <1>7, <2>1, WhereGoto
<1>10. Typed'
  BY <1>1 DEF Typed, Elect, cpuData, smi, local
<1>11. Leader(g, v)'
  <2>1. \A d \in Cpu \ {c} : v[d] \notin BspPlaces
    BY <1>6, <1>8
  <2>2. \A d, e \in Cpu : v[d] \in BspPlaces /\ v[e] \in BspPlaces => d = e
    BY <2>1
  <2>3. ~g.election => /\ bspIndex' = BootBsp
                       /\ \A d \in Cpu : v[d] \in BspPlaces => d = BootBsp
    <3>1. ~g.election => bspIndex = BootBsp /\ bspIndex = c
      BY <1>5 DEF Inv, Leader
    <3> QED
      BY <2>1, <3>1
  <2>4. g.election => /\ \A d \in Cpu : v[d] \in 50 .. 94 => bspIndex' = d
                      /\ bspIndex' # NoBsp => v[bspIndex'] \in 50 .. 94
    BY <1>8, <2>1 DEF BspPlaces
  <2>5. (\A d \in Cpu : v[d] \notin 51 .. 85) /\ ~insideSmm'
    BY <1>4, <1>6, <1>8, <2>1 DEF BspPlaces
  <2> QED
    BY <2>2, <2>3, <2>4, <2>5 DEF Leader
<1>12. \A d \in Cpu : v[d] \notin 51 .. 95 /\ v[d] \notin 20 .. 39
  BY <1>6, <1>8 DEF BspPlaces
<1>13. Quiesced(g, v)'
  BY <1>12 DEF Quiesced, IsGathered
<1>14. Counts(g, v)'
  <2>1. (\A d \in Cpu : ~IsLocked(g, v[d])) /\ \A d \in Cpu : ~IsLocked(g, w[d])
    BY <1>6, <1>12 DEF IsLocked, BspPlaces
  <2>2. cpuCount = Count(w, CheckedIn)
    BY <2>1 DEF Inv, Counts
  <2>3. Count(v, CheckedIn) = Count(w, CheckedIn)
    <3>1. 50 \in CheckedIn /\ w[c] \in CheckedIn /\ 50 \in Places
      BY <1>2 DEF CheckedIn, Places
    <3>2. Count(v, CheckedIn) =   Count(w, CheckedIn) + (IF 50 \in CheckedIn THEN 1 ELSE 0)
                                - (IF w[c] \in CheckedIn THEN 1 ELSE 0)
      BY <1>1, <1>7, <3>1, CountMove
    <3>3. Count(w, CheckedIn) \in Nat
      BY CountType
    <3> QED
      BY <3>1, <3>2, <3>3
  <2>4. Count(v, Signalled(g, 50)) = 0
    <3>1. Signalled(g, 50) \subseteq 20 .. 39
      BY DEF Signalled, SignalledFrom
    <3>2. \A d \in Cpu : v[d] \notin Signalled(g, 50)
      BY <1>12, <3>1
    <3> QED
      BY <3>2, CountZero
  <2>5. run'[c] = 0
    BY <1>2, <1>4 DEF Inv, Flags, Own
  <2>6. \A d \in Cpu : v[d] \in 50 .. 93 => d = c
    BY <1>6, <1>8 DEF BspPlaces
  <2>7. ASSUME NEW d \in Cpu
        PROVE  /\ v[d] \in 50 .. 91 => run'[d] = Count(v, Signalled(g, v[d]))
               /\ v[d] \notin 92 .. 93
    BY <1>8, <1>12, <2>4, <2>5, <2>6
  <2> QED
    BY <1>4, <2>1, <2>2, <2>3, <2>7 DEF Counts
<1>15. Members(g, v)'
  BY <1>12 DEF Members
<1>16. Flags(g, v)'
  <2> SUFFICES ASSUME NEW d \in Cpu
               PROVE  Own(g, v[d], run'[d], present'[d], busy'[d], requested'[d], mtrr'[d])
    BY DEF Flags
  <2>1. Own(g, w[d], run[d], present[d], busy[d], requested[d], mtrr[d])
    BY DEF Inv, Flags
  <2>2. CASE d = c
    BY <1>2, <1>4, <1>8, <2>1, <2>2 DEF Own
  <2>3. CASE d # c
    BY <1>4, <1>8, <2>1, <2>3
  <2> QED
    BY <2>2, <2>3
<1>17. Reached(g, v)'
  BY <1>12 DEF Reached
<1> QED
  BY <1>1, <1>9, <1>10, <1>11, <1>13, <1>14, <1>15, <1>16, <1>17 DEF Inv

\* Elect keeps the invariant.
LEMMA ElectKeeps ==
  ASSUME NEW g, NEW w, Inv(g, w), NEW c \in Cpu, Elect(c)
  PROVE  \E v : Inv(g, v)'
<1>1. w \in [Cpu -> Places] /\ Where(g, w) /\ Typed
  BY DEF Inv
<1>2. CASE bspIndex' = c
  BY <1>2, BecomesBsp
<1>3. CASE bspIndex' # c
  <2>1. w[c] = 10
    <3>1. At(c, "elect")
      BY DEF Elect
    <3>2. w[c] \in Places \ {0} /\ StepAt(w[c]) = "elect"
      BY <1>1, <3>1, AtPlace
    <3> QED
      BY <3>2, StepPlaces DEF PlacesOf
  <2>2. todo' = [todo EXCEPT ![c] = Rest(g, 11)] /\ config' = config
    <3>1. NextAt(g, w[c]) = 11
      BY <2>1 DEF NextAt
    <3>2. Continue(c)
      BY <1>3 DEF Elect
    <3>3. todo' = [todo EXCEPT ![c] = Rest(g, NextAt(g, w[c]))]
      BY <1>1, <2>1, <3>2, ContinuesAt
    <3> QED
      BY <3>1, <3>3 DEF Elect
  <2>3. Typed'
    BY <1>1 DEF Typed, Elect, cpuData, smi, local
  <2>4. UNCHANGED <<run, present, busy, requested, mtrr, insideSmm, bspIndex,
                    apCount, cpuCount, allCpusInSync>>
    BY <1>3 DEF Elect, cpuData, local
  <2>5. \A d \in Cpu \ {c} : bsp'[d] = bsp[d] /\ (smiPending[d] => smiPending'[d])
    BY <1>1 DEF Elect, local, smi, Typed
  <2>6. /\ 11 \in NoRole /\ w[c] \in NoRole /\ 11 # 9
        /\ w[c] \in 10 .. 13 <=> 11 \in 10 .. 13
        /\ w[c] \in CheckedIn <=> 11 \in CheckedIn
    BY <2>1 DEF NoRole, CheckedIn
  <2>7. 11 # 0 /\ 11 # 5
    OBVIOUS
  <2> QED
    BY <2>2, <2>3, <2>4, <2>5, <2>6, <2>7, NoRoleGoto
<1> QED
  BY <1>2, <1>3

\* ResetBspIndex keeps the invariant.
LEMMA ResetBspIndexKeeps ==
  ASSUME NEW g, NEW w, Inv(g, w), NEW b \in Cpu, ResetBspIndex(b)
  PROVE  \E v : Inv(g, v)'
<1>1. w \in [Cpu -> Places] /\ Where(g, w) /\ Typed /\ g \in Configs /\ config = g
  BY DEF Inv, Where
<1>2. w[b] = 94
  <2>1. At(b, "unelect")
    BY DEF ResetBspIndex
  <2>2. w[b] \in Places \ {0} /\ StepAt(w[b]) = "unelect"
    BY <1>1, <2>1, AtPlace
  <2> QED
    BY <2>2, StepPlaces DEF PlacesOf
<1>3. todo' = [todo EXCEPT ![b] = Rest(g, 95)] /\ config' = config
  <2>1. NextAt(g, w[b]) = 95 /\ w[b] # 0
    BY <1>2 DEF NextAt
  <2>2. todo' = [todo EXCEPT ![b] = Rest(g, NextAt(g, w[b]))]
    BY <1>1, <2>1, ContinuesAt DEF ResetBspIndex
  <2> QED
    BY <2>1, <2>2 DEF ResetBspIndex
<1>4. UNCHANGED <<cpuCount, insideSmm, allCpusInSync, run, present, busy, requested,
                  mtrr, smiPending, bsp, apCount>>
  BY DEF ResetBspIndex, cpuData, smi, local
<1>5. w[b] \in BspPlaces
  BY <1>2 DEF BspPlaces
<1>6. \A d \in Cpu \ {b} : w[d] \notin BspPlaces
  BY <1>5, OnlyBsp
<1>7. \A d \in Cpu : w[d] # 9 /\ w[d] # 96 /\ w[d] \notin ApPlaces
  BY <1>2 DEF Inv, Quiesced
<1> DEFINE v == [w EXCEPT ![b] = 95]
<1>8. Moved(w, v, b, 95)
  BY DEF Moved
<1>9. v[b] = 95 /\ \A d \in Cpu \ {b} : v[d] = w[d]
  BY <1>1
<1> HIDE DEF v
<1>10. v \in [Cpu -> Places] /\ Where(g, v)'
  <2>1. 95 \in Places /\ OnPath(g, 95)
    BY DEF Places, OnPath
  <2> QED
    BY <1>1, <1>3, <1>8, <2>1, WhereGoto
<1>11. Typed'
  BY <1>1 DEF Typed, ResetBspIndex, cpuData, smi, local
<1>12. \A d \in Cpu \ {b} : v[d] \notin BspPlaces
  BY <1>6, <1>9
<1>13. Leader(g, v)'
  <2>1. \A d, e \in Cpu : v[d] \in BspPlaces /\ v[e] \in BspPlaces => d = e
    BY <1>12
  <2>2. ~g.election => /\ bspIndex' = BootBsp
                       /\ \A d \in Cpu : v[d] \in BspPlaces => d = BootBsp
    <3>1. ~g.election => bspIndex = BootBsp /\ b = BootBsp
      BY <1>5 DEF Inv, Leader
    <3> QED
      BY <1>1, <1>12, <3>1 DEF ResetBspIndex
  <2>3. g.election => /\ \A d \in Cpu : v[d] \in 50 .. 94 => bspIndex' = d
                      /\ bspIndex' # NoBsp => v[bspIndex'] \in 50 .. 94
    <3>1. \A d \in Cpu : v[d] \notin 50 .. 94
      BY <1>9, <1>12 DEF BspPlaces
    <3>2. g.election => bspIndex' = NoBsp
      BY <1>1 DEF ResetBspIndex
    <3> QED
      BY <3>1, <3>2
  <2>4. (\A d \in Cpu : v[d] \notin 51 .. 85) /\ ~insideSmm'
    <3>1. \A d \in Cpu : w[d] \notin 51 .. 85
      BY <1>2, <1>6 DEF BspPlaces
    <3>2. ~insideSmm
      BY <3>1 DEF Inv, Leader
    <3> QED
      BY <1>4, <1>9, <3>1, <3>2
  <2> QED
    BY <2>1, <2>2, <2>3, <2>4 DEF Leader
<1>14. \A d \in Cpu : v[d] # 9 /\ v[d] # 96 /\ v[d] \notin ApPlaces
  BY <1>7, <1>9 DEF ApPlaces
<1>15. Quiesced(g, v)'
  BY <1>14 DEF Quiesced, ApPlaces
<1>16. Counts(g, v)'
  <2>1. IsLocked(g, v[b]) /\ IsLocked(g, w[b])
    BY <1>2, <1>9 DEF IsLocked
  <2>2. cpuCount = Locked
    BY <2>1 DEF Inv, Counts
  <2>3. \A d \in Cpu : /\ v[d] \notin 50 .. 94
                       /\ IsLocked(g, v[d]) => v[d] = 95
    BY <1>9, <1>12 DEF IsLocked, BspPlaces
  <2>4. ASSUME NEW d \in Cpu
        PROVE  /\ IsLocked(g, v[d]) => cpuCount' = Locked
               /\ ~(IsLocked(g, v[d]) /\ v[d] < 92)
               /\ v[d] \notin 50 .. 91
               /\ v[d] \notin 92 .. 93
    BY <1>4, <2>2, <2>3
  <2> QED
    BY <2>1, <2>4 DEF Counts
<1>17. Members(g, v)'
  BY <1>14 DEF Members, ApPlaces
<1>18. Flags(g, v)'
  <2> SUFFICES ASSUME NEW d \in Cpu
               PROVE  Own(g, v[d], run'[d], present'[d], busy'[d], requested'[d], mtrr'[d])
    BY DEF Flags
  <2>1. Own(g, w[d], run[d], present[d], busy[d], requested[d], mtrr[d])
    BY DEF Inv, Flags
  <2>2. CASE d = b
    BY <1>2, <1>4, <1>9, <2>1, <2>2 DEF Own
  <2>3. CASE d # b
    BY <1>4, <1>9, <2>1, <2>3
  <2> QED
    BY <2>2, <2>3
<1>19. Reached(g, v)'
  <2>1. Gathers(g) => allCpusInSync
    BY <1>2 DEF Inv, Reached
  <2>2. \A d \in Cpu : v[d] \notin 53 .. 85
    BY <1>9, <1>12 DEF BspPlaces
  <2> QED
    BY <1>4, <2>1, <2>2 DEF Reached
<1> QED
  BY <1>1, <1>10, <1>11, <1>13, <1>15, <1>16, <1>17, <1>18, <1>19 DEF Inv

\* ContextReset keeps the invariant.
LEMMA ContextResetKeeps ==
  ASSUME NEW g, NEW w, Inv(g, w), NEW b \in Cpu, ContextReset(b)
  PROVE  \E v : Inv(g, v)'
<1>1. w \in [Cpu -> Places] /\ Where(g, w) /\ Typed /\ g \in Configs /\ config = g
  BY DEF Inv, Where
<1>2. w[b] = 95
  <2>1. At(b, "reset")
    BY DEF ContextReset
  <2>2. w[b] \in Places \ {0} /\ StepAt(w[b]) = "reset"
    BY <1>1, <2>1, AtPlace
  <2> QED
    BY <2>2, StepPlaces DEF PlacesOf
<1>3. todo' = [todo EXCEPT ![b] = Rest(g, 96)] /\ config' = config
  <2>1. NextAt(g, w[b]) = 96 /\ w[b] # 0
    BY <1>2 DEF NextAt
  <2>2. todo' = [todo EXCEPT ![b] = Rest(g, NextAt(g, w[b]))]
    BY <1>1, <2>1, ContinuesAt DEF ContextReset
  <2> QED
    BY <2>1, <2>2 DEF ContextReset
<1>4. UNCHANGED <<bspIndex, insideSmm, allCpusInSync, run, present, busy, requested,
                  mtrr, smiPending, bsp>>
  BY DEF ContextReset, cpuData, smi
<1>5. w[b] \in BspPlaces
  BY <1>2 DEF BspPlaces
<1>6. \A d \in Cpu \ {b} : w[d] \notin BspPlaces
  BY <1>5, OnlyBsp
<1>7. \A d \in Cpu : w[d] # 9 /\ w[d] \notin ApPlaces
  BY <1>2 DEF Inv, Quiesced
<1> DEFINE v == [w EXCEPT ![b] = 96]
<1>8. Moved(w, v, b, 96)
  BY DEF Moved
<1>9. v[b] = 96 /\ \A d \in Cpu \ {b} : v[d] = w[d]
  BY <1>1
<1> HIDE DEF v
<1>10. v \in [Cpu -> Places] /\ Where(g, v)'
  <2>1. 96 \in Places /\ OnPath(g, 96)
    BY DEF Places, OnPath
  <2> QED
    BY <1>1, <1>3, <1>8, <2>1, WhereGoto
<1>11. Typed'
  BY <1>1, SmmAssumption DEF Typed, ContextReset, cpuData, smi
<1>12. \A d \in Cpu : v[d] \notin BspPlaces /\ v[d] \notin ApPlaces /\ v[d] # 9
  BY <1>6, <1>7, <1>9 DEF BspPlaces, ApPlaces
<1>13. Leader(g, v)'
  <2>1. ~insideSmm
    BY <1>2, <1>6 DEF Inv, Leader, BspPlaces
  <2>2. g.election => bspIndex = NoBsp
    <3>1. g.election /\ bspIndex # NoBsp => bspIndex \in Cpu /\ w[bspIndex] \in 50 .. 94
      BY <1>1 DEF Inv, Leader, Typed
    <3>2. \A d \in Cpu : w[d] \notin 50 .. 94
      BY <1>2, <1>6 DEF BspPlaces
    <3> QED
      BY <3>1, <3>2
  <2>3. ~g.election => bspIndex = BootBsp
    BY DEF Inv, Leader
  <2> QED
    BY <1>4, <1>12, <2>1, <2>2, <2>3 DEF Leader, BspPlaces
<1>14. Quiesced(g, v)'
  BY <1>12 DEF Quiesced, IsGathered, BspPlaces
<1>15. Counts(g, v)'
  <2>1. \A d \in Cpu : ~IsLocked(g, v[d]) /\ v[d] \notin 50 .. 93
    BY <1>12 DEF IsLocked, BspPlaces
  <2>2. Count(v, CheckedIn) = 0
    <3>1. \A d \in Cpu : v[d] \notin CheckedIn
      BY <1>12 DEF BspPlaces, ApPlaces, CheckedIn
    <3> QED
      BY <3>1, CountZero
  <2>3. cpuCount' = 0
    BY DEF ContextReset
  <2>4. ASSUME NEW d \in Cpu
        PROVE  ~IsLocked(g, v[d]) /\ v[d] \notin 50 .. 91 /\ v[d] \notin 92 .. 93
    BY <2>1
  <2> QED
    BY <2>2, <2>3, <2>4 DEF Counts
<1>16. Members(g, v)'
  BY <1>12 DEF Members, ApPlaces
<1>17. Flags(g, v)'
  <2> SUFFICES ASSUME NEW d \in Cpu
               PROVE  Own(g, v[d], run'[d], present'[d], busy'[d], requested'[d], mtrr'[d])
    BY DEF Flags
  <2>1. Own(g, w[d], run[d], present[d], busy[d], requested[d], mtrr[d])
    BY DEF Inv, Flags
  <2>2. CASE d = b
    BY <1>2, <1>4, <1>9, <2>1, <2>2 DEF Own
  <2>3. CASE d # b
    BY <1>4, <1>9, <2>1, <2>3
  <2> QED
    BY <2>2, <2>3
<1>18. Reached(g, v)'
  BY <1>12 DEF Reached, BspPlaces
<1> QED
  BY <1>1, <1>10, <1>11, <1>13, <1>14, <1>15, <1>16, <1>17, <1>18 DEF Inv

(***************************************************************************)
(* What a processor still has to do tells where it is.                     *)
(***************************************************************************)
Holds(g, p, s) == \E i \in DOMAIN Rest(g, p) : Rest(g, p)[i] = s

\* Nothing is ahead of a processor outside SMM.
LEMMA HoldsNothing ==
  ASSUME NEW g, NEW s
  PROVE  ~Holds(g, 0, s)
BY Outside DEF Holds

\* What is ahead is the step at the place or ahead of the next place.
LEMMA HoldsStep ==
  ASSUME NEW g, NEW p \in Places \ {0}, NEW s
  PROVE  Holds(g, p, s) <=> StepAt(p) = s \/ Holds(g, NextAt(g, p), s)
<1> DEFINE r == Rest(g, NextAt(g, p))
           t == Rest(g, p)
<1>1. r \in Seq(StepNames) /\ StepAt(p) \in StepNames
  BY NextPlace, RestIsSeq, StepAtType
<1>2. t = <<StepAt(p)>> \o r
  BY RestIsSteps
<1> HIDE DEF r, t
<1>3. /\ DOMAIN t = 1 .. Len(r) + 1 /\ DOMAIN r = 1 .. Len(r) /\ Len(r) \in Nat
      /\ t[1] = StepAt(p) /\ \A i \in 1 .. Len(r) : t[i + 1] = r[i]
  BY <1>1, <1>2
<1>4. (\E i \in DOMAIN t : t[i] = s) <=> StepAt(p) = s \/ (\E i \in DOMAIN r : r[i] = s)
  <2>1. ASSUME NEW i \in DOMAIN t, t[i] = s, StepAt(p) # s
        PROVE  \E j \in DOMAIN r : r[j] = s
    <3>1. i # 1 /\ i \in 2 .. Len(r) + 1
      BY <1>3, <2>1
    <3>2. i - 1 \in DOMAIN r /\ r[i - 1] = t[(i - 1) + 1] /\ (i - 1) + 1 = i
      BY <1>3, <3>1
    <3> QED
      BY <2>1, <3>2
  <2>2. ASSUME NEW j \in DOMAIN r, r[j] = s
        PROVE  \E i \in DOMAIN t : t[i] = s
    <3>1. j + 1 \in DOMAIN t /\ t[j + 1] = s
      BY <1>3, <2>2
    <3> QED
      BY <3>1
  <2>3. StepAt(p) = s => \E i \in DOMAIN t : t[i] = s
    BY <1>3
  <2> QED
    BY <2>1, <2>2, <2>3
<1> QED
  BY <1>4 DEF Holds, r, t

\* The steps at the places of the entry to SMM, ...
LEMMA EntrySteps ==
  ASSUME NEW g, NEW s
  PROVE  /\ Holds(g, 1, s) <=> s = "valid" \/ Holds(g, 2, s)
         /\ Holds(g, 2, s) <=> s = "look" \/ Holds(g, 0, s)
         /\ Holds(g, 3, s) <=> s = "checkin" \/ Holds(g, 11, s)
         /\ Holds(g, 4, s) <=> s = "checkin" \/ Holds(g, 10, s)
         /\ Holds(g, 5, s) <=> s = "spin" \/ Holds(g, 0, s)
         /\ Holds(g, 9, s) <=> s = "giveup" \/ Holds(g, 5, s)
         /\ Holds(g, 10, s) <=> s = "elect" \/ Holds(g, 11, s)
         /\ Holds(g, 11, s) <=> s = "await" \/ Holds(g, 5, s)
         /\ Holds(g, 12, s) <=> s = "who" \/ Holds(g, 5, s)
         /\ Holds(g, 13, s) <=> s = "await2" \/ Holds(g, 5, s)
<1>1. Holds(g, 1, s) <=> s = "valid" \/ Holds(g, 2, s)
  <2>1. 1 \in Places \ {0}
    BY DEF Places
  <2>2. StepAt(1) = "valid" /\ NextAt(g, 1) = (2)
    BY DEF StepAt, NextAt
  <2> QED
    BY <2>1, <2>2, HoldsStep
<1>2. Holds(g, 2, s) <=> s = "look" \/ Holds(g, 0, s)
  <2>1. 2 \in Places \ {0}
    BY DEF Places
  <2>2. StepAt(2) = "look" /\ NextAt(g, 2) = (0)
    BY DEF StepAt, NextAt
  <2> QED
    BY <2>1, <2>2, HoldsStep
<1>3. Holds(g, 3, s) <=> s = "checkin" \/ Holds(g, 11, s)
  <2>1. 3 \in Places \ {0}
    BY DEF Places
  <2>2. StepAt(3) = "checkin" /\ NextAt(g, 3) = (11)
    BY DEF StepAt, NextAt
  <2> QED
    BY <2>1, <2>2, HoldsStep
<1>4. Holds(g, 4, s) <=> s = "checkin" \/ Holds(g, 10, s)
  <2>1. 4 \in Places \ {0}
    BY DEF Places
  <2>2. StepAt(4) = "checkin" /\ NextAt(g, 4) = (10)
    BY DEF StepAt, NextAt
  <2> QED
    BY <2>1, <2>2, HoldsStep
<1>5. Holds(g, 5, s) <=> s = "spin" \/ Holds(g, 0, s)
  <2>1. 5 \in Places \ {0}
    BY DEF Places
  <2>2. StepAt(5) = "spin" /\ NextAt(g, 5) = (0)
    BY DEF StepAt, NextAt
  <2> QED
    BY <2>1, <2>2, HoldsStep
<1>9. Holds(g, 9, s) <=> s = "giveup" \/ Holds(g, 5, s)
  <2>1. 9 \in Places \ {0}
    BY DEF Places
  <2>2. StepAt(9) = "giveup" /\ NextAt(g, 9) = (5)
    BY DEF StepAt, NextAt
  <2> QED
    BY <2>1, <2>2, HoldsStep
<1>10. Holds(g, 10, s) <=> s = "elect" \/ Holds(g, 11, s)
  <2>1. 10 \in Places \ {0}
    BY DEF Places
  <2>2. StepAt(10) = "elect" /\ NextAt(g, 10) = (11)
    BY DEF StepAt, NextAt
  <2> QED
    BY <2>1, <2>2, HoldsStep
<1>11. Holds(g, 11, s) <=> s = "await" \/ Holds(g, 5, s)
  <2>1. 11 \in Places \ {0}
    BY DEF Places
  <2>2. StepAt(11) = "await" /\ NextAt(g, 11) = (5)
    BY DEF StepAt, NextAt
  <2> QED
    BY <2>1, <2>2, HoldsStep
<1>12. Holds(g, 12, s) <=> s = "who" \/ Holds(g, 5, s)
  <2>1. 12 \in Places \ {0}
    BY DEF Places
  <2>2. StepAt(12) = "who" /\ NextAt(g, 12) = (5)
    BY DEF StepAt, NextAt
  <2> QED
    BY <2>1, <2>2, HoldsStep
<1>13. Holds(g, 13, s) <=> s = "await2" \/ Holds(g, 5, s)
  <2>1. 13 \in Places \ {0}
    BY DEF Places
  <2>2. StepAt(13) = "await2" /\ NextAt(g, 13) = (5)
    BY DEF StepAt, NextAt
  <2> QED
    BY <2>1, <2>2, HoldsStep
<1> QED
  BY <1>1, <1>2, <1>3, <1>4, <1>5, <1>9, <1>10, <1>11, <1>12, <1>13

\* ... in APHandler ...
LEMMA ApSteps ==
  ASSUME NEW g, NEW s
  PROVE  /\ Holds(g, 20, s) <=> s = "present" \/ (IF Gathers(g) THEN Holds(g, 21, s) ELSE Holds(g, 30, s))
         /\ Holds(g, 21, s) <=> s = "signal" \/ Holds(g, 22, s)
         /\ Holds(g, 22, s) <=> s = "waitBsp" \/ (IF g.mtrrs THEN Holds(g, 23, s) ELSE Holds(g, 29, s))
         /\ Holds(g, 23, s) <=> s = "backup" \/ Holds(g, 24, s)
         /\ Holds(g, 24, s) <=> s = "signal" \/ Holds(g, 25, s)
         /\ Holds(g, 25, s) <=> s = "waitBsp" \/ Holds(g, 26, s)
         /\ Holds(g, 26, s) <=> s = "program" \/ Holds(g, 27, s)
         /\ Holds(g, 27, s) <=> s = "signal" \/ Holds(g, 28, s)
         /\ Holds(g, 28, s) <=> s = "waitBsp" \/ Holds(g, 29, s)
         /\ Holds(g, 29, s) <=> s = "signal" \/ Holds(g, 30, s)
         /\ Holds(g, 30, s) <=> s = "loop" \/ (IF g.mtrrs THEN Holds(g, 33, s) ELSE (IF g.debug THEN Holds(g, 36, s) ELSE Holds(g, 38, s)))
         /\ Holds(g, 31, s) <=> s = "check" \/ Holds(g, 30, s)
         /\ Holds(g, 32, s) <=> s = "procedure" \/ Holds(g, 30, s)
         /\ Holds(g, 33, s) <=> s = "signal" \/ Holds(g, 34, s)
         /\ Holds(g, 34, s) <=> s = "waitBsp" \/ Holds(g, 35, s)
         /\ Holds(g, 35, s) <=> s = "restore" \/ Holds(g, 36, s)
         /\ Holds(g, 36, s) <=> s = "signal" \/ Holds(g, 37, s)
         /\ Holds(g, 37, s) <=> s = "waitBsp" \/ Holds(g, 38, s)
         /\ Holds(g, 38, s) <=> s = "absent" \/ Holds(g, 39, s)
         /\ Holds(g, 39, s) <=> s = "signal" \/ Holds(g, 5, s)
<1>20. Holds(g, 20, s) <=> s = "present" \/ (IF Gathers(g) THEN Holds(g, 21, s) ELSE Holds(g, 30, s))
  <2>1. 20 \in Places \ {0}
    BY DEF Places
  <2>2. StepAt(20) = "present" /\ NextAt(g, 20) = (IF Gathers(g) THEN 21 ELSE 30)
    BY DEF StepAt, NextAt
  <2> QED
    BY <2>1, <2>2, HoldsStep
<1>21. Holds(g, 21, s) <=> s = "signal" \/ Holds(g, 22, s)
  <2>1. 21 \in Places \ {0}
    BY DEF Places
  <2>2. StepAt(21) = "signal" /\ NextAt(g, 21) = (22)
    BY DEF StepAt, NextAt
  <2> QED
    BY <2>1, <2>2, HoldsStep
<1>22. Holds(g, 22, s) <=> s = "waitBsp" \/ (IF g.mtrrs THEN Holds(g, 23, s) ELSE Holds(g, 29, s))
  <2>1. 22 \in Places \ {0}
    BY DEF Places
  <2>2. StepAt(22) = "waitBsp" /\ NextAt(g, 22) = (IF g.mtrrs THEN 23 ELSE 29)
    BY DEF StepAt, NextAt
  <2> QED
    BY <2>1, <2>2, HoldsStep
<1>23. Holds(g, 23, s) <=> s = "backup" \/ Holds(g, 24, s)
  <2>1. 23 \in Places \ {0}
    BY DEF Places
  <2>2. StepAt(23) = "backup" /\ NextAt(g, 23) = (24)
    BY DEF StepAt, NextAt
  <2> QED
    BY <2>1, <2>2, HoldsStep
<1>24. Holds(g, 24, s) <=> s = "signal" \/ Holds(g, 25, s)
  <2>1. 24 \in Places \ {0}
    BY DEF Places
  <2>2. StepAt(24) = "signal" /\ NextAt(g, 24) = (25)
    BY DEF StepAt, NextAt
  <2> QED
    BY <2>1, <2>2, HoldsStep
<1>25. Holds(g, 25, s) <=> s = "waitBsp" \/ Holds(g, 26, s)
  <2>1. 25 \in Places \ {0}
    BY DEF Places
  <2>2. StepAt(25) = "waitBsp" /\ NextAt(g, 25) = (26)
    BY DEF StepAt, NextAt
  <2> QED
    BY <2>1, <2>2, HoldsStep
<1>26. Holds(g, 26, s) <=> s = "program" \/ Holds(g, 27, s)
  <2>1. 26 \in Places \ {0}
    BY DEF Places
  <2>2. StepAt(26) = "program" /\ NextAt(g, 26) = (27)
    BY DEF StepAt, NextAt
  <2> QED
    BY <2>1, <2>2, HoldsStep
<1>27. Holds(g, 27, s) <=> s = "signal" \/ Holds(g, 28, s)
  <2>1. 27 \in Places \ {0}
    BY DEF Places
  <2>2. StepAt(27) = "signal" /\ NextAt(g, 27) = (28)
    BY DEF StepAt, NextAt
  <2> QED
    BY <2>1, <2>2, HoldsStep
<1>28. Holds(g, 28, s) <=> s = "waitBsp" \/ Holds(g, 29, s)
  <2>1. 28 \in Places \ {0}
    BY DEF Places
  <2>2. StepAt(28) = "waitBsp" /\ NextAt(g, 28) = (29)
    BY DEF StepAt, NextAt
  <2> QED
    BY <2>1, <2>2, HoldsStep
<1>29. Holds(g, 29, s) <=> s = "signal" \/ Holds(g, 30, s)
  <2>1. 29 \in Places \ {0}
    BY DEF Places
  <2>2. StepAt(29) = "signal" /\ NextAt(g, 29) = (30)
    BY DEF StepAt, NextAt
  <2> QED
    BY <2>1, <2>2, HoldsStep
<1>30. Holds(g, 30, s) <=> s = "loop" \/ (IF g.mtrrs THEN Holds(g, 33, s) ELSE (IF g.debug THEN Holds(g, 36, s) ELSE Holds(g, 38, s)))
  <2>1. 30 \in Places \ {0}
    BY DEF Places
  <2>2. StepAt(30) = "loop" /\ NextAt(g, 30) = (IF g.mtrrs THEN 33 ELSE IF g.debug THEN 36 ELSE 38)
    BY DEF StepAt, NextAt
  <2> QED
    BY <2>1, <2>2, HoldsStep
<1>31. Holds(g, 31, s) <=> s = "check" \/ Holds(g, 30, s)
  <2>1. 31 \in Places \ {0}
    BY DEF Places
  <2>2. StepAt(31) = "check" /\ NextAt(g, 31) = (30)
    BY DEF StepAt, NextAt
  <2> QED
    BY <2>1, <2>2, HoldsStep
<1>32. Holds(g, 32, s) <=> s = "procedure" \/ Holds(g, 30, s)
  <2>1. 32 \in Places \ {0}
    BY DEF Places
  <2>2. StepAt(32) = "procedure" /\ NextAt(g, 32) = (30)
    BY DEF StepAt, NextAt
  <2> QED
    BY <2>1, <2>2, HoldsStep
<1>33. Holds(g, 33, s) <=> s = "signal" \/ Holds(g, 34, s)
  <2>1. 33 \in Places \ {0}
    BY DEF Places
  <2>2. StepAt(33) = "signal" /\ NextAt(g, 33) = (34)
    BY DEF StepAt, NextAt
  <2> QED
    BY <2>1, <2>2, HoldsStep
<1>34. Holds(g, 34, s) <=> s = "waitBsp" \/ Holds(g, 35, s)
  <2>1. 34 \in Places \ {0}
    BY DEF Places
  <2>2. StepAt(34) = "waitBsp" /\ NextAt(g, 34) = (35)
    BY DEF StepAt, NextAt
  <2> QED
    BY <2>1, <2>2, HoldsStep
<1>35. Holds(g, 35, s) <=> s = "restore" \/ Holds(g, 36, s)
  <2>1. 35 \in Places \ {0}
    BY DEF Places
  <2>2. StepAt(35) = "restore" /\ NextAt(g, 35) = (36)
    BY DEF StepAt, NextAt
  <2> QED
    BY <2>1, <2>2, HoldsStep
<1>36. Holds(g, 36, s) <=> s = "signal" \/ Holds(g, 37, s)
  <2>1. 36 \in Places \ {0}
    BY DEF Places
  <2>2. StepAt(36) = "signal" /\ NextAt(g, 36) = (37)
    BY DEF StepAt, NextAt
  <2> QED
    BY <2>1, <2>2, HoldsStep
<1>37. Holds(g, 37, s) <=> s = "waitBsp" \/ Holds(g, 38, s)
  <2>1. 37 \in Places \ {0}
    BY DEF Places
  <2>2. StepAt(37) = "waitBsp" /\ NextAt(g, 37) = (38)
    BY DEF StepAt, NextAt
  <2> QED
    BY <2>1, <2>2, HoldsStep
<1>38. Holds(g, 38, s) <=> s = "absent" \/ Holds(g, 39, s)
  <2>1. 38 \in Places \ {0}
    BY DEF Places
  <2>2. StepAt(38) = "absent" /\ NextAt(g, 38) = (39)
    BY DEF StepAt, NextAt
  <2> QED
    BY <2>1, <2>2, HoldsStep
<1>39. Holds(g, 39, s) <=> s = "signal" \/ Holds(g, 5, s)
  <2>1. 39 \in Places \ {0}
    BY DEF Places
  <2>2. StepAt(39) = "signal" /\ NextAt(g, 39) = (5)
    BY DEF StepAt, NextAt
  <2> QED
    BY <2>1, <2>2, HoldsStep
<1> QED
  BY <1>20, <1>21, <1>22, <1>23, <1>24, <1>25, <1>26, <1>27, <1>28, <1>29,
     <1>30, <1>31, <1>32, <1>33, <1>34, <1>35, <1>36, <1>37, <1>38, <1>39

\* ... and in BSPHandler.
LEMMA BspSteps ==
  ASSUME NEW g, NEW s
  PROVE  /\ Holds(g, 50, s) <=> s = "inside" \/ Holds(g, 51, s)
         /\ Holds(g, 51, s) <=> s = "status" \/ (IF Gathers(g) THEN Holds(g, 52, s) ELSE Holds(g, 65, s))
         /\ Holds(g, 52, s) <=> s = "arrive" \/ Holds(g, 53, s)
         /\ Holds(g, 53, s) <=> s = "arrive2" \/ Holds(g, 54, s)
         /\ Holds(g, 54, s) <=> s = "sync" \/ Holds(g, 55, s)
         /\ Holds(g, 55, s) <=> s = "lock" \/ Holds(g, 56, s)
         /\ Holds(g, 56, s) <=> s = "waitAPs" \/ Holds(g, 57, s)
         /\ Holds(g, 57, s) <=> s = "release" \/ (IF g.mtrrs THEN Holds(g, 58, s) ELSE Holds(g, 64, s))
         /\ Holds(g, 58, s) <=> s = "backup" \/ Holds(g, 59, s)
         /\ Holds(g, 59, s) <=> s = "waitAPs" \/ Holds(g, 60, s)
         /\ Holds(g, 60, s) <=> s = "release" \/ Holds(g, 61, s)
         /\ Holds(g, 61, s) <=> s = "program" \/ Holds(g, 62, s)
         /\ Holds(g, 62, s) <=> s = "waitAPs" \/ Holds(g, 63, s)
         /\ Holds(g, 63, s) <=> s = "release" \/ Holds(g, 64, s)
         /\ Holds(g, 64, s) <=> s = "waitAPs" \/ Holds(g, 65, s)
         /\ Holds(g, 65, s) <=> s = "own" \/ Holds(g, 66, s)
         /\ Holds(g, 66, s) <=> s = "handler" \/ Holds(g, 75, s)
         /\ Holds(g, 67, s) <=> s = "notbusy" \/ Holds(g, 66, s)
         /\ Holds(g, 68, s) <=> s = "acquire" \/ Holds(g, 69, s)
         /\ Holds(g, 69, s) <=> s = "assign" \/ Holds(g, 70, s)
         /\ Holds(g, 70, s) <=> s = "release" \/ Holds(g, 71, s)
         /\ Holds(g, 71, s) <=> s = "drain" \/ Holds(g, 66, s)
         /\ Holds(g, 72, s) <=> s = "acquire" \/ Holds(g, 73, s)
         /\ Holds(g, 73, s) <=> s = "assign" \/ Holds(g, 74, s)
         /\ Holds(g, 74, s) <=> s = "release" \/ Holds(g, 66, s)
         /\ Holds(g, 75, s) <=> s = "drain" \/ Holds(g, 76, s)
         /\ Holds(g, 76, s) <=> s = "tasks" \/ (IF Gathers(g) THEN Holds(g, 85, s) ELSE Holds(g, 82, s))
         /\ Holds(g, 77, s) <=> s = "ran" \/ Holds(g, 76, s)
         /\ Holds(g, 78, s) <=> s = "acquire" \/ Holds(g, 79, s)
         /\ Holds(g, 79, s) <=> s = "assign" \/ Holds(g, 80, s)
         /\ Holds(g, 80, s) <=> s = "release" \/ Holds(g, 81, s)
         /\ Holds(g, 81, s) <=> s = "drain" \/ Holds(g, 76, s)
         /\ Holds(g, 82, s) <=> s = "sync" \/ Holds(g, 83, s)
         /\ Holds(g, 83, s) <=> s = "lock" \/ Holds(g, 84, s)
         /\ Holds(g, 84, s) <=> s = "gather" \/ Holds(g, 85, s)
         /\ Holds(g, 85, s) <=> s = "leave" \/ Holds(g, 86, s)
         /\ Holds(g, 86, s) <=> s = "release" \/ (IF g.mtrrs THEN Holds(g, 87, s) ELSE (IF g.debug THEN Holds(g, 90, s) ELSE Holds(g, 92, s)))
         /\ Holds(g, 87, s) <=> s = "waitAPs" \/ Holds(g, 88, s)
         /\ Holds(g, 88, s) <=> s = "release" \/ Holds(g, 89, s)
         /\ Holds(g, 89, s) <=> s = "restore" \/ Holds(g, 90, s)
         /\ Holds(g, 90, s) <=> s = "waitAPs" \/ Holds(g, 91, s)
         /\ Holds(g, 91, s) <=> s = "release" \/ Holds(g, 92, s)
         /\ Holds(g, 92, s) <=> s = "absent" \/ Holds(g, 93, s)
         /\ Holds(g, 93, s) <=> s = "waitAPs" \/ Holds(g, 94, s)
         /\ Holds(g, 94, s) <=> s = "unelect" \/ Holds(g, 95, s)
         /\ Holds(g, 95, s) <=> s = "reset" \/ Holds(g, 96, s)
         /\ Holds(g, 96, s) <=> s = "unsync" \/ Holds(g, 5, s)
<1>50. Holds(g, 50, s) <=> s = "inside" \/ Holds(g, 51, s)
  <2>1. 50 \in Places \ {0}
    BY DEF Places
  <2>2. StepAt(50) = "inside" /\ NextAt(g, 50) = (51)
    BY DEF StepAt, NextAt
  <2> QED
    BY <2>1, <2>2, HoldsStep
<1>51. Holds(g, 51, s) <=> s = "status" \/ (IF Gathers(g) THEN Holds(g, 52, s) ELSE Holds(g, 65, s))
  <2>1. 51 \in Places \ {0}
    BY DEF Places
  <2>2. StepAt(51) = "status" /\ NextAt(g, 51) = (IF Gathers(g) THEN 52 ELSE 65)
    BY DEF StepAt, NextAt
  <2> QED
    BY <2>1, <2>2, HoldsStep
<1>52. Holds(g, 52, s) <=> s = "arrive" \/ Holds(g, 53, s)
  <2>1. 52 \in Places \ {0}
    BY DEF Places
  <2>2. StepAt(52) = "arrive" /\ NextAt(g, 52) = (53)
    BY DEF StepAt, NextAt
  <2> QED
    BY <2>1, <2>2, HoldsStep
<1>53. Holds(g, 53, s) <=> s = "arrive2" \/ Holds(g, 54, s)
  <2>1. 53 \in Places \ {0}
    BY DEF Places
  <2>2. StepAt(53) = "arrive2" /\ NextAt(g, 53) = (54)
    BY DEF StepAt, NextAt
  <2> QED
    BY <2>1, <2>2, HoldsStep
<1>54. Holds(g, 54, s) <=> s = "sync" \/ Holds(g, 55, s)
  <2>1. 54 \in Places \ {0}
    BY DEF Places
  <2>2. StepAt(54) = "sync" /\ NextAt(g, 54) = (55)
    BY DEF StepAt, NextAt
  <2> QED
    BY <2>1, <2>2, HoldsStep
<1>55. Holds(g, 55, s) <=> s = "lock" \/ Holds(g, 56, s)
  <2>1. 55 \in Places \ {0}
    BY DEF Places
  <2>2. StepAt(55) = "lock" /\ NextAt(g, 55) = (56)
    BY DEF StepAt, NextAt
  <2> QED
    BY <2>1, <2>2, HoldsStep
<1>56. Holds(g, 56, s) <=> s = "waitAPs" \/ Holds(g, 57, s)
  <2>1. 56 \in Places \ {0}
    BY DEF Places
  <2>2. StepAt(56) = "waitAPs" /\ NextAt(g, 56) = (57)
    BY DEF StepAt, NextAt
  <2> QED
    BY <2>1, <2>2, HoldsStep
<1>57. Holds(g, 57, s) <=> s = "release" \/ (IF g.mtrrs THEN Holds(g, 58, s) ELSE Holds(g, 64, s))
  <2>1. 57 \in Places \ {0}
    BY DEF Places
  <2>2. StepAt(57) = "release" /\ NextAt(g, 57) = (IF g.mtrrs THEN 58 ELSE 64)
    BY DEF StepAt, NextAt
  <2> QED
    BY <2>1, <2>2, HoldsStep
<1>58. Holds(g, 58, s) <=> s = "backup" \/ Holds(g, 59, s)
  <2>1. 58 \in Places \ {0}
    BY DEF Places
  <2>2. StepAt(58) = "backup" /\ NextAt(g, 58) = (59)
    BY DEF StepAt, NextAt
  <2> QED
    BY <2>1, <2>2, HoldsStep
<1>59. Holds(g, 59, s) <=> s = "waitAPs" \/ Holds(g, 60, s)
  <2>1. 59 \in Places \ {0}
    BY DEF Places
  <2>2. StepAt(59) = "waitAPs" /\ NextAt(g, 59) = (60)
    BY DEF StepAt, NextAt
  <2> QED
    BY <2>1, <2>2, HoldsStep
<1>60. Holds(g, 60, s) <=> s = "release" \/ Holds(g, 61, s)
  <2>1. 60 \in Places \ {0}
    BY DEF Places
  <2>2. StepAt(60) = "release" /\ NextAt(g, 60) = (61)
    BY DEF StepAt, NextAt
  <2> QED
    BY <2>1, <2>2, HoldsStep
<1>61. Holds(g, 61, s) <=> s = "program" \/ Holds(g, 62, s)
  <2>1. 61 \in Places \ {0}
    BY DEF Places
  <2>2. StepAt(61) = "program" /\ NextAt(g, 61) = (62)
    BY DEF StepAt, NextAt
  <2> QED
    BY <2>1, <2>2, HoldsStep
<1>62. Holds(g, 62, s) <=> s = "waitAPs" \/ Holds(g, 63, s)
  <2>1. 62 \in Places \ {0}
    BY DEF Places
  <2>2. StepAt(62) = "waitAPs" /\ NextAt(g, 62) = (63)
    BY DEF StepAt, NextAt
  <2> QED
    BY <2>1, <2>2, HoldsStep
<1>63. Holds(g, 63, s) <=> s = "release" \/ Holds(g, 64, s)
  <2>1. 63 \in Places \ {0}
    BY DEF Places
  <2>2. StepAt(63) = "release" /\ NextAt(g, 63) = (64)
    BY DEF StepAt, NextAt
  <2> QED
    BY <2>1, <2>2, HoldsStep
<1>64. Holds(g, 64, s) <=> s = "waitAPs" \/ Holds(g, 65, s)
  <2>1. 64 \in Places \ {0}
    BY DEF Places
  <2>2. StepAt(64) = "waitAPs" /\ NextAt(g, 64) = (65)
    BY DEF StepAt, NextAt
  <2> QED
    BY <2>1, <2>2, HoldsStep
<1>65. Holds(g, 65, s) <=> s = "own" \/ Holds(g, 66, s)
  <2>1. 65 \in Places \ {0}
    BY DEF Places
  <2>2. StepAt(65) = "own" /\ NextAt(g, 65) = (66)
    BY DEF StepAt, NextAt
  <2> QED
    BY <2>1, <2>2, HoldsStep
<1>66. Holds(g, 66, s) <=> s = "handler" \/ Holds(g, 75, s)
  <2>1. 66 \in Places \ {0}
    BY DEF Places
  <2>2. StepAt(66) = "handler" /\ NextAt(g, 66) = (75)
    BY DEF StepAt, NextAt
  <2> QED
    BY <2>1, <2>2, HoldsStep
<1>67. Holds(g, 67, s) <=> s = "notbusy" \/ Holds(g, 66, s)
  <2>1. 67 \in Places \ {0}
    BY DEF Places
  <2>2. StepAt(67) = "notbusy" /\ NextAt(g, 67) = (66)
    BY DEF StepAt, NextAt
  <2> QED
    BY <2>1, <2>2, HoldsStep
<1>68. Holds(g, 68, s) <=> s = "acquire" \/ Holds(g, 69, s)
  <2>1. 68 \in Places \ {0}
    BY DEF Places
  <2>2. StepAt(68) = "acquire" /\ NextAt(g, 68) = (69)
    BY DEF StepAt, NextAt
  <2> QED
    BY <2>1, <2>2, HoldsStep
<1>69. Holds(g, 69, s) <=> s = "assign" \/ Holds(g, 70, s)
  <2>1. 69 \in Places \ {0}
    BY DEF Places
  <2>2. StepAt(69) = "assign" /\ NextAt(g, 69) = (70)
    BY DEF StepAt, NextAt
  <2> QED
    BY <2>1, <2>2, HoldsStep
<1>70. Holds(g, 70, s) <=> s = "release" \/ Holds(g, 71, s)
  <2>1. 70 \in Places \ {0}
    BY DEF Places
  <2>2. StepAt(70) = "release" /\ NextAt(g, 70) = (71)
    BY DEF StepAt, NextAt
  <2> QED
    BY <2>1, <2>2, HoldsStep
<1>71. Holds(g, 71, s) <=> s = "drain" \/ Holds(g, 66, s)
  <2>1. 71 \in Places \ {0}
    BY DEF Places
  <2>2. StepAt(71) = "drain" /\ NextAt(g, 71) = (66)
    BY DEF StepAt, NextAt
  <2> QED
    BY <2>1, <2>2, HoldsStep
<1>72. Holds(g, 72, s) <=> s = "acquire" \/ Holds(g, 73, s)
  <2>1. 72 \in Places \ {0}
    BY DEF Places
  <2>2. StepAt(72) = "acquire" /\ NextAt(g, 72) = (73)
    BY DEF StepAt, NextAt
  <2> QED
    BY <2>1, <2>2, HoldsStep
<1>73. Holds(g, 73, s) <=> s = "assign" \/ Holds(g, 74, s)
  <2>1. 73 \in Places \ {0}
    BY DEF Places
  <2>2. StepAt(73) = "assign" /\ NextAt(g, 73) = (74)
    BY DEF StepAt, NextAt
  <2> QED
    BY <2>1, <2>2, HoldsStep
<1>74. Holds(g, 74, s) <=> s = "release" \/ Holds(g, 66, s)
  <2>1. 74 \in Places \ {0}
    BY DEF Places
  <2>2. StepAt(74) = "release" /\ NextAt(g, 74) = (66)
    BY DEF StepAt, NextAt
  <2> QED
    BY <2>1, <2>2, HoldsStep
<1>75. Holds(g, 75, s) <=> s = "drain" \/ Holds(g, 76, s)
  <2>1. 75 \in Places \ {0}
    BY DEF Places
  <2>2. StepAt(75) = "drain" /\ NextAt(g, 75) = (76)
    BY DEF StepAt, NextAt
  <2> QED
    BY <2>1, <2>2, HoldsStep
<1>76. Holds(g, 76, s) <=> s = "tasks" \/ (IF Gathers(g) THEN Holds(g, 85, s) ELSE Holds(g, 82, s))
  <2>1. 76 \in Places \ {0}
    BY DEF Places
  <2>2. StepAt(76) = "tasks" /\ NextAt(g, 76) = (IF Gathers(g) THEN 85 ELSE 82)
    BY DEF StepAt, NextAt
  <2> QED
    BY <2>1, <2>2, HoldsStep
<1>77. Holds(g, 77, s) <=> s = "ran" \/ Holds(g, 76, s)
  <2>1. 77 \in Places \ {0}
    BY DEF Places
  <2>2. StepAt(77) = "ran" /\ NextAt(g, 77) = (76)
    BY DEF StepAt, NextAt
  <2> QED
    BY <2>1, <2>2, HoldsStep
<1>78. Holds(g, 78, s) <=> s = "acquire" \/ Holds(g, 79, s)
  <2>1. 78 \in Places \ {0}
    BY DEF Places
  <2>2. StepAt(78) = "acquire" /\ NextAt(g, 78) = (79)
    BY DEF StepAt, NextAt
  <2> QED
    BY <2>1, <2>2, HoldsStep
<1>79. Holds(g, 79, s) <=> s = "assign" \/ Holds(g, 80, s)
  <2>1. 79 \in Places \ {0}
    BY DEF Places
  <2>2. StepAt(79) = "assign" /\ NextAt(g, 79) = (80)
    BY DEF StepAt, NextAt
  <2> QED
    BY <2>1, <2>2, HoldsStep
<1>80. Holds(g, 80, s) <=> s = "release" \/ Holds(g, 81, s)
  <2>1. 80 \in Places \ {0}
    BY DEF Places
  <2>2. StepAt(80) = "release" /\ NextAt(g, 80) = (81)
    BY DEF StepAt, NextAt
  <2> QED
    BY <2>1, <2>2, HoldsStep
<1>81. Holds(g, 81, s) <=> s = "drain" \/ Holds(g, 76, s)
  <2>1. 81 \in Places \ {0}
    BY DEF Places
  <2>2. StepAt(81) = "drain" /\ NextAt(g, 81) = (76)
    BY DEF StepAt, NextAt
  <2> QED
    BY <2>1, <2>2, HoldsStep
<1>82. Holds(g, 82, s) <=> s = "sync" \/ Holds(g, 83, s)
  <2>1. 82 \in Places \ {0}
    BY DEF Places
  <2>2. StepAt(82) = "sync" /\ NextAt(g, 82) = (83)
    BY DEF StepAt, NextAt
  <2> QED
    BY <2>1, <2>2, HoldsStep
<1>83. Holds(g, 83, s) <=> s = "lock" \/ Holds(g, 84, s)
  <2>1. 83 \in Places \ {0}
    BY DEF Places
  <2>2. StepAt(83) = "lock" /\ NextAt(g, 83) = (84)
    BY DEF StepAt, NextAt
  <2> QED
    BY <2>1, <2>2, HoldsStep
<1>84. Holds(g, 84, s) <=> s = "gather" \/ Holds(g, 85, s)
  <2>1. 84 \in Places \ {0}
    BY DEF Places
  <2>2. StepAt(84) = "gather" /\ NextAt(g, 84) = (85)
    BY DEF StepAt, NextAt
  <2> QED
    BY <2>1, <2>2, HoldsStep
<1>85. Holds(g, 85, s) <=> s = "leave" \/ Holds(g, 86, s)
  <2>1. 85 \in Places \ {0}
    BY DEF Places
  <2>2. StepAt(85) = "leave" /\ NextAt(g, 85) = (86)
    BY DEF StepAt, NextAt
  <2> QED
    BY <2>1, <2>2, HoldsStep
<1>86. Holds(g, 86, s) <=> s = "release" \/ (IF g.mtrrs THEN Holds(g, 87, s) ELSE (IF g.debug THEN Holds(g, 90, s) ELSE Holds(g, 92, s)))
  <2>1. 86 \in Places \ {0}
    BY DEF Places
  <2>2. StepAt(86) = "release" /\ NextAt(g, 86) = (IF g.mtrrs THEN 87 ELSE IF g.debug THEN 90 ELSE 92)
    BY DEF StepAt, NextAt
  <2> QED
    BY <2>1, <2>2, HoldsStep
<1>87. Holds(g, 87, s) <=> s = "waitAPs" \/ Holds(g, 88, s)
  <2>1. 87 \in Places \ {0}
    BY DEF Places
  <2>2. StepAt(87) = "waitAPs" /\ NextAt(g, 87) = (88)
    BY DEF StepAt, NextAt
  <2> QED
    BY <2>1, <2>2, HoldsStep
<1>88. Holds(g, 88, s) <=> s = "release" \/ Holds(g, 89, s)
  <2>1. 88 \in Places \ {0}
    BY DEF Places
  <2>2. StepAt(88) = "release" /\ NextAt(g, 88) = (89)
    BY DEF StepAt, NextAt
  <2> QED
    BY <2>1, <2>2, HoldsStep
<1>89. Holds(g, 89, s) <=> s = "restore" \/ Holds(g, 90, s)
  <2>1. 89 \in Places \ {0}
    BY DEF Places
  <2>2. StepAt(89) = "restore" /\ NextAt(g, 89) = (90)
    BY DEF StepAt, NextAt
  <2> QED
    BY <2>1, <2>2, HoldsStep
<1>90. Holds(g, 90, s) <=> s = "waitAPs" \/ Holds(g, 91, s)
  <2>1. 90 \in Places \ {0}
    BY DEF Places
  <2>2. StepAt(90) = "waitAPs" /\ NextAt(g, 90) = (91)
    BY DEF StepAt, NextAt
  <2> QED
    BY <2>1, <2>2, HoldsStep
<1>91. Holds(g, 91, s) <=> s = "release" \/ Holds(g, 92, s)
  <2>1. 91 \in Places \ {0}
    BY DEF Places
  <2>2. StepAt(91) = "release" /\ NextAt(g, 91) = (92)
    BY DEF StepAt, NextAt
  <2> QED
    BY <2>1, <2>2, HoldsStep
<1>92. Holds(g, 92, s) <=> s = "absent" \/ Holds(g, 93, s)
  <2>1. 92 \in Places \ {0}
    BY DEF Places
  <2>2. StepAt(92) = "absent" /\ NextAt(g, 92) = (93)
    BY DEF StepAt, NextAt
  <2> QED
    BY <2>1, <2>2, HoldsStep
<1>93. Holds(g, 93, s) <=> s = "waitAPs" \/ Holds(g, 94, s)
  <2>1. 93 \in Places \ {0}
    BY DEF Places
  <2>2. StepAt(93) = "waitAPs" /\ NextAt(g, 93) = (94)
    BY DEF StepAt, NextAt
  <2> QED
    BY <2>1, <2>2, HoldsStep
<1>94. Holds(g, 94, s) <=> s = "unelect" \/ Holds(g, 95, s)
  <2>1. 94 \in Places \ {0}
    BY DEF Places
  <2>2. StepAt(94) = "unelect" /\ NextAt(g, 94) = (95)
    BY DEF StepAt, NextAt
  <2> QED
    BY <2>1, <2>2, HoldsStep
<1>95. Holds(g, 95, s) <=> s = "reset" \/ Holds(g, 96, s)
  <2>1. 95 \in Places \ {0}
    BY DEF Places
  <2>2. StepAt(95) = "reset" /\ NextAt(g, 95) = (96)
    BY DEF StepAt, NextAt
  <2> QED
    BY <2>1, <2>2, HoldsStep
<1>96. Holds(g, 96, s) <=> s = "unsync" \/ Holds(g, 5, s)
  <2>1. 96 \in Places \ {0}
    BY DEF Places
  <2>2. StepAt(96) = "unsync" /\ NextAt(g, 96) = (5)
    BY DEF StepAt, NextAt
  <2> QED
    BY <2>1, <2>2, HoldsStep
<1> QED
  BY <1>50, <1>51, <1>52, <1>53, <1>54, <1>55, <1>56, <1>57, <1>58, <1>59,
     <1>60, <1>61, <1>62, <1>63, <1>64, <1>65, <1>66, <1>67, <1>68, <1>69,
     <1>70, <1>71, <1>72, <1>73, <1>74, <1>75, <1>76, <1>77, <1>78, <1>79,
     <1>80, <1>81, <1>82, <1>83, <1>84, <1>85, <1>86, <1>87, <1>88, <1>89,
     <1>90, <1>91, <1>92, <1>93, <1>94, <1>95, <1>96

\* The reset of the context is ahead of the BSP and of nobody else.
LEMMA ResetAhead ==
  ASSUME NEW g, NEW p \in Places
  PROVE  Holds(g, p, "reset") <=> p \in 50 .. 95
<1> DEFINE H(q) == Holds(g, q, "reset")
<1>1. /\ ~H(0) /\ ~H(1) /\ ~H(2) /\ ~H(3) /\ ~H(4) /\ ~H(5) /\ ~H(9) /\ ~H(10)
      /\ ~H(11) /\ ~H(12) /\ ~H(13)
  BY HoldsNothing, EntrySteps
<1>2. /\ ~H(20) /\ ~H(21) /\ ~H(22) /\ ~H(23) /\ ~H(24) /\ ~H(25) /\ ~H(26) /\ ~H(27)
      /\ ~H(28) /\ ~H(29) /\ ~H(30) /\ ~H(31) /\ ~H(32) /\ ~H(33) /\ ~H(34) /\ ~H(35)
      /\ ~H(36) /\ ~H(37) /\ ~H(38) /\ ~H(39)
  BY <1>1, ApSteps
<1>3. /\ H(50) /\ H(51) /\ H(52) /\ H(53) /\ H(54) /\ H(55) /\ H(56) /\ H(57)
      /\ H(58) /\ H(59) /\ H(60) /\ H(61) /\ H(62) /\ H(63) /\ H(64) /\ H(65)
      /\ H(66) /\ H(67) /\ H(68) /\ H(69) /\ H(70) /\ H(71) /\ H(72) /\ H(73)
      /\ H(74) /\ H(75) /\ H(76) /\ H(77) /\ H(78) /\ H(79) /\ H(80) /\ H(81)
      /\ H(82) /\ H(83) /\ H(84) /\ H(85) /\ H(86) /\ H(87)
      /\ H(88) /\ H(89) /\ H(90) /\ H(91) /\ H(92) /\ H(93) /\ H(94) /\ H(95)
      /\ ~H(96)
  BY <1>1, BspSteps
<1> HIDE DEF H
<1>4. H(p) <=> p \in 50 .. 95
  <2>1. CASE p \in 0 .. 13
    BY <1>1, <2>1 DEF Places
  <2>2. CASE p \in 20 .. 39
    BY <1>2, <2>2 DEF Places
  <2>3. CASE p \in 50 .. 69
    BY <1>3, <2>3 DEF Places
  <2>4. CASE p \in 70 .. 96
    BY <1>3, <2>4 DEF Places
  <2> QED
    BY <2>1, <2>2, <2>3, <2>4 DEF Places
<1> QED
  BY <1>4 DEF H

\* Present is yet to be cleared in APHandler and in BSPHandler.
LEMMA AbsentAhead ==
  ASSUME NEW g, NEW p \in Places
  PROVE  Holds(g, p, "absent") <=> p \in 20 .. 38 \cup 50 .. 92
<1> DEFINE H(q) == Holds(g, q, "absent")
<1>1. /\ ~H(0) /\ ~H(1) /\ ~H(2) /\ ~H(3) /\ ~H(4) /\ ~H(5) /\ ~H(9) /\ ~H(10)
      /\ ~H(11) /\ ~H(12) /\ ~H(13)
  BY HoldsNothing, EntrySteps
<1>2. /\ H(20) /\ H(21) /\ H(22) /\ H(23) /\ H(24) /\ H(25) /\ H(26) /\ H(27)
      /\ H(28) /\ H(29) /\ H(30) /\ H(31) /\ H(32) /\ H(33) /\ H(34) /\ H(35)
      /\ H(36) /\ H(37) /\ H(38) /\ ~H(39)
  BY <1>1, ApSteps
<1>3. /\ H(50) /\ H(51) /\ H(52) /\ H(53) /\ H(54) /\ H(55) /\ H(56) /\ H(57)
      /\ H(58) /\ H(59) /\ H(60) /\ H(61) /\ H(62) /\ H(63) /\ H(64) /\ H(65)
      /\ H(66) /\ H(67) /\ H(68) /\ H(69) /\ H(70) /\ H(71) /\ H(72) /\ H(73)
      /\ H(74) /\ H(75) /\ H(76) /\ H(77) /\ H(78) /\ H(79) /\ H(80) /\ H(81)
      /\ H(82) /\ H(83) /\ H(84) /\ H(85) /\ H(86) /\ H(87)
      /\ H(88) /\ H(89) /\ H(90) /\ H(91) /\ H(92) /\ ~H(93) /\ ~H(94) /\ ~H(95)
      /\ ~H(96)
  BY <1>1, BspSteps
<1> HIDE DEF H
<1>4. H(p) <=> p \in 20 .. 38 \cup 50 .. 92
  <2>1. CASE p \in 0 .. 13
    BY <1>1, <2>1 DEF Places
  <2>2. CASE p \in 20 .. 39
    BY <1>2, <2>2 DEF Places
  <2>3. CASE p \in 50 .. 69
    BY <1>3, <2>3 DEF Places
  <2>4. CASE p \in 70 .. 96
    BY <1>3, <2>4 DEF Places
  <2> QED
    BY <2>1, <2>2, <2>3, <2>4 DEF Places
<1> QED
  BY <1>4 DEF H

\* Only APs signal.
LEMMA SignalAhead ==
  ASSUME NEW g, NEW p \in Places
  PROVE  Holds(g, p, "signal") <=> p \in 20 .. 39
<1> DEFINE H(q) == Holds(g, q, "signal")
<1>1. /\ ~H(0) /\ ~H(1) /\ ~H(2) /\ ~H(3) /\ ~H(4) /\ ~H(5) /\ ~H(9) /\ ~H(10)
      /\ ~H(11) /\ ~H(12) /\ ~H(13)
  BY HoldsNothing, EntrySteps
<1>2. /\ H(20) /\ H(21) /\ H(22) /\ H(23) /\ H(24) /\ H(25) /\ H(26) /\ H(27)
      /\ H(28) /\ H(29) /\ H(30) /\ H(31) /\ H(32) /\ H(33) /\ H(34) /\ H(35)
      /\ H(36) /\ H(37) /\ H(38) /\ H(39)
  BY <1>1, ApSteps
<1>3. /\ ~H(50) /\ ~H(51) /\ ~H(52) /\ ~H(53) /\ ~H(54) /\ ~H(55) /\ ~H(56) /\ ~H(57)
      /\ ~H(58) /\ ~H(59) /\ ~H(60) /\ ~H(61) /\ ~H(62) /\ ~H(63) /\ ~H(64) /\ ~H(65)
      /\ ~H(66) /\ ~H(67) /\ ~H(68) /\ ~H(69) /\ ~H(70) /\ ~H(71) /\ ~H(72) /\ ~H(73)
      /\ ~H(74) /\ ~H(75) /\ ~H(76) /\ ~H(77) /\ ~H(78) /\ ~H(79) /\ ~H(80) /\ ~H(81)
      /\ ~H(82) /\ ~H(83) /\ ~H(84) /\ ~H(85) /\ ~H(86) /\ ~H(87)
      /\ ~H(88) /\ ~H(89) /\ ~H(90) /\ ~H(91) /\ ~H(92) /\ ~H(93) /\ ~H(94) /\ ~H(95)
      /\ ~H(96)
  BY <1>1, BspSteps
<1> HIDE DEF H
<1>4. H(p) <=> p \in 20 .. 39
  <2>1. CASE p \in 0 .. 13
    BY <1>1, <2>1 DEF Places
  <2>2. CASE p \in 20 .. 39
    BY <1>2, <2>2 DEF Places
  <2>3. CASE p \in 50 .. 69
    BY <1>3, <2>3 DEF Places
  <2>4. CASE p \in 70 .. 96
    BY <1>3, <2>4 DEF Places
  <2> QED
    BY <2>1, <2>2, <2>3, <2>4 DEF Places
<1> QED
  BY <1>4 DEF H

\* The BSP has yet to acquire its own Busy lock.
LEMMA OwnAhead ==
  ASSUME NEW g, NEW p \in Places
  PROVE  Holds(g, p, "own") <=> p \in 50 .. 65
<1> DEFINE H(q) == Holds(g, q, "own")
<1>1. /\ ~H(0) /\ ~H(1) /\ ~H(2) /\ ~H(3) /\ ~H(4) /\ ~H(5) /\ ~H(9) /\ ~H(10)
      /\ ~H(11) /\ ~H(12) /\ ~H(13)
  BY HoldsNothing, EntrySteps
<1>2. /\ ~H(20) /\ ~H(21) /\ ~H(22) /\ ~H(23) /\ ~H(24) /\ ~H(25) /\ ~H(26) /\ ~H(27)
      /\ ~H(28) /\ ~H(29) /\ ~H(30) /\ ~H(31) /\ ~H(32) /\ ~H(33) /\ ~H(34) /\ ~H(35)
      /\ ~H(36) /\ ~H(37) /\ ~H(38) /\ ~H(39)
  BY <1>1, ApSteps
<1>3. /\ H(50) /\ H(51) /\ H(52) /\ H(53) /\ H(54) /\ H(55) /\ H(56) /\ H(57)
      /\ H(58) /\ H(59) /\ H(60) /\ H(61) /\ H(62) /\ H(63) /\ H(64) /\ H(65)
      /\ ~H(66) /\ ~H(67) /\ ~H(68) /\ ~H(69) /\ ~H(70) /\ ~H(71) /\ ~H(72) /\ ~H(73)
      /\ ~H(74) /\ ~H(75) /\ ~H(76) /\ ~H(77) /\ ~H(78) /\ ~H(79) /\ ~H(80) /\ ~H(81)
      /\ ~H(82) /\ ~H(83) /\ ~H(84) /\ ~H(85) /\ ~H(86) /\ ~H(87)
      /\ ~H(88) /\ ~H(89) /\ ~H(90) /\ ~H(91) /\ ~H(92) /\ ~H(93) /\ ~H(94) /\ ~H(95)
      /\ ~H(96)
  BY <1>1, BspSteps
<1> HIDE DEF H
<1>4. H(p) <=> p \in 50 .. 65
  <2>1. CASE p \in 0 .. 13
    BY <1>1, <2>1 DEF Places
  <2>2. CASE p \in 20 .. 39
    BY <1>2, <2>2 DEF Places
  <2>3. CASE p \in 50 .. 69
    BY <1>3, <2>3 DEF Places
  <2>4. CASE p \in 70 .. 96
    BY <1>3, <2>4 DEF Places
  <2> QED
    BY <2>1, <2>2, <2>3, <2>4 DEF Places
<1> QED
  BY <1>4 DEF H

\* The handlers, or the remaining tasks, have yet to return.
LEMMA TasksAhead ==
  ASSUME NEW g, NEW p \in Places
  PROVE  Holds(g, p, "tasks") <=> p \in 50 .. 81
<1> DEFINE H(q) == Holds(g, q, "tasks")
<1>1. /\ ~H(0) /\ ~H(1) /\ ~H(2) /\ ~H(3) /\ ~H(4) /\ ~H(5) /\ ~H(9) /\ ~H(10)
      /\ ~H(11) /\ ~H(12) /\ ~H(13)
  BY HoldsNothing, EntrySteps
<1>2. /\ ~H(20) /\ ~H(21) /\ ~H(22) /\ ~H(23) /\ ~H(24) /\ ~H(25) /\ ~H(26) /\ ~H(27)
      /\ ~H(28) /\ ~H(29) /\ ~H(30) /\ ~H(31) /\ ~H(32) /\ ~H(33) /\ ~H(34) /\ ~H(35)
      /\ ~H(36) /\ ~H(37) /\ ~H(38) /\ ~H(39)
  BY <1>1, ApSteps
<1>3. /\ H(50) /\ H(51) /\ H(52) /\ H(53) /\ H(54) /\ H(55) /\ H(56) /\ H(57)
      /\ H(58) /\ H(59) /\ H(60) /\ H(61) /\ H(62) /\ H(63) /\ H(64) /\ H(65)
      /\ H(66) /\ H(67) /\ H(68) /\ H(69) /\ H(70) /\ H(71) /\ H(72) /\ H(73)
      /\ H(74) /\ H(75) /\ H(76) /\ H(77) /\ H(78) /\ H(79) /\ H(80) /\ H(81)
      /\ ~H(82) /\ ~H(83) /\ ~H(84) /\ ~H(85) /\ ~H(86) /\ ~H(87)
      /\ ~H(88) /\ ~H(89) /\ ~H(90) /\ ~H(91) /\ ~H(92) /\ ~H(93) /\ ~H(94) /\ ~H(95)
      /\ ~H(96)
  BY <1>1, BspSteps
<1> HIDE DEF H
<1>4. H(p) <=> p \in 50 .. 81
  <2>1. CASE p \in 0 .. 13
    BY <1>1, <2>1 DEF Places
  <2>2. CASE p \in 20 .. 39
    BY <1>2, <2>2 DEF Places
  <2>3. CASE p \in 50 .. 69
    BY <1>3, <2>3 DEF Places
  <2>4. CASE p \in 70 .. 96
    BY <1>3, <2>4 DEF Places
  <2> QED
    BY <2>1, <2>2, <2>3, <2>4 DEF Places
<1> QED
  BY <1>4 DEF H

(***************************************************************************)
(* What the invariant says of the properties.                              *)
(***************************************************************************)
LEMMA HasAhead ==
  ASSUME NEW g, NEW w, Inv(g, w), NEW c \in Cpu, NEW s
  PROVE  Has(c, s) <=> Holds(g, w[c], s)
BY DEF Inv, Where, Has, Holds

\* The roles the properties speak of are ranges of places.
LEMMA RolePlaces ==
  ASSUME NEW g, NEW w, Inv(g, w), NEW c \in Cpu
  PROVE  /\ w[c] \in Places
         /\ InBspHandler(c) <=> w[c] \in 50 .. 95
         /\ InApHandler(c) <=> w[c] \in 10 .. 38
         /\ Has(c, "signal") <=> w[c] \in 20 .. 39
         /\ InHandlers(c) <=> w[c] \in 66 .. 81
<1>1. w[c] \in Places /\ w \in [Cpu -> Places] /\ Where(g, w)
  BY DEF Inv
<1>2. InBspHandler(c) <=> w[c] \in 50 .. 95
  BY <1>1, HasAhead, ResetAhead DEF InBspHandler
<1>3. Has(c, "absent") <=> w[c] \in 20 .. 38 \cup 50 .. 92
  BY <1>1, HasAhead, AbsentAhead
<1>4. todo[c] # <<>> /\ Head(todo[c]) \in {"elect", "await", "who", "await2"}
        <=> w[c] \in 10 .. 13
  <2>1. CASE w[c] = 0
    BY <1>1, <2>1, OutsideSmm
  <2>2. CASE w[c] # 0
    <3>1. w[c] \in Places \ {0} /\ todo[c] = Rest(g, w[c])
      BY <1>1, <2>2 DEF Where
    <3>2. todo[c] # <<>> /\ Head(todo[c]) = StepAt(w[c])
      BY <3>1, FirstAndRest
    <3>3. StepAt(w[c]) \in {"elect", "await", "who", "await2"} <=> w[c] \in 10 .. 13
      <4>1. StepAt(w[c]) \in {"elect", "await", "who", "await2"} => w[c] \in 10 .. 13
        BY <3>1, StepPlaces DEF PlacesOf
      <4>2. \A p \in 10 .. 13 : StepAt(p) \in {"elect", "await", "who", "await2"}
        BY StepsOfEntry
      <4> QED
        BY <4>1, <4>2
    <3> QED
      BY <3>2, <3>3
  <2> QED
    BY <2>1, <2>2
<1>5. InApHandler(c) <=> w[c] \in 10 .. 38
  <2>1. InApHandler(c) <=> /\ w[c] \notin 50 .. 95
                           /\ w[c] \in 20 .. 38 \cup 50 .. 92 \/ w[c] \in 10 .. 13
    BY <1>2, <1>3, <1>4 DEF InApHandler
  <2> QED
    BY <1>1, <2>1 DEF Places
<1>6. Has(c, "signal") <=> w[c] \in 20 .. 39
  BY <1>1, HasAhead, SignalAhead
<1>7. InHandlers(c) <=> w[c] \in 66 .. 81
  <2>1. Has(c, "tasks") <=> w[c] \in 50 .. 81
    BY <1>1, HasAhead, TasksAhead
  <2>2. Has(c, "own") <=> w[c] \in 50 .. 65
    BY <1>1, HasAhead, OwnAhead
  <2>3. w[c] \in 66 .. 81 <=> w[c] \in 50 .. 95 /\ w[c] \in 50 .. 81 /\ w[c] \notin 50 .. 65
    BY <1>1 DEF Places
  <2> QED
    BY <1>2, <2>1, <2>2, <2>3 DEF InHandlers
<1> QED
  BY <1>1, <1>2, <1>5, <1>6, <1>7

\* A semaphore counts at most N signals.
LEMMA RunBounded ==
  ASSUME NEW g, NEW w, Inv(g, w), NEW c \in Cpu
  PROVE  run[c] \in 0 .. N
<1>1. N \in Nat \ {0, 1} /\ run[c] \in Nat /\ w[c] \in Places /\ apCount \in 0 .. N - 1
  BY SmmAssumption DEF Inv, Typed
<1>2. CASE w[c] \in 20 .. 39
  <2>1. Match(g, w[c], run[c], busy[c], requested[c], w[bsp[c]])
    BY <1>2 DEF Inv, Members
  <2>2. run[c] = 0 \/ run[c] = 1
    BY <2>1 DEF Match, Released, Between, LeavesLoop, Looping, Finishing, Assigning, Releasing, Drained, Idle, Working
  <2> QED
    BY <1>1, <2>2
<1>3. CASE w[c] \in 50 .. 91
  <2>1. run[c] = Count(w, Signalled(g, w[c]))
    BY <1>3 DEF Inv, Counts
  <2> QED
    BY <2>1, CountType
<1>4. CASE w[c] \in 92 .. 93
  <2>1. run[c] + Count(w, ApPlaces) = apCount
    BY <1>4 DEF Inv, Counts
  <2>2. Count(w, ApPlaces) \in Nat
    BY CountType
  <2> QED
    BY <1>1, <2>1, <2>2
<1>5. CASE w[c] \notin 20 .. 39 \cup 50 .. 93
  <2>1. Own(g, w[c], run[c], present[c], busy[c], requested[c], mtrr[c])
    BY DEF Inv, Flags
  <2>2. run[c] = 0
    BY <1>5, <2>1 DEF Own
  <2> QED
    BY <1>1, <2>2
<1> QED
  BY <1>1, <1>2, <1>3, <1>4, <1>5

\* The invariant implies TypeOK.
LEMMA InvTypeOK ==
  ASSUME NEW g, NEW w, Inv(g, w)
  PROVE  TypeOK
<1>1. Typed /\ config \in Configs
  BY DEF Inv, Where
<1>2. run \in [Cpu -> 0 .. N]
  BY <1>1, RunBounded DEF Typed
<1>3. cpuCount \in {Locked} \cup 0 .. N
  BY CpuCountType
<1>4. DOMAIN todo = Cpu
  BY DEF Inv, Where
<1>5. ASSUME NEW c \in Cpu, NEW i \in DOMAIN todo[c]
      PROVE  todo[c][i] \in StepNames
  <2>1. todo[c] = Rest(g, w[c]) /\ w[c] \in Places
    BY DEF Inv, Where
  <2>2. todo[c] \in Seq(StepNames)
    BY <2>1, RestIsSeq
  <2> QED
    BY <2>2
<1> QED
  BY <1>1, <1>2, <1>3, <1>4, <1>5 DEF TypeOK, Typed

\* The invariant implies OneBsp.
LEMMA InvOneBsp ==
  ASSUME NEW g, NEW w, Inv(g, w)
  PROVE  OneBsp
<1> SUFFICES ASSUME NEW b \in Cpu, InBspHandler(b)
             PROVE  /\ \A c \in Cpu \ {b} : ~InBspHandler(c)
                    /\ \A c \in Cpu : Has(c, "signal") => bsp[c] = b
  BY DEF OneBsp
<1>1. w[b] \in BspPlaces
  BY RolePlaces DEF BspPlaces
<1>2. ASSUME NEW c \in Cpu \ {b}
      PROVE  ~InBspHandler(c)
  <2>1. w[c] \notin BspPlaces
    BY <1>1 DEF Inv, Leader
  <2> QED
    BY <2>1, RolePlaces DEF BspPlaces
<1>3. ASSUME NEW c \in Cpu, Has(c, "signal")
      PROVE  bsp[c] = b
  <2>1. w[c] \in 20 .. 39
    BY <1>3, RolePlaces
  <2> QED
    BY <1>1, <2>1, BspOfMember
<1> QED
  BY <1>2, <1>3

\* The invariant implies CountedTakePart.
LEMMA InvCountedTakePart ==
  ASSUME NEW g, NEW w, Inv(g, w)
  PROVE  CountedTakePart
<1> SUFFICES ASSUME cpuCount = Locked, insideSmm
             PROVE  apCount = Cardinality({c \in Cpu : InApHandler(c)})
  BY DEF CountedTakePart
<1>1. PICK b \in Cpu : w[b] \in 51 .. 85
  BY DEF Inv, Leader
<1>2. w[b] \in BspPlaces /\ IsLocked(g, w[b])
  <2>1. Count(w, CheckedIn) \in Nat
    BY CountType
  <2>2. Count(w, CheckedIn) # cpuCount
    BY <2>1 DEF Locked
  <2>3. PICK d \in Cpu : IsLocked(g, w[d])
    BY <2>2 DEF Inv, Counts
  <2>4. w[d] \in BspPlaces /\ w[b] \in BspPlaces
    BY <1>1, <2>3 DEF IsLocked, BspPlaces
  <2>5. d = b
    BY <2>4 DEF Inv, Leader
  <2> QED
    BY <2>3, <2>4, <2>5
<1>3. apCount = Count(w, ApPlaces)
  BY <1>1, <1>2 DEF Inv, Counts
<1>4. ASSUME NEW c \in Cpu
      PROVE  w[c] \in ApPlaces <=> InApHandler(c)
  <2>1. w[c] # 39
    <3>1. SUFFICES ASSUME w[c] = 39
                   PROVE  FALSE
      OBVIOUS
    <3>2. Match(g, 39, run[c], busy[c], requested[c], w[b])
      BY <1>2, <3>1, BspOfMember
    <3> QED
      BY <1>1, <3>2 DEF Match, Released, Between, Looping, Finishing, Assigning, Releasing, Drained, Idle, Working
  <2> QED
    BY <2>1, RolePlaces DEF ApPlaces, Places
<1>5. {c \in Cpu : InApHandler(c)} = {c \in Cpu : w[c] \in ApPlaces}
  BY <1>4
<1> QED
  BY <1>3, <1>5 DEF Count

\* The invariant implies NothingCarriedOver.
LEMMA InvNothingCarriedOver ==
  ASSUME NEW g, NEW w, Inv(g, w)
  PROVE  NothingCarriedOver
<1> SUFFICES ASSUME NEW b \in Cpu, At(b, "unelect") \/ At(b, "reset"), NEW c \in Cpu
             PROVE  run[c] = 0 /\ ~present[c] /\ ~InApHandler(c) /\ ~requested[c]
  BY DEF NothingCarriedOver
<1>1. w \in [Cpu -> Places] /\ Where(g, w)
  BY DEF Inv
<1>2. w[b] \in 94 .. 95
  <2>1. CASE At(b, "unelect")
    <3>1. w[b] \in Places \ {0} /\ StepAt(w[b]) = "unelect"
      BY <1>1, <2>1, AtPlace
    <3> QED
      BY <3>1, StepPlaces DEF PlacesOf
  <2>2. CASE At(b, "reset")
    <3>1. w[b] \in Places \ {0} /\ StepAt(w[b]) = "reset"
      BY <1>1, <2>2, AtPlace
    <3> QED
      BY <3>1, StepPlaces DEF PlacesOf
  <2> QED
    BY <2>1, <2>2
<1>3. w[c] \notin ApPlaces
  BY <1>2 DEF Inv, Quiesced
<1>4. w[c] \notin 10 .. 39 /\ w[c] \notin 50 .. 93
  <2>1. w[c] \in BspPlaces => c = b
    BY <1>2 DEF Inv, Leader, BspPlaces
  <2> QED
    BY <1>2, <1>3, <2>1 DEF BspPlaces, ApPlaces
<1>5. Own(g, w[c], run[c], present[c], busy[c], requested[c], mtrr[c])
  BY DEF Inv, Flags
<1>6. run[c] = 0
  BY <1>4, <1>5 DEF Own
<1>7. ~present[c] /\ ~requested[c]
  BY <1>4, <1>5 DEF Own
<1>8. ~InApHandler(c)
  BY <1>4, RolePlaces
<1> QED
  BY <1>6, <1>7, <1>8

\* The invariant implies RunsWhatWasAsked.
LEMMA InvRunsWhatWasAsked ==
  ASSUME NEW g, NEW w, Inv(g, w)
  PROVE  RunsWhatWasAsked
<1>1. w \in [Cpu -> Places] /\ Where(g, w)
  BY DEF Inv
<1>2. ASSUME NEW c \in Cpu, At(c, "check"), insideSmm
      PROVE  busy[c] /\ requested[c]
  <2>1. w[c] = 31
    <3>1. w[c] \in Places \ {0} /\ StepAt(w[c]) = "check"
      BY <1>1, <1>2, AtPlace
    <3> QED
      BY <3>1, StepPlaces DEF PlacesOf
  <2>2. bsp[c] \in Cpu /\ Match(g, 31, run[c], busy[c], requested[c], w[bsp[c]])
    BY <2>1 DEF Inv, Members
  <2>3. w[bsp[c]] \in 51 .. 85
    <3>1. PICK b \in Cpu : w[b] \in 51 .. 85
      BY <1>2 DEF Inv, Leader
    <3>2. w[bsp[c]] \in 51 .. 93
      BY <2>2 DEF Match
    <3>3. w[b] \in BspPlaces /\ w[bsp[c]] \in BspPlaces
      BY <3>1, <3>2 DEF BspPlaces
    <3>4. b = bsp[c]
      BY <2>2, <3>3 DEF Inv, Leader
    <3> QED
      BY <3>1, <3>4
  <2> QED
    BY <2>2, <2>3 DEF Match, Between, Released, LeavesLoop, Looping, Finishing, Assigning,
                      Releasing, Drained, Idle, Working
<1>3. ASSUME NEW c \in Cpu, At(c, "procedure")
      PROVE  busy[c] /\ (requested[c] => insideSmm)
  <2>1. w[c] = 32
    <3>1. w[c] \in Places \ {0} /\ StepAt(w[c]) = "procedure"
      BY <1>1, <1>3, AtPlace
    <3> QED
      BY <3>1, StepPlaces DEF PlacesOf
  <2>2. bsp[c] \in Cpu /\ Match(g, 32, run[c], busy[c], requested[c], w[bsp[c]])
    BY <2>1 DEF Inv, Members
  <2>3. busy[c] /\ (requested[c] => w[bsp[c]] \in 51 .. 85)
    BY <2>2 DEF Match, Between, Released, LeavesLoop, Looping, Finishing, Assigning,
                Releasing, Drained, Idle, Working
  <2>4. w[bsp[c]] \in 51 .. 85 => insideSmm
    BY <2>2 DEF Inv, Leader
  <2> QED
    BY <2>3, <2>4
<1> QED
  BY <1>2, <1>3 DEF RunsWhatWasAsked

\* The invariant implies MtrrsInStep.
LEMMA InvMtrrsInStep ==
  ASSUME NEW g, NEW w, Inv(g, w)
  PROVE  MtrrsInStep
<1> SUFFICES ASSUME config.mtrrs
             PROVE  /\ (\E c \in Cpu : At(c, "backup")) => \A d \in Cpu : mtrr[d] = "os"
                    /\ \A b \in Cpu : InHandlers(b) =>
                         \A c \in Cpu : (c = b \/ present[c]) => mtrr[c] = "smm"
                    /\ \A c \in Cpu : todo[c] = <<>> => mtrr[c] = "os"
  BY DEF MtrrsInStep
<1>1. w \in [Cpu -> Places] /\ Where(g, w) /\ g.mtrrs /\ Gathers(g)
  BY DEF Inv, Where, Gathers
<1>2. \A d \in Cpu : /\ mtrr[d] \in {"os", "smm"}
                     /\ mtrr[d] = "smm" <=> w[d] \in 27 .. 35 \cup 62 .. 89
                     /\ present[d] <=> w[d] \in 21 .. 38 \cup 52 .. 92
  BY <1>1 DEF Inv, Flags, Own, Typed
<1>3. ASSUME NEW c \in Cpu, At(c, "backup"), NEW d \in Cpu
      PROVE  mtrr[d] = "os"
  <2>1. w[c] \in {23, 58}
    <3>1. w[c] \in Places \ {0} /\ StepAt(w[c]) = "backup"
      BY <1>1, <1>3, AtPlace
    <3> QED
      BY <3>1, StepPlaces DEF PlacesOf
  <2>2. PICK b \in Cpu : w[b] \in 58 .. 59
    <3>1. CASE w[c] = 58
      BY <3>1
    <3>2. CASE w[c] = 23
      <4>1. bsp[c] \in Cpu /\ Match(g, 23, run[c], busy[c], requested[c], w[bsp[c]])
        BY <3>2 DEF Inv, Members
      <4>2. w[bsp[c]] \in 58 .. 59
        BY <1>1, <4>1 DEF Match, Released, Between, LeavesLoop, Looping, Finishing, Assigning, Releasing, Drained, Idle, Working
      <4> QED
        BY <4>1, <4>2
    <3> QED
      BY <2>1, <3>1, <3>2
  <2>3. w[b] \in BspPlaces
    BY <2>2 DEF BspPlaces
  <2>4. w[d] \notin 62 .. 89
    <3>1. w[d] \in BspPlaces => d = b
      BY <2>3 DEF Inv, Leader
    <3> QED
      BY <2>2, <3>1 DEF BspPlaces
  <2>5. w[d] \notin 27 .. 35
    <3> SUFFICES ASSUME w[d] \in 27 .. 35
                 PROVE  FALSE
      OBVIOUS
    <3>1. Match(g, w[d], run[d], busy[d], requested[d], w[b])
      BY <2>3, BspOfMember
    <3> QED
      BY <1>1, <2>2, <3>1 DEF Match, Released, Between
  <2> QED
    BY <1>2, <2>4, <2>5
<1>4. ASSUME NEW b \in Cpu, InHandlers(b), NEW c \in Cpu, c = b \/ present[c]
      PROVE  mtrr[c] = "smm"
  <2>1. w[b] \in 66 .. 81 /\ w[b] \in BspPlaces
    BY <1>4, RolePlaces DEF BspPlaces
  <2>2. CASE c = b
    BY <1>2, <2>1, <2>2
  <2>3. CASE c # b
    <3>1. w[c] \in 21 .. 38 /\ w[c] \notin BspPlaces
      <4>1. w[c] \notin BspPlaces
        BY <2>1, <2>3 DEF Inv, Leader
      <4>2. w[c] \in 21 .. 38 \cup 52 .. 92
        BY <1>2, <1>4, <2>3
      <4> QED
        BY <4>1, <4>2 DEF BspPlaces
    <3>2. Match(g, w[c], run[c], busy[c], requested[c], w[b])
      BY <2>1, <3>1, BspOfMember
    <3>3. w[c] \in 30 .. 32
      BY <1>1, <2>1, <3>2 DEF Match, Looping, Finishing, Assigning, Releasing, Drained, Idle, Working
    <3> QED
      BY <1>2, <3>3
  <2> QED
    BY <2>2, <2>3
<1>5. ASSUME NEW c \in Cpu, todo[c] = <<>>
      PROVE  mtrr[c] = "os"
  <2>1. w[c] = 0
    BY <1>1, <1>5, OutsideSmm
  <2> QED
    BY <1>2, <2>1
<1> QED
  BY <1>3, <1>4, <1>5

\* The invariant implies NobodyOutside.
LEMMA InvNobodyOutside ==
  ASSUME NEW g, NEW w, Inv(g, w)
  PROVE  NobodyOutside
<1> SUFFICES ASSUME Gather, NEW b \in Cpu, InHandlers(b), NEW c \in Cpu, todo[c] = <<>>
             PROVE  smiPending[c]
  BY DEF NobodyOutside
<1>1. w \in [Cpu -> Places] /\ Where(g, w) /\ Gathers(g)
  BY DEF Inv, Where, Gather, Gathers
<1>2. w[b] \in 53 .. 85
  BY RolePlaces
<1>3. w[c] = 0
  BY <1>1, OutsideSmm
<1> QED
  BY <1>1, <1>2, <1>3 DEF Inv, Reached

(***************************************************************************)
(* The invariant holds in every state.                                     *)
(***************************************************************************)
\* The configuration and the places of the processors.
IndInv == \E g, w : Inv(g, w)

\* RaiseSmi keeps the invariant.
LEMMA RaiseSmiKeeps ==
  ASSUME NEW g, NEW w, Inv(g, w), RaiseSmi
  PROVE  \E v : Inv(g, v)'
<1>1. Typed'
  <2>1. /\ UNCHANGED <<insideSmm, allCpusInSync, bspIndex, run, present, busy,
                       requested, mtrr, validSmi, bsp, apCount, calls, waitFor>>
        /\ smiStatus' = TRUE /\ smiPending' = [d \in Cpu |-> TRUE]
    BY DEF RaiseSmi, shared, cpuData, local
  <2>2. smis' \in 0 .. MaxSmis
    BY SmmAssumption DEF RaiseSmi, Inv, Typed
  <2> QED
    BY <2>1, <2>2 DEF Inv, Typed
<1>2. UNCHANGED <<config, shared, run, cpuData, todo, bsp, apCount>>
  BY DEF RaiseSmi, local
<1>3. \A d \in Cpu : smiPending[d] => smiPending'[d]
  BY DEF RaiseSmi
<1>4. Inv(g, w)'
  BY <1>1, <1>2, <1>3, NobodyMoves
<1> QED
  BY <1>4

\* SmmCpuRendezvous keeps the invariant.
LEMMA SmmCpuRendezvousKeeps ==
  ASSUME NEW g, NEW w, Inv(g, w), NEW b \in Cpu, SmmCpuRendezvous(b)
  PROVE  \E v : Inv(g, v)'
<1>1. Typed'
  <2>1. /\ UNCHANGED <<insideSmm, allCpusInSync, bspIndex, run, present, busy,
                       requested, mtrr, validSmi, bsp, apCount, calls, waitFor,
                       smiStatus, smis>>
        /\ smiPending' = [d \in Cpu |-> smiPending[d] \/ ~present[d]]
    BY DEF SmmCpuRendezvous, shared, cpuData, local
  <2>2. smiPending' \in [Cpu -> BOOLEAN]
    BY <2>1
  <2> QED
    BY <2>1, <2>2 DEF Inv, Typed
<1>2. UNCHANGED <<config, shared, run, cpuData, todo, bsp, apCount>>
  BY DEF SmmCpuRendezvous, local
<1>3. \A d \in Cpu : smiPending[d] => smiPending'[d]
  BY DEF SmmCpuRendezvous
<1>4. Inv(g, w)'
  BY <1>1, <1>2, <1>3, NobodyMoves
<1> QED
  BY <1>4

\* Nobody who does not slip in sets Present between the loops of a broadcast.
LEMMA SetPresentAlone ==
  ASSUME NEW g, NEW w, Inv(g, w), NEW c \in Cpu, SetPresent(c), NobodySlipsIn'
  PROVE  w[bsp[c]] \notin Assigning \cup Releasing
<1>1. w \in [Cpu -> Places] /\ Where(g, w) /\ Typed
  BY DEF Inv
<1>2. w[c] = 20
  <2>1. At(c, "present")
    BY DEF SetPresent
  <2>2. w[c] \in Places \ {0} /\ StepAt(w[c]) = "present"
    BY <1>1, <2>1, AtPlace
  <2> QED
    BY <2>2, StepPlaces DEF PlacesOf
<1>3. bsp[c] \in Cpu /\ ~busy[c]
  BY <1>2 DEF Inv, Members, Flags, Own
<1> SUFFICES ASSUME NEW b \in Cpu, b = bsp[c], w[b] \in Assigning \cup Releasing
             PROVE  FALSE
  BY <1>3
<1>4. b # c /\ w[b] \in {69, 70, 73, 74, 79, 80}
  BY <1>2 DEF Assigning, Releasing
<1>5. todo'[b] = todo[b] /\ present'[c] /\ ~busy'[c]
  <2>1. todo' = [todo EXCEPT ![c] = Tail(@)] /\ busy' = busy
    BY DEF SetPresent, Continue
  <2>2. DOMAIN todo = Cpu
    BY <1>1 DEF Where
  <2>3. present' = [present EXCEPT ![c] = TRUE] /\ present \in [Cpu -> BOOLEAN]
    BY <1>1 DEF SetPresent, Typed
  <2> QED
    BY <1>3, <1>4, <2>1, <2>2, <2>3
<1>6. InHandlers(b)'
  <2>1. InHandlers(b)
    BY <1>3, <1>4, RolePlaces
  <2> QED
    BY <1>5, <2>1 DEF InHandlers, InBspHandler, Has
<1>7. At(b, "assign")' \/ At(b, "release")'
  <2>1. w[b] \in Places \ {0} /\ todo[b] = Rest(g, w[b])
    BY <1>1, <1>3, <1>4 DEF Where
  <2>2. todo[b] # <<>> /\ Head(todo[b]) = StepAt(w[b])
    BY <2>1, FirstAndRest
  <2>3. StepAt(w[b]) \in {"assign", "release"}
    <3>1. StepAt(69) = "assign" /\ StepAt(73) = "assign" /\ StepAt(79) = "assign"
      BY DEF StepAt
    <3>2. StepAt(70) = "release" /\ StepAt(74) = "release" /\ StepAt(80) = "release"
      BY DEF StepAt
    <3> QED
      BY <1>4, <3>1, <3>2
  <2> QED
    BY <1>5, <2>2, <2>3 DEF At
<1>8. c \in PresentAps(b)'
  BY <1>4, <1>5 DEF PresentAps
<1> QED
  BY <1>3, <1>5, <1>6, <1>7, <1>8 DEF NobodySlipsIn

\* Nothing happens.
LEMMA StutterKeeps ==
  ASSUME NEW g, NEW w, Inv(g, w), UNCHANGED vars
  PROVE  \E v : Inv(g, v)'
<1>1. Typed'
  BY DEF vars, shared, cpuData, smi, local, Inv, Typed
<1>2. UNCHANGED <<config, shared, run, cpuData, todo, bsp, apCount>>
  BY DEF vars, local
<1>3. \A d \in Cpu : smiPending[d] => smiPending'[d]
  BY DEF vars, smi
<1>4. Inv(g, w)'
  BY <1>1, <1>2, <1>3, NobodyMoves
<1> QED
  BY <1>4

\* Nobody is in SMM at first.
LEMMA InitInv ==
  ASSUME Init
  PROVE  IndInv
<1> DEFINE w == [c \in Cpu |-> 0]
<1>1. w \in [Cpu -> Places] /\ \A c \in Cpu : w[c] = 0
  BY DEF Places
<1>2. todo = [c \in Cpu |-> Rest(config, w[c])]
  BY Outside DEF Init
<1>3. Count(w, CheckedIn) = 0
  <2>1. \A c \in Cpu : w[c] \notin CheckedIn
    BY <1>1 DEF CheckedIn
  <2> QED
    BY <2>1, CountZero
<1> HIDE DEF w
<1>4. config \in Configs /\ Where(config, w)
  <2>1. \A c \in Cpu : OnPath(config, w[c])
    BY <1>1 DEF OnPath
  <2>2. config \in Configs
    BY DEF Init
  <2> QED
    BY <1>2, <2>1, <2>2 DEF Where
<1>5. Typed
  <2>1. bspIndex \in Cpu \cup {NoBsp}
    BY SmmAssumption DEF Init, Cpu, BootBsp, NoBsp
  <2>2. smis \in 0 .. MaxSmis /\ apCount \in 0 .. N - 1 /\ calls \in 0 .. MaxCalls
    BY SmmAssumption DEF Init
  <2>3. /\ run \in [Cpu -> Nat] /\ mtrr \in [Cpu -> {"os", "smm"}]
        /\ bsp \in [Cpu -> Cpu \cup {NoBsp}] /\ waitFor \in Cpu \cup {NoBsp}
    BY DEF Init
  <2>4. /\ present \in [Cpu -> BOOLEAN] /\ busy \in [Cpu -> BOOLEAN]
        /\ requested \in [Cpu -> BOOLEAN] /\ smiPending \in [Cpu -> BOOLEAN]
        /\ validSmi \in [Cpu -> BOOLEAN]
    BY DEF Init
  <2>5. insideSmm \in BOOLEAN /\ allCpusInSync \in BOOLEAN /\ smiStatus \in BOOLEAN
    BY DEF Init
  <2> QED
    BY <2>1, <2>2, <2>3, <2>4, <2>5 DEF Typed
<1>6. Leader(config, w)
  <2>1. \A b \in Cpu : w[b] \notin 50 .. 95
    BY <1>1
  <2>2. \A b \in Cpu : w[b] \notin 50 .. 94 /\ w[b] \notin 51 .. 85
    BY <1>1
  <2>3. /\ bspIndex = IF config.election THEN NoBsp ELSE BootBsp
        /\ ~insideSmm
    BY DEF Init
  <2> QED
    BY <2>1, <2>2, <2>3 DEF Leader, BspPlaces
<1>7. Quiesced(config, w)
  BY <1>1 DEF Quiesced, IsGathered, ApPlaces
<1>8. Counts(config, w)
  <2>1. \A b \in Cpu : ~IsLocked(config, w[b]) /\ w[b] \notin 50 .. 93
    BY <1>1 DEF IsLocked
  <2>2. cpuCount = 0
    BY DEF Init
  <2> QED
    BY <1>3, <2>1, <2>2 DEF Counts
<1>9. Members(config, w)
  BY <1>1 DEF Members
<1>10. Flags(config, w)
  <2> SUFFICES ASSUME NEW c \in Cpu
               PROVE  Own(config, w[c], run[c], present[c], busy[c], requested[c], mtrr[c])
    BY DEF Flags
  <2>1. run[c] = 0 /\ mtrr[c] = "os"
    BY DEF Init
  <2>2. ~present[c] /\ ~busy[c] /\ ~requested[c]
    BY DEF Init
  <2> QED
    BY <1>1, <2>1, <2>2 DEF Own
<1>11. Reached(config, w)
  BY <1>1 DEF Reached
<1>12. Inv(config, w)
  BY <1>1, <1>4, <1>5, <1>6, <1>7, <1>8, <1>9, <1>10, <1>11 DEF Inv
<1> QED
  BY <1>12 DEF IndInv

\* The steps of SmiRendezvous keep the invariant.
LEMMA RendezvousKeeps ==
  ASSUME NEW g, NEW w, Inv(g, w), NEW c \in Cpu, Rendezvous(c)
  PROVE  \E v : Inv(g, v)'
BY EnterSmmKeeps, PlatformValidSmiKeeps, SampleInsideSmmKeeps, CheckInKeeps,
   ElectKeeps, LeaveSmmKeeps DEF Rendezvous

\* The steps of APHandler keep it.
LEMMA ApStepKeeps ==
  ASSUME NEW g, NEW w, Inv(g, w), NEW c \in Cpu, ApStep(c),
         Gathers(g) \/ NobodySlipsIn'
  PROVE  \E v : Inv(g, v)'
<1>1. CASE ReleaseBsp(c)
  BY <1>1, ReleaseBspSignalKeeps, ReleaseBspLastKeeps
<1>2. CASE SetPresent(c)
  <2>1. Gathers(g) \/ w[bsp[c]] \notin Assigning \cup Releasing
    BY <1>2, SetPresentAlone
  <2> QED
    BY <1>2, <2>1, SetPresentKeeps
<1>3. CASE ~ReleaseBsp(c) /\ ~SetPresent(c)
  BY <1>3, BspArrivedKeeps, FirstTimeoutKeeps, CallBspKeeps, SecondTimeoutKeeps,
     CheckOutKeeps, WaitForBspKeeps, WaitForWorkKeeps,
     CheckExitKeeps, ProcedureReturnsKeeps, ReleaseBusyKeeps DEF ApStep
<1> QED
  BY <1>1, <1>2, <1>3

\* The steps BSPHandler and APHandler share keep it.
LEMMA CommonStepKeeps ==
  ASSUME NEW g, NEW w, Inv(g, w), NEW c \in Cpu, CommonStep(c)
  PROVE  \E v : Inv(g, v)'
<1>1. CASE BackupMtrrs(c)
  BY <1>1, ApBackupKeeps, BspBackupKeeps
<1>2. CASE SetMtrrs(c)
  <2>1. CASE w[c] \in {61, 89}
    BY <1>2, <2>1, BspSetMtrrsKeeps
  <2>2. CASE w[c] \notin {61, 89}
    BY <1>2, <2>2, ApSetMtrrsKeeps
  <2> QED
    BY <2>1, <2>2
<1>3. CASE ClearPresent(c)
  BY <1>3, ApAbsentKeeps, BspAbsentKeeps
<1> QED
  BY <1>1, <1>2, <1>3 DEF CommonStep

\* The steps of BSPHandler keep it.
LEMMA BspStepKeeps ==
  ASSUME NEW g, NEW w, Inv(g, w), NEW b \in Cpu, BspStep(b), Timely
  PROVE  \E v : Inv(g, v)'
<1>1. CASE WaitForAPs(b)
  BY <1>1, WaitForAPsKeeps, LastWaitForAPsKeeps
<1>2. CASE ReleaseAllAPs(b)
  BY <1>2, ReleaseAllAPsQuietKeeps, LastReleaseAllAPsKeeps
<1>3. CASE ~WaitForAPs(b) /\ ~ReleaseAllAPs(b)
  BY <1>3, FlagInsideSmmKeeps, ClearSmiStatusKeeps, FirstArrivalWaitEndsKeeps,
     SecondArrivalWaitEndsKeeps, FlagAllCpusInSyncKeeps, LockDoorKeeps,
     AllPresentKeeps, FlagLeaveSmmKeeps, ResetBspIndexKeeps, ContextResetKeeps,
     ClearAllCpusInSyncKeeps DEF BspStep
<1> QED
  BY <1>1, <1>2, <1>3

\* What the SMI handlers start keeps it.
LEMMA HandlerStepKeeps ==
  ASSUME NEW g, NEW w, Inv(g, w), NEW b \in Cpu, HandlerStep(b)
  PROVE  \E v : Inv(g, v)'
<1>1. CASE \E ap \in Cpu, block \in BOOLEAN : StartupThisAp(b, ap, block)
  BY <1>1, StartupThisApKeeps
<1>2. CASE \E block \in BOOLEAN : StartupAllAPs(b, block)
  BY <1>2, StartupAllAPsKeeps
<1>3. CASE \/ AcquireOwnBusy(b) \/ ProcedureDone(b) \/ AcquireAllBusy(b)
           \/ AssignProcedures(b) \/ HandlersReturn(b) \/ WaitForAllAPsNotBusy(b)
  BY <1>3, AcquireOwnBusyKeeps, ProcedureDoneKeeps, AcquireAllBusyKeeps,
     AssignProceduresKeeps, HandlersReturnKeeps, WaitForAllAPsNotBusyKeeps
<1>4. CASE \/ SmmCpuRendezvous(b) \/ CodeAccessChecked(b)
           \/ \E ap \in Cpu : ConfigSmmCodeAccessCheck(b, ap)
  BY <1>4, SmmCpuRendezvousKeeps, CodeAccessCheckedKeeps,
     ConfigSmmCodeAccessCheckKeeps
<1> QED
  BY <1>1, <1>2, <1>3, <1>4 DEF HandlerStep

\* Every step keeps the invariant.
LEMMA NextInv ==
  ASSUME NEW g, NEW w, Inv(g, w),
         [Next /\ Timely /\ (Gathers(g) \/ NobodySlipsIn')]_vars
  PROVE  \E v : Inv(g, v)'
<1>1. CASE RaiseSmi
  BY <1>1, RaiseSmiKeeps
<1>2. ASSUME NEW c \in Cpu, Step(c), Timely, Gathers(g) \/ NobodySlipsIn'
      PROVE  \E v : Inv(g, v)'
  <2>1. CASE Rendezvous(c)
    BY <2>1, RendezvousKeeps
  <2>2. CASE ApStep(c)
    BY <1>2, <2>2, ApStepKeeps
  <2>3. CASE CommonStep(c)
    BY <2>3, CommonStepKeeps
  <2>4. CASE BspStep(c)
    BY <1>2, <2>4, BspStepKeeps
  <2>5. CASE HandlerStep(c)
    BY <2>5, HandlerStepKeeps
  <2> QED
    BY <1>2, <2>1, <2>2, <2>3, <2>4, <2>5 DEF Step
<1>3. CASE UNCHANGED vars
  BY <1>3, StutterKeeps
<1>4. CASE Quiet
  BY <1>3, <1>4 DEF Quiet
<1> QED
  BY <1>1, <1>2, <1>3, <1>4 DEF Next

\* Every state satisfies the invariant when the timing is as the code needs it.
THEOREM Invariance == RelySpec => []IndInv
<1>1. Init => IndInv
  BY InitInv
<1>2. IndInv /\ [Next /\ Timely /\ NobodySlipsIn']_vars => IndInv'
  BY NextInv DEF IndInv
<1> QED
  BY <1>1, <1>2, PTL DEF RelySpec

\* The configuration is fixed.
LEMMA ConfigFixed ==
  ASSUME [Next]_vars
  PROVE  config' = config
<1>1. ASSUME NEW c \in Cpu, Rendezvous(c)
      PROVE  config' = config
  BY <1>1 DEF Rendezvous, EnterSmm, PlatformValidSmi, SampleInsideSmm, CheckIn,
     Elect, LeaveSmm
<1>2. ASSUME NEW c \in Cpu, ApStep(c)
      PROVE  config' = config
  BY <1>2 DEF ApStep, BspArrived, FirstTimeout, CallBsp, SecondTimeout, CheckOut,
     SetPresent, ReleaseBsp, WaitForBsp, WaitForWork, CheckExit, ProcedureReturns,
     ReleaseBusy
<1>3. ASSUME NEW c \in Cpu, CommonStep(c)
      PROVE  config' = config
  BY <1>3 DEF CommonStep, BackupMtrrs, SetMtrrs, ClearPresent
<1>4. ASSUME NEW c \in Cpu, BspStep(c)
      PROVE  config' = config
  BY <1>4 DEF BspStep, FlagInsideSmm, ClearSmiStatus, FirstArrivalWaitEnds,
     SecondArrivalWaitEnds, FlagAllCpusInSync, LockDoor, WaitForAPs, ReleaseAllAPs,
     AllPresent, FlagLeaveSmm, ResetBspIndex, ContextReset, ClearAllCpusInSync
<1>5. ASSUME NEW c \in Cpu, HandlerStep(c)
      PROVE  config' = config
  BY <1>5 DEF HandlerStep, AcquireOwnBusy, StartupThisAp, Schedule, StartupAllAPs,
     ProcedureDone, AcquireAllBusy, AssignProcedures, HandlersReturn,
     WaitForAllAPsNotBusy, SmmCpuRendezvous, ConfigSmmCodeAccessCheck,
     CodeAccessChecked
<1>6. CASE RaiseSmi
  BY <1>6 DEF RaiseSmi
<1>7. CASE UNCHANGED vars
  BY <1>7 DEF vars
<1>8. CASE Quiet
  BY <1>7, <1>8 DEF Quiet
<1> QED
  BY <1>1, <1>2, <1>3, <1>4, <1>5, <1>6, <1>7, <1>8 DEF Next, Step

\* Where the APs are gathered before the handlers run, nobody can slip in: the
\* code needs the timing of Timely only.
THEOREM GatheredInvariance == PromptSpec => [](Gather => IndInv)
<1>1. Init => (Gather => IndInv)
  BY InitInv
<1>2. ASSUME Gather => IndInv, [Next /\ Timely]_vars
      PROVE  (Gather => IndInv)'
  <2>1. SUFFICES ASSUME Gather'
                 PROVE  IndInv'
    OBVIOUS
  <2>2. config' = config
    BY <1>2, ConfigFixed
  <2>3. Gather
    BY <2>1, <2>2 DEF Gather
  <2>4. PICK g, w : Inv(g, w)
    BY <1>2, <2>3 DEF IndInv
  <2>5. Gathers(g)
    BY <2>3, <2>4 DEF Inv, Where, Gather, Gathers
  <2>6. \E v : Inv(g, v)'
    BY <1>2, <2>4, <2>5, NextInv
  <2> QED
    BY <2>6 DEF IndInv
<1> QED
  BY <1>1, <1>2, PTL DEF PromptSpec

(***************************************************************************)
(* The theorems, for any N, Configs, MaxSmis and MaxCalls.  RelySpec and   *)
(* PromptSpec state what the code relies on and does not enforce: Timely,  *)
(* and that nobody slips in between the loops of a broadcast, which only   *)
(* the relaxed flow needs.                                                 *)
(***************************************************************************)
\* The variables keep their types, and no semaphore ever counts more signals
\* than there are processors.
THEOREM TypeCorrect == RelySpec => []TypeOK
<1>1. IndInv => TypeOK
  BY InvTypeOK DEF IndInv
<1> QED
  BY <1>1, Invariance, PTL

\* At most one processor is in BSPHandler, and every AP that has a signal to
\* give gives it to that one.
THEOREM OneBspAtATime == RelySpec => []OneBsp
<1>1. IndInv => OneBsp
  BY InvOneBsp DEF IndInv
<1> QED
  BY <1>1, Invariance, PTL

\* From SmmCpuSyncLockDoor to the end of the handlers the APs the BSP counted
\* are exactly the processors in APHandler: it waits for nobody who has given up.
THEOREM TheCountedTakePart == RelySpec => []CountedTakePart
<1>1. IndInv => CountedTakePart
  BY InvCountedTakePart DEF IndInv
<1> QED
  BY <1>1, Invariance, PTL

\* When BSPHandler gives up its role and resets the context, every semaphore is
\* zero, no Present flag and no procedure is left, and nobody is in APHandler.
THEOREM AllBackToZero == RelySpec => []NothingCarriedOver
<1>1. IndInv => NothingCarriedOver
  BY InvNothingCarriedOver DEF IndInv
<1> QED
  BY <1>1, Invariance, PTL

\* The assertion in APHandler holds: a procedure runs only with the Busy lock
\* held, when it was asked for, and before the APs are told to leave.
THEOREM ProceduresAreAskedFor == RelySpec => []RunsWhatWasAsked
<1>1. IndInv => RunsWhatWasAsked
  BY InvRunsWhatWasAsked DEF IndInv
<1> QED
  BY <1>1, Invariance, PTL

\* The MTRRs are saved by all before any is changed, are those of SMM while
\* handlers and procedures run, and are the operating system's outside SMM.
THEOREM MtrrsChangeInStep == RelySpec => []MtrrsInStep
<1>1. IndInv => MtrrsInStep
  BY InvMtrrsInStep DEF IndInv
<1> QED
  BY <1>1, Invariance, PTL

\* SmmWaitForApArrival does what it is for: in the traditional flow no processor
\* runs code outside SMM, without an SMI latched for it, while the handlers run.
THEOREM NobodyOutsideSmm == RelySpec => []NobodyOutside
<1>1. IndInv => NobodyOutside
  BY InvNobodyOutside DEF IndInv
<1> QED
  BY <1>1, Invariance, PTL

\* The same where the BSP gathers the APs before the handlers run: there Timely
\* is all the code relies on, and a broadcast of SmmStartupAllAPs, from a handler
\* or from the remaining tasks, finds the same APs in each of its loops.
THEOREM GatheredFlows ==
  PromptSpec => [](Gather => /\ OneBsp /\ CountedTakePart /\ NothingCarriedOver
                             /\ RunsWhatWasAsked /\ MtrrsInStep /\ NobodyOutside)
<1>1. IndInv => /\ OneBsp /\ CountedTakePart /\ NothingCarriedOver
                /\ RunsWhatWasAsked /\ MtrrsInStep /\ NobodyOutside
  BY InvOneBsp, InvCountedTakePart, InvNothingCarriedOver, InvRunsWhatWasAsked,
     InvMtrrsInStep, InvNobodyOutside DEF IndInv
<1> QED
  BY <1>1, GatheredInvariance, PTL

=============================================================================
