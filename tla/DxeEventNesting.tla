-------------------------- MODULE DxeEventNesting ---------------------------
(***************************************************************************)
(* How the activations of the DXE core's event services nest: timer        *)
(* interrupts, dispatched notifications and the code they interrupt. Every *)
(* activation has a level, the TPL at which it runs or will go on; the     *)
(* inductive invariant says which levels fit which activation, which       *)
(* activation may be above which, and what each of them relies on in the   *)
(* queues and lists.                                                       *)
(***************************************************************************)
EXTENDS DxeEvent, ListLemmas, FiniteSetTheorems

\* Where an activation can be.
Restoring   == {"RestoreTpl", "RestoreTpl.read", "RestoreTpl.dispatch", "RestoreTpl.set"}
Dispatching == {"Dispatch", "Dispatch.notify"}
Setting     == {"SetTimer.remove", "SetTimer.time", "SetTimer.insert", "SetTimer.release"}
Checking    == {"CheckTimers.time", "CheckTimers.scan", "CheckTimers.again",
                "CheckTimers.insert", "CheckTimers.release"}
Arming      == {"SetTimer.time", "SetTimer.insert", "CheckTimers.again", "CheckTimers.insert"}
Closing     == {"CloseEvent.unlink", "CloseEvent.free"}

\* What runs with mEfiTimerLock held, what may run on top of it, what belongs
\* to the dispatch of a notification, and what has saved the TPL it returns to.
Holding   == Setting \cup Checking
Helping   == Restoring \cup {"Iret", "SignalEvent", "SignalList", "SignalList.next",
                             "SignalEvent.end"}
Notifying == Dispatching \cup {"Notify", "CheckTimers"} \cup Checking
Saving    == Restoring \cup Holding \cup {"Raised", "SignalList.next"}

\* The TPL of whatever an activation at level l returns to.
ReturnTpl(a, l) == IF a.pc \in Saving THEN a.tpl ELSE l

\* The level at which an activation runs, and the event it is about.
AtLevel(a, l) ==
  /\ a.pc \notin Restoring \cup {"Dispatch"} => l <= TPL_HIGH_LEVEL
  /\ a.pc \in Restoring => a.tpl <= l /\ a.tpl <= TPL_HIGH_LEVEL
  /\ a.pc = "RestoreTpl.dispatch" => a.x > a.tpl /\ a.x \in Levels \cup {MinusOne}
  /\ a.pc \in Dispatching => l = a.tpl /\ a.tpl \in Levels \cup {MinusOne}
  /\ a.pc = "Notify" => l = Tpl[a.ev]
  /\ a.pc = "CheckTimers" => l = CheckTimerTpl
  /\ a.pc \in Checking => l = CheckTimerTpl /\ a.tpl = CheckTimerTpl
  /\ a.pc \in Setting => l = CheckTimerTpl /\ a.tpl <= CheckTimerTpl
  /\ a.pc \in {"Boot", "SetTimer", "CloseEvent"} => l <= CheckTimerTpl
  /\ a.pc = "RaiseTpl" => l <= a.x /\ a.x <= TPL_HIGH_LEVEL
  /\ a.pc = "Raised" => a.tpl <= l
  /\ a.pc = "SignalList.next" => l = TPL_HIGH_LEVEL /\ a.tpl <= TPL_HIGH_LEVEL
AboutEvent(a) ==
  /\ a.pc = "Dispatch.notify" => Tpl[a.ev] = a.tpl
  /\ a.pc = "Notify" => a.ev \in Events
  /\ a.pc \in Setting \cup {"SetTimer", "CheckTimers.again", "CheckTimers.insert"} =>
       a.ev \in Timers
  /\ a.pc \in {"SignalList", "SignalList.next"} => Type[a.ev] = "signal"
  /\ a.pc = "SignalList.next" => a.x >= 1
Fits(a, l) == a \in Activation /\ l \in Nat /\ AtLevel(a, l) /\ AboutEvent(a)

\* An activation and one below it: a notification is of a higher TPL than all
\* it interrupts, and nothing but the core's own code comes between the code
\* that holds mEfiTimerLock and its release, except a dispatch of (UINTN)-1,
\* at which CoreRaiseTpl asserts.
Above(a, l, b, m) ==
  /\ m <= l
  /\ a.pc \in Notifying /\ b.pc \notin Restoring \cup Dispatching => m < l
  /\ b.pc \in Holding => a.pc \in Helping \/ (a.pc = "Dispatch" /\ a.tpl = MinusOne)
  /\ a.pc = "CreateEvent" /\ b.pc = "CreateEvent" => a.ev # b.ev

\* What can be below another activation: nothing interrupts a processor that
\* stays asleep, or the walk of the list of events.
Resumes(a) == a.pc \notin {"Asleep", "SignalList.next"}

\* The activations s run or go on at the levels lv.
Nested(s, lv) ==
  /\ s \in Seq(Activation) /\ lv \in Seq(Nat) /\ Len(s) = Len(lv)
  /\ \A i \in 1 .. Len(s) : Fits(s[i], lv[i])
  /\ \A i, j \in 1 .. Len(s) : i < j => Above(s[i], lv[i], s[j], lv[j]) /\ Resumes(s[j])
  /\ \A i \in 1 .. Len(s) - 1 : lv[i + 1] = ReturnTpl(s[i], lv[i])

\* The boot flow is at the bottom and never returns.
StackOK ==
  /\ stack # <<>> /\ stack[Len(stack)].pc = "Boot"
  /\ \E lv \in Seq(Nat) : Nested(stack, lv) /\ lv[1] = tpl

----------------------------------------------------------------------------
(* Stacks.                                                                 *)

\* The activations of <<a>> \o s.
LEMMA OnTop ==
  ASSUME NEW S, NEW s \in Seq(S), NEW a \in S
  PROVE  /\ <<a>> \o s \in Seq(S)
         /\ Len(<<a>> \o s) = Len(s) + 1
         /\ (<<a>> \o s)[1] = a
         /\ \A i \in 2 .. Len(s) + 1 : (<<a>> \o s)[i] = s[i - 1]
         /\ <<a>> \o s # <<>>
<1>1. <<a>> \in Seq(S) /\ Len(<<a>>) = 1 /\ <<a>>[1] = a /\ Len(s) \in Nat
  OBVIOUS
<1>2. /\ <<a>> \o s \in Seq(S)
      /\ Len(<<a>> \o s) = Len(<<a>>) + Len(s)
      /\ \A i \in 1 .. Len(<<a>>) + Len(s) :
           (<<a>> \o s)[i] = IF i <= Len(<<a>>) THEN <<a>>[i] ELSE s[i - Len(<<a>>)]
  BY <1>1, ConcatProperties
<1> QED
  BY <1>1, <1>2

\* Two and three activations put on top are put there one after the other.
LEMMA TwoOnTop ==
  ASSUME NEW S, NEW s \in Seq(S), NEW a \in S, NEW b \in S
  PROVE  <<b, a>> \o s = <<b>> \o (<<a>> \o s)
<1>1. <<b, a>> = <<b>> \o <<a>>
  OBVIOUS
<1>2. <<a>> \in Seq(S) /\ <<b>> \in Seq(S)
  OBVIOUS
<1>3. (<<b>> \o <<a>>) \o s = <<b>> \o (<<a>> \o s)
  BY <1>2, ConcatAssociative
<1> QED
  BY <1>1, <1>3
LEMMA ThreeOnTop ==
  ASSUME NEW S, NEW s \in Seq(S), NEW a \in S, NEW b \in S, NEW c \in S
  PROVE  <<c, b, a>> \o s = <<c>> \o (<<b>> \o (<<a>> \o s))
<1>1. <<c, b, a>> = <<c>> \o <<b, a>>
  OBVIOUS
<1>2. <<b, a>> \in Seq(S) /\ <<c>> \in Seq(S)
  OBVIOUS
<1>3. (<<c>> \o <<b, a>>) \o s = <<c>> \o (<<b, a>> \o s)
  BY <1>2, ConcatAssociative
<1> QED
  BY <1>1, <1>3, TwoOnTop

\* The activations below the first.
LEMMA UnderTop ==
  ASSUME NEW S, NEW s \in Seq(S), s # <<>>
  PROVE  /\ Tail(s) \in Seq(S) /\ s[1] \in S
         /\ Len(s) \in Nat \ {0} /\ Len(Tail(s)) = Len(s) - 1
         /\ \A i \in 1 .. Len(s) - 1 : Tail(s)[i] = s[i + 1]
<1>1. Len(s) \in Nat \ {0} /\ s[1] \in S
  OBVIOUS
<1> QED
  BY <1>1, HeadTailProperties

\* An activation that fits is put on top.
LEMMA Pushed ==
  ASSUME NEW s, NEW lv, Nested(s, lv), NEW a, NEW l, Fits(a, l),
         \A j \in 1 .. Len(s) : Above(a, l, s[j], lv[j]) /\ Resumes(s[j]),
         s # <<>> => lv[1] = ReturnTpl(a, l)
  PROVE  Nested(<<a>> \o s, <<l>> \o lv) /\ (<<l>> \o lv)[1] = l
<1> DEFINE t == <<a>> \o s
           u == <<l>> \o lv
           n == Len(s)
<1>1. s \in Seq(Activation) /\ lv \in Seq(Nat) /\ Len(lv) = n /\ n \in Nat
  BY DEF Nested
<1>2. a \in Activation /\ l \in Nat
  BY DEF Fits
<1>3. /\ t \in Seq(Activation) /\ Len(t) = n + 1 /\ t[1] = a
      /\ \A i \in 2 .. n + 1 : t[i] = s[i - 1]
  BY <1>1, <1>2, OnTop
<1>4. /\ u \in Seq(Nat) /\ Len(u) = n + 1 /\ u[1] = l
      /\ \A i \in 2 .. n + 1 : u[i] = lv[i - 1]
  <2>1. /\ u \in Seq(Nat) /\ Len(u) = Len(lv) + 1 /\ u[1] = l
        /\ \A i \in 2 .. Len(lv) + 1 : u[i] = lv[i - 1]
    BY <1>1, <1>2, OnTop
  <2> QED
    BY <1>1, <2>1
<1> HIDE DEF t, u
<1>5. ASSUME NEW i \in 1 .. n + 1 PROVE Fits(t[i], u[i])
  <2>1. CASE i = 1
    BY <2>1, <1>3, <1>4
  <2>2. CASE i # 1
    <3>1. i \in 2 .. n + 1 /\ i - 1 \in 1 .. n
      BY <2>2, <1>1
    <3> QED
      BY <3>1, <1>3, <1>4 DEF Nested
  <2> QED
    BY <2>1, <2>2
<1>6. ASSUME NEW i \in 1 .. n + 1, NEW j \in 1 .. n + 1, i < j
      PROVE  Above(t[i], u[i], t[j], u[j]) /\ Resumes(t[j])
  <2>1. j \in 2 .. n + 1 /\ j - 1 \in 1 .. n
    BY <1>1, <1>6
  <2>2. CASE i = 1
    BY <2>1, <2>2, <1>3, <1>4
  <2>3. CASE i # 1
    <3>1. i \in 2 .. n + 1 /\ i - 1 \in 1 .. n /\ i - 1 < j - 1
      BY <2>3, <1>1, <1>6
    <3>2. Above(s[i - 1], lv[i - 1], s[j - 1], lv[j - 1]) /\ Resumes(s[j - 1])
      BY <2>1, <3>1 DEF Nested
    <3> QED
      BY <2>1, <3>1, <3>2, <1>3, <1>4
  <2> QED
    BY <2>2, <2>3
<1>7. ASSUME NEW i \in 1 .. n PROVE u[i + 1] = ReturnTpl(t[i], u[i])
  <2>1. i + 1 \in 2 .. n + 1 /\ (i + 1) - 1 = i
    BY <1>1
  <2>2. CASE i = 1
    <3>1. s # <<>> /\ u[2] = lv[1]
      BY <2>1, <2>2, <1>1, <1>4
    <3> QED
      BY <2>2, <3>1, <1>3, <1>4
  <2>3. CASE i # 1
    <3>1. i \in 2 .. n + 1 /\ i - 1 \in 1 .. n - 1 /\ (i - 1) + 1 = i
      BY <2>3, <1>1
    <3>2. lv[(i - 1) + 1] = ReturnTpl(s[i - 1], lv[i - 1])
      BY <3>1 DEF Nested
    <3>3. u[i + 1] = lv[i] /\ t[i] = s[i - 1] /\ u[i] = lv[i - 1]
      BY <2>1, <3>1, <1>3, <1>4
    <3> QED
      BY <3>1, <3>2, <3>3
  <2> QED
    BY <2>2, <2>3
<1>8. n + 1 - 1 = n
  BY <1>1
<1>9. Nested(t, u)
  BY <1>3, <1>4, <1>5, <1>6, <1>7, <1>8 DEF Nested
<1> QED
  BY <1>4, <1>9 DEF t, u

\* The running activation returns: what is below is at most at the level it
\* returns to, and the first is at that level.
LEMMA Popped ==
  ASSUME NEW s, NEW lv, Nested(s, lv), s # <<>>
  PROVE  /\ Nested(Tail(s), Tail(lv)) /\ Fits(s[1], lv[1])
         /\ \A j \in 1 .. Len(Tail(s)) :
              /\ Above(s[1], lv[1], Tail(s)[j], Tail(lv)[j]) /\ Resumes(Tail(s)[j])
              /\ Tail(lv)[j] <= ReturnTpl(s[1], lv[1])
         /\ Tail(s) # <<>> => Tail(lv)[1] = ReturnTpl(s[1], lv[1])
<1> DEFINE t == Tail(s)
           u == Tail(lv)
           n == Len(s) - 1
<1>1. s \in Seq(Activation) /\ lv \in Seq(Nat) /\ Len(lv) = Len(s)
  BY DEF Nested
<1>2. t \in Seq(Activation) /\ Len(s) \in Nat \ {0} /\ Len(t) = n /\ \A i \in 1 .. n : t[i] = s[i + 1]
  BY <1>1, UnderTop
<1>3. u \in Seq(Nat) /\ Len(u) = n /\ \A i \in 1 .. n : u[i] = lv[i + 1]
  <2>1. lv # <<>>
    BY <1>1, <1>2
  <2>2. u \in Seq(Nat) /\ Len(u) = Len(lv) - 1 /\ \A i \in 1 .. Len(lv) - 1 : u[i] = lv[i + 1]
    BY <2>1, <1>1, UnderTop
  <2> QED
    BY <2>2, <1>1
<1> HIDE DEF t, u
<1>4. n \in Nat /\ n + 1 = Len(s) /\ 1 \in 1 .. Len(s)
  BY <1>2
<1>5. Fits(s[1], lv[1])
  BY <1>4 DEF Nested
<1>6. ASSUME NEW i \in 1 .. n PROVE Fits(t[i], u[i])
  <2>1. i + 1 \in 1 .. Len(s)
    BY <1>4
  <2> QED
    BY <2>1, <1>2, <1>3 DEF Nested
<1>7. ASSUME NEW i \in 1 .. n, NEW j \in 1 .. n, i < j
      PROVE  Above(t[i], u[i], t[j], u[j]) /\ Resumes(t[j])
  <2>1. i + 1 \in 1 .. Len(s) /\ j + 1 \in 1 .. Len(s) /\ i + 1 < j + 1
    BY <1>4, <1>7
  <2>2. Above(s[i + 1], lv[i + 1], s[j + 1], lv[j + 1]) /\ Resumes(s[j + 1])
    BY <2>1 DEF Nested
  <2> QED
    BY <2>2, <1>2, <1>3
<1>8. ASSUME NEW i \in 1 .. n - 1 PROVE u[i + 1] = ReturnTpl(t[i], u[i])
  <2>1. i + 1 \in 1 .. Len(s) - 1 /\ i \in 1 .. n /\ i + 1 \in 1 .. n
    BY <1>4
  <2>2. lv[(i + 1) + 1] = ReturnTpl(s[i + 1], lv[i + 1])
    BY <2>1 DEF Nested
  <2> QED
    BY <2>1, <2>2, <1>2, <1>3
<1>9. Nested(t, u)
  BY <1>2, <1>3, <1>6, <1>7, <1>8 DEF Nested
<1>10. t # <<>> => u[1] = ReturnTpl(s[1], lv[1])
  <2> SUFFICES ASSUME t # <<>> PROVE u[1] = ReturnTpl(s[1], lv[1])
    OBVIOUS
  <2>1. n # 0
    BY <1>2
  <2>2. 1 \in 1 .. n /\ 1 \in 1 .. Len(s) - 1
    BY <2>1, <1>4
  <2>3. lv[1 + 1] = ReturnTpl(s[1], lv[1])
    BY <2>2 DEF Nested
  <2> QED
    BY <2>2, <2>3, <1>3
<1>11. ASSUME NEW j \in 1 .. n
       PROVE  Above(s[1], lv[1], t[j], u[j]) /\ Resumes(t[j]) /\ u[j] <= ReturnTpl(s[1], lv[1])
  <2>1. j + 1 \in 1 .. Len(s) /\ 1 < j + 1
    BY <1>4
  <2>2. Above(s[1], lv[1], s[j + 1], lv[j + 1]) /\ Resumes(s[j + 1])
    BY <2>1, <1>4 DEF Nested
  <2>3. t # <<>> /\ 1 \in 1 .. n
    BY <1>2, <1>4
  <2>4. u[j] \in Nat
    BY <1>6 DEF Fits
  <2>5. u[j] <= u[1]
    <3>1. CASE j = 1
      BY <3>1, <2>4
    <3>2. CASE j # 1
      <4>1. 1 < j
        BY <3>2, <1>4
      <4>2. Above(t[1], u[1], t[j], u[j])
        BY <4>1, <2>3, <1>7
      <4> QED
        BY <4>2 DEF Above
    <3> QED
      BY <3>1, <3>2
  <2> QED
    BY <2>2, <2>3, <2>5, <1>2, <1>3, <1>10
<1> QED
  BY <1>2, <1>5, <1>9, <1>10, <1>11 DEF t, u

\* The running activation r at level l goes on as a at level m, and f at level
\* m is called by a at level l.
Instead(a, m, r, l) ==
  /\ ReturnTpl(a, m) = ReturnTpl(r, l) /\ ReturnTpl(r, l) <= m
  /\ a.pc \in Notifying => r.pc \in Notifying /\ l <= m
  /\ r.pc \in Helping => a.pc \in Helping
  /\ r.pc = "Dispatch" => l <= TPL_HIGH_LEVEL
  /\ r.pc = "Boot" => a.pc = "Boot"
  /\ a.pc = "CreateEvent" => r.pc = "CreateEvent" /\ r.ev = a.ev
Atop(f, m, a, l) ==
  /\ ReturnTpl(f, m) = l /\ l <= m
  /\ f.pc \in Notifying => a.pc \in Dispatching /\ m = l
  /\ a.pc \in Holding \cup Helping => f.pc \in Helping
  /\ a.pc = "Dispatch" => a.tpl <= TPL_HIGH_LEVEL

LEMMA AboveInstead ==
  ASSUME NEW r, NEW l, NEW a, NEW m, NEW b, NEW k, Fits(r, l), Fits(a, m), Instead(a, m, r, l),
         k \in Nat, Above(r, l, b, k), k <= ReturnTpl(r, l)
  PROVE  Above(a, m, b, k)
<1>1. l \in Nat /\ m \in Nat /\ ReturnTpl(r, l) \in Nat
  BY DEF Fits, ReturnTpl, Activation
<1>2. k <= m
  BY <1>1 DEF Instead
<1>3. a.pc \in Notifying /\ b.pc \notin Restoring \cup Dispatching => k < m
  BY <1>1 DEF Instead, Above
<1>4. b.pc \in Holding => a.pc \in Helping
  <2>1. r.pc = "Dispatch" => r.tpl # MinusOne
    BY <1>1 DEF Instead, Fits, AtLevel, Dispatching, TPL_HIGH_LEVEL, MinusOne
  <2> QED
    BY <2>1 DEF Instead, Above
<1>5. a.pc = "CreateEvent" /\ b.pc = "CreateEvent" => a.ev # b.ev
  BY DEF Instead, Above
<1> QED
  BY <1>2, <1>3, <1>4, <1>5 DEF Above

LEMMA AboveAtop ==
  ASSUME NEW f, NEW m, NEW a, NEW l, NEW b, NEW k, Fits(f, m), Fits(a, l), Atop(f, m, a, l),
         k \in Nat, Above(a, l, b, k),
         f.pc = "CreateEvent" /\ b.pc = "CreateEvent" => f.ev # b.ev
  PROVE  Above(f, m, b, k)
<1>1. l \in Nat /\ m \in Nat
  BY DEF Fits
<1>2. k <= m
  BY <1>1 DEF Atop, Above
<1>3. f.pc \in Notifying /\ b.pc \notin Restoring \cup Dispatching => k < m
  BY <1>1 DEF Atop, Above, Notifying
<1>4. b.pc \in Holding => f.pc \in Helping
  <2>1. a.pc = "Dispatch" => a.tpl # MinusOne
    BY DEF Atop, TPL_HIGH_LEVEL, MinusOne
  <2> QED
    BY <2>1 DEF Atop, Above
<1> QED
  BY <1>2, <1>3, <1>4 DEF Above

\* The running activation goes on.
LEMMA Replaced ==
  ASSUME NEW s, NEW lv, Nested(s, lv), s # <<>>, NEW a, NEW m, Fits(a, m),
         Instead(a, m, s[1], lv[1])
  PROVE  Nested(<<a>> \o Tail(s), <<m>> \o Tail(lv)) /\ (<<m>> \o Tail(lv))[1] = m
<1> DEFINE t == Tail(s)
           u == Tail(lv)
<1>1. /\ Nested(t, u) /\ Fits(s[1], lv[1])
      /\ \A j \in 1 .. Len(t) : /\ Above(s[1], lv[1], t[j], u[j]) /\ Resumes(t[j])
                                /\ u[j] <= ReturnTpl(s[1], lv[1])
      /\ t # <<>> => u[1] = ReturnTpl(s[1], lv[1])
  BY Popped
<1> HIDE DEF t, u
<1>2. ASSUME NEW j \in 1 .. Len(t) PROVE Above(a, m, t[j], u[j]) /\ Resumes(t[j])
  <2>1. u[j] \in Nat
    BY <1>1 DEF Nested, Fits
  <2> QED
    BY <2>1, <1>1, AboveInstead
<1>3. t # <<>> => u[1] = ReturnTpl(a, m)
  BY <1>1 DEF Instead
<1>4. Nested(<<a>> \o t, <<m>> \o u) /\ (<<m>> \o u)[1] = m
  BY <1>1, <1>2, <1>3, Pushed
<1> QED
  BY <1>4 DEF t, u

\* An activation calls another one.
LEMMA Laid ==
  ASSUME NEW s, NEW lv, Nested(s, lv), s # <<>>, Resumes(s[1]), NEW f, NEW m, Fits(f, m),
         Atop(f, m, s[1], lv[1]),
         \A j \in 1 .. Len(s) : f.pc = "CreateEvent" /\ s[j].pc = "CreateEvent" => f.ev # s[j].ev
  PROVE  Nested(<<f>> \o s, <<m>> \o lv) /\ (<<m>> \o lv)[1] = m
<1>1. s \in Seq(Activation) /\ 1 \in 1 .. Len(s) /\ Len(s) \in Nat
  BY DEF Nested
<1>2. Fits(s[1], lv[1])
  BY <1>1 DEF Nested
<1>3. ASSUME NEW j \in 1 .. Len(s) PROVE Above(f, m, s[j], lv[j]) /\ Resumes(s[j])
  <2>1. lv[j] \in Nat
    BY DEF Nested, Fits
  <2>2. CASE j = 1
    <3>1. f.pc \in Notifying => s[1].pc \in Dispatching
      BY DEF Atop
    <3>2. lv[1] <= m /\ (s[1].pc \in Holding => f.pc \in Helping)
      BY DEF Atop
    <3> QED
      BY <2>2, <3>1, <3>2 DEF Above
  <2>3. CASE j # 1
    <3>1. 1 < j
      BY <2>3, <1>1
    <3>2. Above(s[1], lv[1], s[j], lv[j]) /\ Resumes(s[j])
      BY <3>1, <1>1 DEF Nested
    <3> QED
      BY <3>2, <2>1, <1>2, AboveAtop
  <2> QED
    BY <2>2, <2>3
<1>4. lv[1] = ReturnTpl(f, m)
  BY DEF Atop
<1> QED
  BY <1>3, <1>4, Pushed

----------------------------------------------------------------------------
(* Steps of the running activation.                                        *)

\* The boot flow stays at the bottom.
LEMMA BottomOnTop ==
  ASSUME NEW s \in Seq(Activation), NEW f \in Activation, s # <<>>, s[Len(s)].pc = "Boot"
  PROVE  LET t == <<f>> \o s IN t[Len(t)].pc = "Boot"
<1> DEFINE t == <<f>> \o s
<1>1. Len(s) \in Nat \ {0} /\ Len(t) = Len(s) + 1 /\ \A i \in 2 .. Len(s) + 1 : t[i] = s[i - 1]
  BY OnTop
<1> HIDE DEF t
<1>2. Len(t) \in 2 .. Len(s) + 1 /\ Len(t) - 1 = Len(s)
  BY <1>1
<1>3. t[Len(t)] = s[Len(s)]
  BY <1>1, <1>2
<1> QED
  BY <1>3 DEF t
LEMMA BottomUnderTop ==
  ASSUME NEW s \in Seq(Activation), s # <<>>, s[Len(s)].pc = "Boot"
  PROVE  /\ s[1].pc # "Boot" => Tail(s) # <<>>
         /\ Tail(s) # <<>> => Tail(s)[Len(Tail(s))].pc = "Boot"
<1> DEFINE t == Tail(s)
<1>1. /\ t \in Seq(Activation) /\ Len(s) \in Nat \ {0} /\ Len(t) = Len(s) - 1
      /\ \A i \in 1 .. Len(s) - 1 : t[i] = s[i + 1]
  BY UnderTop
<1> HIDE DEF t
<1>2. s[1].pc # "Boot" => t # <<>>
  <2> SUFFICES ASSUME t = <<>> PROVE s[1].pc = "Boot"
    OBVIOUS
  <2>1. Len(s) = 1
    BY <1>1
  <2> QED
    BY <2>1
<1>3. t # <<>> => t[Len(t)].pc = "Boot"
  <2> SUFFICES ASSUME t # <<>> PROVE t[Len(t)].pc = "Boot"
    OBVIOUS
  <2>1. Len(t) \in 1 .. Len(s) - 1 /\ Len(t) + 1 = Len(s)
    BY <1>1
  <2> QED
    BY <2>1, <1>1
<1> QED
  BY <1>2, <1>3 DEF t

LEMMA BottomReplaced ==
  ASSUME NEW s \in Seq(Activation), s # <<>>, s[Len(s)].pc = "Boot", NEW a \in Activation,
         s[1].pc = "Boot" => a.pc = "Boot"
  PROVE  LET t == <<a>> \o Tail(s) IN t[Len(t)].pc = "Boot"
<1> DEFINE u == Tail(s)
<1>1. u \in Seq(Activation)
  BY UnderTop
<1>2. (s[1].pc # "Boot" => u # <<>>) /\ (u # <<>> => u[Len(u)].pc = "Boot")
  BY BottomUnderTop
<1> HIDE DEF u
<1>3. CASE u # <<>>
  BY <1>1, <1>2, <1>3, BottomOnTop DEF u
<1>4. CASE u = <<>>
  <2>1. a.pc = "Boot"
    BY <1>2, <1>4
  <2>2. Len(<<a>> \o u) = 1 /\ (<<a>> \o u)[1] = a
    BY <1>1, <1>4, OnTop
  <2> QED
    BY <2>1, <2>2 DEF u
<1> QED
  BY <1>3, <1>4

\* What is known of the running activation.
LEMMA RunningFits ==
  ASSUME StackOK
  PROVE  /\ Fits(Running, tpl) /\ Running \in Activation
         /\ stack \in Seq(Activation) /\ stack # <<>> /\ Callers \in Seq(Activation)
         /\ Len(stack) \in Nat \ {0} /\ Len(Callers) = Len(stack) - 1
         /\ \A i \in 1 .. Len(stack) - 1 : Callers[i] = stack[i + 1]
<1>1. PICK lv \in Seq(Nat) : Nested(stack, lv) /\ lv[1] = tpl
  BY DEF StackOK
<1>2. stack # <<>> /\ stack \in Seq(Activation)
  BY <1>1 DEF StackOK, Nested
<1>3. Fits(Running, tpl)
  BY <1>1, <1>2, Popped DEF Running
<1>4. Running \in Activation
  BY <1>3 DEF Fits
<1> QED
  BY <1>2, <1>3, <1>4, UnderTop DEF Callers

LEMMA Continued ==
  ASSUME StackOK, NEW a, stack' = <<a>> \o Callers, Fits(a, tpl'),
         Instead(a, tpl', Running, tpl)
  PROVE  StackOK'
<1>1. PICK lv \in Seq(Nat) : Nested(stack, lv) /\ lv[1] = tpl
  BY DEF StackOK
<1> DEFINE lw == <<tpl'>> \o Tail(lv)
<1>2. stack # <<>>
  BY DEF StackOK
<1>3. Nested(stack', lw) /\ lw[1] = tpl'
  BY <1>1, <1>2, Replaced DEF Running, Callers
<1>4. a \in Activation
  BY DEF Fits
<1>5. stack' # <<>>
  BY <1>4, RunningFits, OnTop
<1>6. stack'[Len(stack')].pc = "Boot"
  BY <1>4, RunningFits, BottomReplaced DEF StackOK, Instead, Callers, Running
<1>7. lw \in Seq(Nat)
  BY <1>3 DEF Nested
<1> HIDE DEF lw
<1> QED
  BY <1>3, <1>5, <1>6, <1>7 DEF StackOK

LEMMA Called ==
  ASSUME StackOK, NEW f, NEW a, NEW m, stack' = <<f, a>> \o Callers,
         Fits(a, m), Instead(a, m, Running, tpl), Resumes(a),
         Fits(f, tpl'), Atop(f, tpl', a, m), a.pc # "CreateEvent",
         \A j \in DOMAIN stack :
           f.pc = "CreateEvent" /\ stack[j].pc = "CreateEvent" => f.ev # stack[j].ev
  PROVE  StackOK'
<1>1. PICK lv \in Seq(Nat) : Nested(stack, lv) /\ lv[1] = tpl
  BY DEF StackOK
<1> DEFINE s  == <<a>> \o Callers
           lw == <<m>> \o Tail(lv)
           lx == <<tpl'>> \o lw
<1>2. stack # <<>>
  BY DEF StackOK
<1>3. Nested(s, lw) /\ lw[1] = m
  BY <1>1, <1>2, Replaced DEF Running, Callers
<1>4. a \in Activation /\ f \in Activation
  BY DEF Fits
<1>5. /\ s \in Seq(Activation) /\ s # <<>> /\ s[1] = a /\ Len(s) = Len(Callers) + 1
      /\ \A i \in 2 .. Len(Callers) + 1 : s[i] = Callers[i - 1]
  BY <1>4, RunningFits, OnTop
<1>6. s[Len(s)].pc = "Boot"
  BY <1>4, RunningFits, BottomReplaced DEF StackOK, Instead, Callers, Running
<1>7. stack' = <<f>> \o s
  BY <1>4, RunningFits, TwoOnTop
<1> HIDE DEF s, lw
<1>8. ASSUME NEW j \in 1 .. Len(s), f.pc = "CreateEvent", s[j].pc = "CreateEvent"
      PROVE  f.ev # s[j].ev
  <2>1. j # 1
    BY <1>5, <1>8
  <2>2. Len(Callers) = Len(stack) - 1 /\ Len(stack) \in Nat \ {0} /\ DOMAIN stack = 1 .. Len(stack)
    BY RunningFits
  <2>3. Len(s) = Len(Callers) + 1
    BY <1>5
  <2>4. j \in 2 .. Len(Callers) + 1 /\ j - 1 \in 1 .. Len(stack) - 1 /\ j \in DOMAIN stack
    BY ONLY <2>1, <2>2, <2>3, j \in 1 .. Len(s)
  <2>5. (j - 1) + 1 = j
    BY ONLY j \in 1 .. Len(s), <2>2, <2>3
  <2>6. s[j] = Callers[j - 1]
    BY <2>4, <1>5
  <2>7. \A i \in 1 .. Len(stack) - 1 : Callers[i] = stack[i + 1]
    BY RunningFits
  <2>8. s[j] = stack[j]
    BY ONLY <2>4, <2>5, <2>6, <2>7
  <2> QED
    BY <2>4, <2>8, <1>8
<1>9. Nested(<<f>> \o s, lx) /\ lx[1] = tpl'
  <2>1. Atop(f, tpl', s[1], lw[1]) /\ Resumes(s[1])
    BY <1>3, <1>5
  <2>2. \A j \in 1 .. Len(s) : f.pc = "CreateEvent" /\ s[j].pc = "CreateEvent" => f.ev # s[j].ev
    BY <1>8
  <2>3. Nested(s, lw) /\ s # <<>> /\ Fits(f, tpl')
    BY <1>3, <1>5
  <2> QED
    BY ONLY <2>1, <2>2, <2>3, Laid
<1>10. stack' # <<>>
  BY <1>4, <1>5, <1>7, OnTop
<1>11. stack'[Len(stack')].pc = "Boot"
  BY <1>4, <1>5, <1>6, <1>7, BottomOnTop
<1>12. lx \in Seq(Nat)
  BY <1>9 DEF Nested
<1> HIDE DEF lx
<1> QED
  BY <1>7, <1>9, <1>10, <1>11, <1>12 DEF StackOK

LEMMA Returned ==
  ASSUME StackOK, stack' = Callers, Running.pc # "Boot", tpl' = ReturnTpl(Running, tpl)
  PROVE  StackOK' /\ Resumes(stack'[1])
<1>1. PICK lv \in Seq(Nat) : Nested(stack, lv) /\ lv[1] = tpl
  BY DEF StackOK
<1> DEFINE lw == Tail(lv)
<1>2. stack # <<>> /\ stack \in Seq(Activation)
  BY <1>1 DEF StackOK, Nested
<1>3. Callers # <<>> /\ Callers[Len(Callers)].pc = "Boot"
  BY <1>2, BottomUnderTop DEF StackOK, Running, Callers
<1>4. 1 \in 1 .. Len(Callers)
  BY <1>3, RunningFits
<1>5. Nested(Callers, lw) /\ lw[1] = ReturnTpl(Running, tpl) /\ Resumes(Callers[1])
  BY <1>1, <1>2, <1>3, <1>4, Popped DEF Running, Callers
<1>6. lw \in Seq(Nat)
  BY <1>5 DEF Nested
<1> HIDE DEF lw
<1> QED
  BY <1>3, <1>5, <1>6 DEF StackOK

----------------------------------------------------------------------------
(* What holds of the queues, the lists and the activations together.       *)

\* The levels of events.
LEMMA TplsOfEvents ==
  /\ \A e \in AllEvents : Tpl[e] \in Nat /\ Tpl[e] <= CheckTimerTpl
  /\ \A e \in Events : Tpl[e] = NotifyTpl[e] /\ Type[e] = Kind[e] /\ e \in AllEvents
  /\ CheckTimerEvent \in AllEvents /\ CheckTimerEvent \notin Events
  /\ Tpl[CheckTimerEvent] = CheckTimerTpl /\ Type[CheckTimerEvent] = "signal"
  /\ Group[CheckTimerEvent] = NoGroup
  /\ \A e \in AllEvents : Type[e] # "plain" => Tpl[e] \in Levels
  /\ \A p \in Levels : p \in Nat /\ p <= CheckTimerTpl
  /\ CheckTimerTpl = 30 /\ TPL_HIGH_LEVEL = 31 /\ MinusOne = 64 /\ TPL_APPLICATION = 4
<1>1. CheckTimerTpl = 30 /\ TPL_HIGH_LEVEL = 31 /\ MinusOne = 64 /\ TPL_APPLICATION = 4
  BY DEF CheckTimerTpl, TPL_HIGH_LEVEL, MinusOne, TPL_APPLICATION
<1>2. CheckTimerEvent \in AllEvents /\ CheckTimerEvent \notin Events
  BY EventsAssumption DEF AllEvents
<1>3. ASSUME NEW e \in Events
      PROVE  Tpl[e] = NotifyTpl[e] /\ Type[e] = Kind[e] /\ e \in AllEvents
  BY DEF Tpl, Type, AllEvents
<1>4. /\ Tpl[CheckTimerEvent] = CheckTimerTpl /\ Type[CheckTimerEvent] = "signal"
      /\ Group[CheckTimerEvent] = NoGroup
  BY <1>2 DEF Tpl, Type, Group
<1>5. ASSUME NEW e \in AllEvents PROVE Tpl[e] \in Nat /\ Tpl[e] <= CheckTimerTpl
  <2>1. CASE e \in Events
    <3>1. NotifyTpl[e] \in 5 .. 30
      BY <1>1, <2>1, TplAssumption
    <3> QED
      BY <1>1, <1>3, <2>1, <3>1
  <2>2. CASE e = CheckTimerEvent
    BY <1>1, <1>4, <2>2
  <2> QED
    BY <2>1, <2>2 DEF AllEvents
<1>6. \A e \in AllEvents : Type[e] # "plain" => Tpl[e] \in Levels
  BY DEF Levels
<1>7. \A p \in Levels : p \in Nat /\ p <= CheckTimerTpl
  BY <1>5 DEF Levels
<1> QED
  BY <1>1, <1>2, <1>3, <1>4, <1>5, <1>6, <1>7

\* CoreRestoreTpl.
LEMMA RestoreTplStack ==
  ASSUME StackOK, pending \subseteq Levels,
         RestoreTplTest \/ RestoreTplRead \/ RestoreTplSet
  PROVE  StackOK'
<1> USE DEF ReturnTpl, Saving, Notifying, Helping, Restoring, Dispatching, Setting, Checking,
        Holding
<1>1. Fits(Running, tpl) /\ Running \in Activation
  BY RunningFits
<1>2. CASE RestoreTplTest
  <2> DEFINE pc == IF pending # {} THEN "RestoreTpl.read" ELSE "RestoreTpl.set"
             a  == [Running EXCEPT !.pc = pc]
  <2>1. stack' = <<a>> \o Callers /\ tpl' = tpl /\ Running.pc = "RestoreTpl"
    BY <1>2 DEF RestoreTplTest, Goto, Continue, At, cpu
  <2>2. Fits(a, tpl')
    BY <1>1, <2>1 DEF Fits, AtLevel, AboutEvent, Activation, Labels
  <2>3. Instead(a, tpl', Running, tpl)
    BY <1>1, <2>1 DEF Fits, AtLevel, Instead, Activation
  <2> QED
    BY <2>1, <2>2, <2>3, Continued
<1>3. CASE RestoreTplRead
  <2> DEFINE p  == HighBitSet64(pending)
             pc == IF p <= Running.tpl THEN "RestoreTpl.set" ELSE "RestoreTpl.dispatch"
             a  == [Running EXCEPT !.x = p, !.pc = pc]
  <2>1. stack' = <<a>> \o Callers /\ tpl' = tpl /\ Running.pc = "RestoreTpl.read"
    BY <1>3 DEF RestoreTplRead, Continue, At, cpu
  <2>2. p \in Levels \cup {MinusOne} /\ p \in Nat
    <3>1. CASE pending = {}
      BY <3>1, TplsOfEvents DEF HighBitSet64
    <3>2. CASE pending # {}
      <4>1. pending \subseteq 0 .. 30 /\ 30 \in Nat
        BY TplsOfEvents
      <4>2. Max(pending) \in pending
        BY <3>2, <4>1, MaxOfSet
      <4> QED
        BY <3>2, <4>2, TplsOfEvents DEF HighBitSet64
    <3> QED
      BY <3>1, <3>2
  <2> HIDE DEF p
  <2>3. Fits(a, tpl')
    <3>1. a \in Activation /\ tpl' \in Nat
      BY <1>1, <2>1, <2>2 DEF Fits, Activation, Labels
    <3>2. /\ a.tpl = Running.tpl /\ a.x = p /\ Running.tpl \in Nat
          /\ a.pc \in {"RestoreTpl.set", "RestoreTpl.dispatch"}
          /\ a.pc = "RestoreTpl.dispatch" => ~(p <= Running.tpl)
      BY <1>1 DEF Activation
    <3>3. Running.tpl <= tpl /\ Running.tpl <= TPL_HIGH_LEVEL
      BY <1>1, <2>1 DEF Fits, AtLevel
    <3> HIDE DEF a
    <3>4. AtLevel(a, tpl') /\ AboutEvent(a)
      BY <2>1, <2>2, <3>2, <3>3 DEF AtLevel, AboutEvent
    <3> QED
      BY <3>1, <3>4 DEF Fits
  <2>4. Instead(a, tpl', Running, tpl)
    BY <1>1, <2>1, <2>2 DEF Fits, AtLevel, Instead, Activation
  <2> QED
    BY <2>1, <2>3, <2>4, Continued
<1>4. CASE RestoreTplSet
  <2>1. stack' = Callers /\ tpl' = Running.tpl /\ Running.pc = "RestoreTpl.set"
    BY <1>4 DEF RestoreTplSet, ReturnNow, At
  <2> QED
    BY <2>1, Returned
<1> QED
  BY <1>2, <1>3, <1>4

\* CoreRestoreTpl starts a dispatch of a level above the one it restores.
LEMMA RestoreTplDispatchStack ==
  ASSUME StackOK, RestoreTplDispatch
  PROVE  StackOK'
<1> DEFINE f == Act("Dispatch", CheckTimerEvent, Running.x, "", 0)
           a == RestoreTplTo(Running.tpl)
           x == Running.x
           s == <<a>> \o Callers
<1>1. stack' = <<f, a>> \o Callers /\ tpl' = x /\ Running.pc = "RestoreTpl.dispatch"
  BY DEF RestoreTplDispatch, CallThen, At
<1>2. Fits(Running, tpl) /\ Running \in Activation
  BY RunningFits
<1>3. x > Running.tpl /\ x \in Levels \cup {MinusOne} /\ Running.tpl \in Nat /\ x \in Nat
      /\ Running.tpl <= TPL_HIGH_LEVEL
  BY <1>1, <1>2 DEF Fits, AtLevel, Activation, Restoring
<1>4. Fits(a, x) /\ Fits(f, x)
  BY <1>3, TplsOfEvents DEF Fits, AtLevel, AboutEvent, Activation, Labels, Act, RestoreTplTo,
     Restoring, Dispatching, Setting, Checking
<1>14. f.pc = "Dispatch" /\ f.tpl = x /\ a.pc = "RestoreTpl" /\ a.tpl = Running.tpl
  BY DEF Act, RestoreTplTo
<1> HIDE DEF f, a, x
<1>5. Instead(a, x, Running, tpl)
  BY <1>1, <1>3, <1>14 DEF Instead, ReturnTpl, Saving, Restoring, Notifying,
     Helping, Dispatching, Checking
<1>6. PICK lv \in Seq(Nat) : Nested(stack, lv) /\ lv[1] = tpl
  BY DEF StackOK
<1>7. stack # <<>>
  BY DEF StackOK
<1> DEFINE u  == Tail(lv)
           lw == <<x>> \o u
           lx == <<x>> \o lw
<1>8. Nested(s, lw) /\ lw[1] = x
  BY <1>4, <1>5, <1>6, <1>7, Replaced DEF Running, Callers
<1>9. /\ Nested(Callers, u)
      /\ \A j \in 1 .. Len(Callers) : /\ Above(Running, tpl, Callers[j], u[j])
                                      /\ Resumes(Callers[j]) /\ u[j] <= Running.tpl
  <2>1. ReturnTpl(Running, tpl) = Running.tpl
    BY <1>1 DEF ReturnTpl, Saving, Restoring
  <2> QED
    BY <2>1, <1>6, <1>7, Popped DEF Running, Callers
<1>10. a \in Activation /\ f \in Activation
  BY <1>4 DEF Fits
<1>11. /\ s \in Seq(Activation) /\ s # <<>> /\ s[1] = a /\ Len(s) = Len(Callers) + 1
       /\ \A i \in 2 .. Len(Callers) + 1 : s[i] = Callers[i - 1]
  BY <1>10, RunningFits, OnTop
<1>12. /\ u \in Seq(Nat) /\ Len(u) = Len(Callers)
       /\ \A i \in 2 .. Len(Callers) + 1 : lw[i] = u[i - 1]
  <2>1. u \in Seq(Nat) /\ Len(u) = Len(Callers)
    BY <1>9 DEF Nested
  <2>2. \A i \in 2 .. Len(u) + 1 : lw[i] = u[i - 1]
    BY <2>1, <1>3, OnTop
  <2> QED
    BY <2>1, <2>2
<1>13. stack' = <<f>> \o s
  BY <1>1, <1>10, RunningFits, TwoOnTop
<1>15. s[Len(s)].pc = "Boot"
  BY <1>10, RunningFits, BottomReplaced, <1>1 DEF StackOK, Callers, Running
<1> HIDE DEF s, lw, u
<1>16. ASSUME NEW j \in 1 .. Len(s) PROVE Above(f, x, s[j], lw[j]) /\ Resumes(s[j])
  <2>1. CASE j = 1
    BY <2>1, <1>3, <1>8, <1>11, <1>14 DEF Above, Resumes, Restoring, Holding, Setting, Checking
  <2>2. CASE j # 1
    <3>1. Len(Callers) \in Nat
      BY RunningFits
    <3>2. j \in 2 .. Len(Callers) + 1 /\ j - 1 \in 1 .. Len(Callers)
      BY <2>2, <3>1, <1>11
    <3>3. PICK k \in 1 .. Len(Callers) : k = j - 1
      BY <3>2
    <3>4. s[j] = Callers[k] /\ lw[j] = u[k]
      BY <3>2, <3>3, <1>11, <1>12
    <3>5. Above(Running, tpl, Callers[k], u[k]) /\ Resumes(Callers[k]) /\ u[k] <= Running.tpl
      BY <1>9
    <3>6. u[k] \in Nat /\ Fits(Callers[k], u[k])
      BY <1>9 DEF Nested, Fits
    <3>7. u[k] < x
      BY <3>5, <3>6, <1>3
    <3>8. Callers[k].pc \in Holding => x = MinusOne
      <4> SUFFICES ASSUME Callers[k].pc \in Holding PROVE x = MinusOne
        OBVIOUS
      <4>1. u[k] = CheckTimerTpl
        BY <3>6 DEF Fits, AtLevel, Holding
      <4>2. \A p \in Levels : p \in Nat /\ p <= CheckTimerTpl
        BY TplsOfEvents
      <4> QED
        BY <4>1, <4>2, <3>7, <1>3, TplsOfEvents
    <3> QED
      BY <3>4, <3>5, <3>6, <3>7, <3>8, <1>3, <1>14 DEF Above
  <2> QED
    BY <2>1, <2>2
<1>17. lw[1] = ReturnTpl(f, x)
  BY <1>8, <1>14 DEF ReturnTpl, Saving, Restoring, Holding, Setting, Checking
<1>18. Nested(<<f>> \o s, <<x>> \o lw) /\ (<<x>> \o lw)[1] = x
  BY ONLY <1>4, <1>8, <1>16, <1>17, Pushed
<1>19. stack' # <<>>
  BY <1>10, <1>11, <1>13, OnTop
<1>20. stack'[Len(stack')].pc = "Boot"
  BY <1>10, <1>11, <1>13, <1>15, BottomOnTop
<1>21. <<x>> \o lw \in Seq(Nat)
  BY <1>18 DEF Nested
<1> QED
  BY <1>1, <1>13, <1>18, <1>19, <1>20, <1>21 DEF StackOK

\* A section under a lock of TPL_HIGH_LEVEL.
LEMMA LockedThenStack ==
  ASSUME StackOK, NEW a, LockedThen(a), tpl <= TPL_HIGH_LEVEL, Fits(a, tpl),
         Instead(a, tpl, Running, tpl), Resumes(a), a.pc # "CreateEvent"
  PROVE  StackOK'
<1> DEFINE f == RestoreTplTo(tpl)
<1>1. stack' = <<f, a>> \o Callers /\ tpl' = TPL_HIGH_LEVEL
  BY DEF LockedThen
<1>2. tpl \in Nat
  BY RunningFits DEF Fits
<1>3. f.pc = "RestoreTpl" /\ f.tpl = tpl /\ f \in Activation
  BY <1>2, TplsOfEvents DEF RestoreTplTo, Act, Activation, Labels
<1> HIDE DEF f
<1>4. AtLevel(f, tpl') /\ AboutEvent(f)
  BY <1>1, <1>2, <1>3 DEF AtLevel, AboutEvent, Restoring, Dispatching, Setting, Checking
<1>5. Fits(f, tpl')
  BY <1>1, <1>3, <1>4, TplsOfEvents DEF Fits
<1>6. a.pc = "Dispatch" => a.tpl <= TPL_HIGH_LEVEL
  BY DEF Fits, AtLevel, Dispatching
<1>7. Atop(f, tpl', a, tpl)
  BY <1>1, <1>3, <1>6 DEF Atop, ReturnTpl, Saving, Restoring, Notifying, Helping, Dispatching,
     Checking
<1> QED
  BY <1>1, <1>3, <1>5, <1>7, Called

LEMMA LockedReturnStack ==
  ASSUME StackOK, LockedReturn, tpl <= TPL_HIGH_LEVEL, Running.pc \notin Saving,
         Running.pc # "Boot"
  PROVE  StackOK'
<1> DEFINE f == RestoreTplTo(tpl)
<1>1. stack' = <<f>> \o Callers /\ tpl' = TPL_HIGH_LEVEL
  BY DEF LockedReturn
<1>2. tpl \in Nat
  BY RunningFits DEF Fits
<1>3. f.pc = "RestoreTpl" /\ f.tpl = tpl /\ f \in Activation
  BY <1>2, TplsOfEvents DEF RestoreTplTo, Act, Activation, Labels
<1> HIDE DEF f
<1>4. AtLevel(f, tpl') /\ AboutEvent(f)
  BY <1>1, <1>2, <1>3 DEF AtLevel, AboutEvent, Restoring, Dispatching, Setting, Checking
<1>5. Fits(f, tpl')
  BY <1>1, <1>3, <1>4, TplsOfEvents DEF Fits
<1>6. Instead(f, tpl', Running, tpl)
  BY <1>1, <1>3 DEF Instead, ReturnTpl, Saving, Restoring, Notifying, Helping, Dispatching,
     Checking
<1> QED
  BY <1>1, <1>5, <1>6, Continued

\* The entries of the queues are of the queue's level.
QueuesOK ==
  /\ queue \in [Levels -> Seq(AllEvents)]
  /\ \A p \in Levels : IsInjective(queue[p]) /\ \A e \in ToSet(queue[p]) : Tpl[e] = p

\* The first of a queue.
LEMMA QueueHead ==
  ASSUME QueuesOK, NEW p \in Levels, queue[p] # <<>>
  PROVE  Head(queue[p]) \in AllEvents /\ Tpl[Head(queue[p])] = p
<1>1. queue[p] \in Seq(AllEvents)
  BY DEF QueuesOK
<1>2. Head(queue[p]) = queue[p][1] /\ 1 \in DOMAIN queue[p] /\ queue[p][1] \in AllEvents
  BY <1>1
<1>3. Head(queue[p]) \in ToSet(queue[p])
  BY <1>2 DEF ToSet
<1> QED
  BY <1>2, <1>3 DEF QueuesOK

\* CoreDispatchEventNotifies.
LEMMA DispatchStack ==
  ASSUME StackOK, QueuesOK, DispatchTake \/ DispatchDone \/ DispatchNotify
  PROVE  StackOK'
<1> USE DEF ReturnTpl, Saving, Notifying, Helping, Restoring, Dispatching, Setting, Checking,
        Holding
<1>1. Fits(Running, tpl) /\ Running \in Activation
  BY RunningFits
<1>2. CASE DispatchTake
  <2> DEFINE e == Head(queue[Running.tpl])
             a == [Running EXCEPT !.pc = "Dispatch.notify", !.ev = e]
  <2>1. LockedThen(a) /\ tpl <= TPL_HIGH_LEVEL /\ Running.pc = "Dispatch" /\ queue[Running.tpl] # <<>>
    BY <1>2 DEF DispatchTake, At, RaiseTplLegal
  <2>2. tpl = Running.tpl /\ tpl \in Levels /\ tpl \in Nat
    BY <1>1, <2>1, TplsOfEvents DEF Fits, AtLevel
  <2>3. e \in AllEvents /\ Tpl[e] = tpl
    BY <2>1, <2>2, QueueHead
  <2> HIDE DEF e
  <2>4. a.pc = "Dispatch.notify" /\ a.tpl = tpl /\ a.ev = e /\ a \in Activation
    BY <1>1, <2>2, <2>3 DEF Activation, Labels
  <2> HIDE DEF a
  <2>5. Fits(a, tpl)
    BY <2>1, <2>2, <2>3, <2>4 DEF Fits, AtLevel, AboutEvent
  <2>6. Instead(a, tpl, Running, tpl) /\ Resumes(a)
    BY <2>1, <2>2, <2>4 DEF Instead, Resumes
  <2> QED
    BY <2>1, <2>4, <2>5, <2>6, LockedThenStack
<1>3. CASE DispatchDone
  <2>1. LockedReturn /\ tpl <= TPL_HIGH_LEVEL /\ Running.pc = "Dispatch"
    BY <1>3 DEF DispatchDone, At, RaiseTplLegal
  <2> QED
    BY <2>1, LockedReturnStack
<1>4. CASE DispatchNotify
  <2> DEFINE a  == [Running EXCEPT !.pc = "Dispatch"]
             f  == Act(IF Running.ev = CheckTimerEvent THEN "CheckTimers" ELSE "Notify",
                       Running.ev, 0, "", 0)
  <2>1. stack' = <<f, a>> \o Callers /\ tpl' = tpl /\ Running.pc = "Dispatch.notify"
    BY <1>4 DEF DispatchNotify, CallThen, At, cpu
  <2>2. /\ tpl = Running.tpl /\ tpl \in Levels /\ tpl \in Nat /\ tpl <= TPL_HIGH_LEVEL
        /\ Running.ev \in AllEvents /\ Tpl[Running.ev] = tpl
    <3>1. tpl = Running.tpl /\ tpl <= TPL_HIGH_LEVEL /\ tpl \in Levels \cup {MinusOne}
      BY <1>1, <2>1 DEF Fits, AtLevel
    <3>2. Running.ev \in AllEvents /\ Tpl[Running.ev] = tpl
      BY <1>1, <2>1, <3>1 DEF Fits, AboutEvent, Activation
    <3> QED
      BY <3>1, <3>2, TplsOfEvents
  <2>3. a.pc = "Dispatch" /\ a.tpl = tpl /\ a \in Activation
    BY <1>1, <2>2 DEF Activation, Labels
  <2>4. /\ f.pc = IF Running.ev = CheckTimerEvent THEN "CheckTimers" ELSE "Notify"
        /\ f.ev = Running.ev /\ f \in Activation
    BY <2>2 DEF Activation, Labels, Act
  <2> HIDE DEF a, f
  <2>5. Fits(a, tpl)
    BY <2>2, <2>3 DEF Fits, AtLevel, AboutEvent
  <2>6. Fits(f, tpl)
    <3>1. Running.ev # CheckTimerEvent => Running.ev \in Events
      BY <2>2 DEF AllEvents
    <3> QED
      BY <3>1, <2>2, <2>4, TplsOfEvents DEF Fits, AtLevel, AboutEvent
  <2>7. Instead(a, tpl, Running, tpl) /\ Resumes(a)
    BY <2>1, <2>2, <2>3 DEF Instead, Resumes
  <2>8. Atop(f, tpl, a, tpl)
    BY <2>2, <2>3, <2>4 DEF Atop
  <2> QED
    BY <2>1, <2>3, <2>4, <2>5, <2>6, <2>7, <2>8, Called
<1> QED
  BY <1>2, <1>3, <1>4

\* What a level is, and that an activation that has saved no TPL and leaves the
\* TPL alone returns to the level it was called at.
LEMMA ReturnNowStack ==
  ASSUME StackOK, ReturnNow, UNCHANGED cpu, Running.pc \notin Saving, Running.pc # "Boot"
  PROVE  StackOK' /\ Resumes(stack'[1])
BY Returned DEF ReturnNow, ReturnTpl, cpu

\* CoreCreateEventInternal.
LEMMA CreateEventStack ==
  ASSUME StackOK, CreateEvent
  PROVE  StackOK'
<1>1. Running.pc = "CreateEvent" /\ tpl <= TPL_HIGH_LEVEL
  BY DEF CreateEvent, At, RaiseTplLegal
<1>2. Running.pc \notin Saving /\ Running.pc # "Boot"
  BY <1>1 DEF Saving, Restoring, Holding, Setting, Checking
<1>3. LockedReturn \/ (ReturnNow /\ UNCHANGED cpu)
  BY DEF CreateEvent, cpu
<1> QED
  BY <1>1, <1>2, <1>3, LockedReturnStack, ReturnNowStack

\* CoreSignalEvent and CoreNotifySignalList.
LEMMA SignalStack ==
  ASSUME StackOK, \/ SignalEvent \/ SignalListLock \/ SignalListNext \/ SignalListUnlock
                  \/ SignalEventEnd
  PROVE  StackOK'
<1> USE DEF ReturnTpl, Saving, Notifying, Helping, Restoring, Dispatching, Setting, Checking,
        Holding
<1>1. Fits(Running, tpl) /\ Running \in Activation /\ tpl \in Nat
  BY RunningFits DEF Fits
<1>2. CASE SignalEvent
  <2> DEFINE a == [Running EXCEPT !.pc = "SignalList"]
  <2>1. Running.pc = "SignalEvent" /\ tpl <= TPL_HIGH_LEVEL
    BY <1>2 DEF SignalEvent, At, RaiseTplLegal
  <2>2. \/ LockedReturn \/ (ReturnNow /\ UNCHANGED cpu)
        \/ LockedThen(a) /\ Type[Running.ev] = "signal"
    BY <1>2 DEF SignalEvent, cpu
  <2>3. a.pc = "SignalList" /\ a \in Activation /\ a.ev = Running.ev
    BY <1>1 DEF Activation, Labels
  <2> HIDE DEF a
  <2>4. CASE LockedThen(a) /\ Type[Running.ev] = "signal"
    <3>1. Fits(a, tpl)
      BY <1>1, <2>1, <2>3, <2>4 DEF Fits, AtLevel, AboutEvent
    <3>2. Instead(a, tpl, Running, tpl) /\ Resumes(a)
      BY <1>1, <2>1, <2>3 DEF Instead, Resumes
    <3> QED
      BY <2>1, <2>3, <2>4, <3>1, <3>2, LockedThenStack
  <2> QED
    BY <2>1, <2>2, <2>4, LockedReturnStack, ReturnNowStack
<1>3. CASE SignalListLock
  <2> DEFINE a == [Running EXCEPT !.pc = "SignalList.next", !.tpl = tpl, !.x = 1]
  <2>1. /\ Running.pc = "SignalList" /\ tpl <= TPL_HIGH_LEVEL /\ tpl' = TPL_HIGH_LEVEL
        /\ stack' = <<a>> \o Callers
    BY <1>3 DEF SignalListLock, At, RaiseTplLegal, Continue
  <2>2. a.pc = "SignalList.next" /\ a \in Activation /\ a.ev = Running.ev /\ a.tpl = tpl /\ a.x = 1
    BY <1>1 DEF Activation, Labels
  <2> HIDE DEF a
  <2>3. Type[Running.ev] = "signal"
    BY <1>1, <2>1 DEF Fits, AboutEvent
  <2>4. Fits(a, tpl')
    BY <1>1, <2>1, <2>2, <2>3, TplsOfEvents DEF Fits, AtLevel, AboutEvent
  <2>5. Instead(a, tpl', Running, tpl)
    BY <1>1, <2>1, <2>2 DEF Instead
  <2> QED
    BY <2>1, <2>4, <2>5, Continued
<1>4. CASE SignalListNext
  <2> DEFINE a == [Running EXCEPT !.x = @ + 1]
  <2>1. Running.pc = "SignalList.next" /\ tpl' = tpl /\ stack' = <<a>> \o Callers
    BY <1>4 DEF SignalListNext, At, Continue, cpu
  <2>2. /\ a.pc = "SignalList.next" /\ a \in Activation /\ a.ev = Running.ev
        /\ a.tpl = Running.tpl /\ a.x = Running.x + 1 /\ Running.x \in Nat /\ Running.tpl \in Nat
    <3>1. Running.x \in Nat /\ Running.tpl \in Nat
      BY <1>1 DEF Activation
    <3>2. PICK y \in Nat : y = Running.x + 1
      BY <3>1
    <3>3. a = [Running EXCEPT !.x = y]
      BY <3>2
    <3>4. [Running EXCEPT !.x = y] \in Activation
      BY <1>1 DEF Activation
    <3>5. /\ [Running EXCEPT !.x = y].pc = Running.pc /\ [Running EXCEPT !.x = y].ev = Running.ev
          /\ [Running EXCEPT !.x = y].tpl = Running.tpl /\ [Running EXCEPT !.x = y].x = y
      BY <1>1 DEF Activation
    <3> HIDE DEF a
    <3> QED
      BY <2>1, <3>1, <3>2, <3>3, <3>4, <3>5
  <2> HIDE DEF a
  <2>3. /\ Type[Running.ev] = "signal" /\ Running.x >= 1 /\ tpl = TPL_HIGH_LEVEL
        /\ Running.tpl <= TPL_HIGH_LEVEL
    BY <1>1, <2>1 DEF Fits, AboutEvent, AtLevel
  <2>4. Fits(a, tpl')
    BY <1>1, <2>1, <2>2, <2>3, TplsOfEvents DEF Fits, AtLevel, AboutEvent
  <2>5. Instead(a, tpl', Running, tpl)
    BY <1>1, <2>1, <2>2, <2>3 DEF Instead
  <2> QED
    BY <2>1, <2>4, <2>5, Continued
<1>5. CASE SignalListUnlock
  <2> DEFINE a == [Running EXCEPT !.pc = "SignalEvent.end"]
             f == RestoreTplTo(Running.tpl)
  <2>1. Running.pc = "SignalList.next" /\ tpl' = tpl /\ stack' = <<f, a>> \o Callers
    BY <1>5 DEF SignalListUnlock, At, cpu
  <2>2. a.pc = "SignalEvent.end" /\ a \in Activation /\ Running.tpl \in Nat
    BY <1>1 DEF Activation, Labels
  <2>3. f.pc = "RestoreTpl" /\ f.tpl = Running.tpl /\ f \in Activation
    BY <2>2, TplsOfEvents DEF RestoreTplTo, Act, Activation, Labels
  <2> HIDE DEF a, f
  <2>4. tpl = TPL_HIGH_LEVEL /\ Running.tpl <= TPL_HIGH_LEVEL
    BY <1>1, <2>1 DEF Fits, AtLevel
  <2>5. Fits(a, Running.tpl)
    BY <2>2, <2>4 DEF Fits, AtLevel, AboutEvent
  <2>6. Instead(a, Running.tpl, Running, tpl) /\ Resumes(a)
    BY <2>1, <2>2 DEF Instead, Resumes
  <2>7. Fits(f, tpl')
    BY <1>1, <2>1, <2>3, <2>4 DEF Fits, AtLevel, AboutEvent
  <2>8. Atop(f, tpl', a, Running.tpl)
    BY <2>1, <2>2, <2>3, <2>4 DEF Atop
  <2> QED
    BY <2>1, <2>2, <2>3, <2>5, <2>6, <2>7, <2>8, Called
<1>6. CASE SignalEventEnd
  <2>1. LockedReturn /\ tpl <= TPL_HIGH_LEVEL /\ Running.pc = "SignalEvent.end"
    BY <1>6 DEF SignalEventEnd, At, RaiseTplLegal
  <2> QED
    BY <2>1, LockedReturnStack
<1> QED
  BY <1>2, <1>3, <1>4, <1>5, <1>6

\* CoreCheckEvent and CoreWaitForEvent.
LEMMA CheckEventStack ==
  ASSUME StackOK, CheckEvent \/ CheckEventTake \/ WaitForEvent
  PROVE  StackOK'
<1> USE DEF ReturnTpl, Saving, Notifying, Helping, Restoring, Dispatching, Setting, Checking,
        Holding
<1>1. Fits(Running, tpl) /\ Running \in Activation /\ tpl \in Nat
  BY RunningFits DEF Fits
<1> DEFINE Waits == {"CheckEvent", "CheckEvent.take", "WaitForEvent", "Asleep"}
<1>2. ASSUME NEW pc \in Waits, Running.pc \in Waits
      PROVE  /\ Fits([Running EXCEPT !.pc = pc], tpl)
             /\ Instead([Running EXCEPT !.pc = pc], tpl, Running, tpl)
             /\ [Running EXCEPT !.pc = pc].pc = pc
  <2> DEFINE a == [Running EXCEPT !.pc = pc]
  <2>1. a.pc = pc /\ a \in Activation
    BY <1>1 DEF Activation, Labels
  <2> HIDE DEF a
  <2>2. tpl <= TPL_HIGH_LEVEL
    BY <1>1, <1>2 DEF Fits, AtLevel
  <2>3. Fits(a, tpl)
    BY <1>1, <2>1, <2>2 DEF Fits, AtLevel, AboutEvent
  <2>4. Instead(a, tpl, Running, tpl)
    BY <1>1, <1>2, <2>1 DEF Instead
  <2> QED
    BY <2>1, <2>3, <2>4 DEF a
<1>3. ASSUME NEW pc \in Waits, Running.pc \in Waits, Goto(pc), UNCHANGED tpl PROVE StackOK'
  BY <1>2, <1>3, Continued DEF Goto, Continue
<1>4. CASE CheckEvent
  <2> DEFINE a == [Running EXCEPT !.pc = "CheckEvent.take"]
  <2>1. Running.pc = "CheckEvent" /\ tpl <= TPL_HIGH_LEVEL
    BY <1>4 DEF CheckEvent, At, RaiseTplLegal
  <2>2. \/ ReturnNow /\ UNCHANGED cpu
        \/ LockedThen(a)
        \/ Goto("CheckEvent.take") /\ UNCHANGED cpu
    BY <1>4 DEF CheckEvent, cpu
  <2>3. CASE LockedThen(a)
    <3>1. Fits(a, tpl) /\ Instead(a, tpl, Running, tpl) /\ a.pc = "CheckEvent.take"
      BY <1>2, <2>1
    <3> HIDE DEF a
    <3> QED
      BY <2>1, <2>3, <3>1, LockedThenStack DEF Resumes
  <2> QED
    BY <2>1, <2>2, <2>3, <1>3, ReturnNowStack DEF cpu
<1>5. CASE CheckEventTake
  <2>1. Running.pc = "CheckEvent.take" /\ tpl <= TPL_HIGH_LEVEL
    BY <1>5 DEF CheckEventTake, At, RaiseTplLegal
  <2>2. LockedReturn \/ ((Goto("WaitForEvent") \/ ReturnNow) /\ UNCHANGED cpu)
    BY <1>5 DEF CheckEventTake, cpu
  <2> QED
    BY <2>1, <2>2, <1>3, LockedReturnStack, ReturnNowStack DEF cpu
<1>6. CASE WaitForEvent
  <2>1. Running.pc = "WaitForEvent" /\ UNCHANGED tpl /\ (Goto("CheckEvent") \/ Goto("Asleep"))
    BY <1>6 DEF WaitForEvent, At
  <2> QED
    BY <2>1, <1>3
<1> QED
  BY <1>4, <1>5, <1>6

\* CoreSetTimer.
LEMMA SetTimerStack ==
  ASSUME StackOK, \/ SetTimer \/ SetTimerRemove \/ SetTimerTime \/ SetTimerInsert
                  \/ SetTimerRelease
  PROVE  StackOK'
<1> USE DEF ReturnTpl, Saving, Notifying, Helping, Restoring, Dispatching, Setting, Checking,
        Holding
<1>1. Fits(Running, tpl) /\ Running \in Activation /\ tpl \in Nat /\ Running.tpl \in Nat
  BY RunningFits DEF Fits, Activation
<1>2. ASSUME NEW pc \in Setting, Running.pc \in Setting
      PROVE  /\ Fits([Running EXCEPT !.pc = pc], tpl) /\ tpl = CheckTimerTpl
             /\ Instead([Running EXCEPT !.pc = pc], tpl, Running, tpl)
             /\ [Running EXCEPT !.pc = pc].pc = pc
  <2> DEFINE a == [Running EXCEPT !.pc = pc]
  <2>1. a.pc = pc /\ a \in Activation /\ a.tpl = Running.tpl /\ a.ev = Running.ev
    BY <1>1 DEF Activation, Labels
  <2> HIDE DEF a
  <2>2. tpl = CheckTimerTpl /\ Running.tpl <= CheckTimerTpl /\ Running.ev \in Timers
    BY <1>1, <1>2 DEF Fits, AtLevel, AboutEvent
  <2>3. Fits(a, tpl)
    BY <1>1, <2>1, <2>2, TplsOfEvents DEF Fits, AtLevel, AboutEvent
  <2>4. Instead(a, tpl, Running, tpl)
    BY <1>1, <1>2, <2>1, <2>2 DEF Instead
  <2> QED
    BY <2>1, <2>2, <2>3, <2>4 DEF a
<1>3. ASSUME NEW pc \in Setting, Running.pc \in Setting, Goto(pc), UNCHANGED tpl PROVE StackOK'
  BY <1>2, <1>3, Continued DEF Goto, Continue
<1>4. CASE SetTimer
  <2> DEFINE a == [Running EXCEPT !.pc = "SetTimer.remove", !.tpl = tpl]
  <2>1. /\ Running.pc = "SetTimer"
        /\ \/ ReturnNow /\ UNCHANGED cpu
           \/ AcquireTimerLock /\ stack' = <<a>> \o Callers
    BY <1>4 DEF SetTimer, At, Continue, cpu
  <2>2. a.pc = "SetTimer.remove" /\ a \in Activation /\ a.tpl = tpl /\ a.ev = Running.ev
    BY <1>1 DEF Activation, Labels
  <2> HIDE DEF a
  <2>3. tpl <= CheckTimerTpl /\ Running.ev \in Timers
    BY <1>1, <2>1 DEF Fits, AtLevel, AboutEvent
  <2>4. CASE AcquireTimerLock /\ stack' = <<a>> \o Callers
    <3>1. tpl' = CheckTimerTpl
      BY <2>4 DEF AcquireTimerLock
    <3>2. Fits(a, tpl')
      BY <1>1, <2>2, <2>3, <3>1, TplsOfEvents DEF Fits, AtLevel, AboutEvent
    <3>3. Instead(a, tpl', Running, tpl)
      BY <1>1, <2>1, <2>2, <2>3, <3>1 DEF Instead
    <3> QED
      BY <2>4, <3>2, <3>3, Continued
  <2> QED
    BY <2>1, <2>4, ReturnNowStack
<1>5. CASE SetTimerRemove
  BY <1>3, <1>5 DEF SetTimerRemove, At, cpu
<1>6. CASE SetTimerTime
  <2> DEFINE a == [Running EXCEPT !.pc = "SetTimer.insert"]
  <2>1. Running.pc = "SetTimer.time" /\ LockedThen(a)
    BY <1>6 DEF SetTimerTime, At
  <2>2. /\ Fits(a, tpl) /\ Instead(a, tpl, Running, tpl) /\ a.pc = "SetTimer.insert"
        /\ tpl = CheckTimerTpl
    BY <1>2, <2>1
  <2> HIDE DEF a
  <2> QED
    BY <2>1, <2>2, TplsOfEvents, LockedThenStack DEF Resumes
<1>7. CASE SetTimerInsert
  <2> DEFINE a == [Running EXCEPT !.pc = "SetTimer.release"]
             f == Service("SignalEvent", CheckTimerEvent)
  <2>1. /\ Running.pc = "SetTimer.insert" /\ tpl' = tpl
        /\ stack' = <<f, a>> \o Callers \/ Goto("SetTimer.release")
    BY <1>7 DEF SetTimerInsert, At, CallThen, Goto, cpu
  <2>2. /\ Fits(a, tpl) /\ Instead(a, tpl, Running, tpl) /\ a.pc = "SetTimer.release"
        /\ tpl = CheckTimerTpl
    BY <1>2, <2>1
  <2>3. f.pc = "SignalEvent" /\ f \in Activation
    BY TplsOfEvents DEF Service, Act, Activation, Labels
  <2> HIDE DEF a, f
  <2>4. CASE stack' = <<f, a>> \o Callers
    <3>1. Fits(f, tpl)
      BY <1>1, <2>2, <2>3, TplsOfEvents DEF Fits, AtLevel, AboutEvent
    <3>2. Atop(f, tpl, a, tpl)
      BY <1>1, <2>2, <2>3 DEF Atop
    <3> QED
      BY <2>1, <2>2, <2>3, <2>4, <3>1, <3>2, Called DEF Resumes
  <2> QED
    BY <2>1, <2>4, <1>3
<1>8. CASE SetTimerRelease
  <2> DEFINE a == RestoreTplTo(Running.tpl)
  <2>1. Running.pc = "SetTimer.release" /\ stack' = <<a>> \o Callers /\ tpl' = tpl
    BY <1>8 DEF SetTimerRelease, ReleaseTimerLock, Continue, At, cpu
  <2>2. a.pc = "RestoreTpl" /\ a.tpl = Running.tpl /\ a \in Activation
    BY <1>1, TplsOfEvents DEF RestoreTplTo, Act, Activation, Labels
  <2> HIDE DEF a
  <2>3. tpl = CheckTimerTpl /\ Running.tpl <= CheckTimerTpl
    BY <1>1, <2>1 DEF Fits, AtLevel
  <2>4. Fits(a, tpl)
    BY <1>1, <2>2, <2>3, TplsOfEvents DEF Fits, AtLevel, AboutEvent
  <2>5. Instead(a, tpl, Running, tpl)
    BY <1>1, <2>1, <2>2, <2>3 DEF Instead
  <2> QED
    BY <2>1, <2>4, <2>5, Continued
<1> QED
  BY <1>4, <1>5, <1>6, <1>7, <1>8

\* The heads of the timer list.
LEMMA TimerHead ==
  ASSUME timerList \in Seq(Timers), timerList # <<>>
  PROVE  /\ Head(timerList) \in Timers /\ Head(timerList) \in Events
         /\ Head(timerList) \in AllEvents /\ Head(timerList) \in ToSet(timerList)
<1>1. Head(timerList) = timerList[1] /\ 1 \in DOMAIN timerList /\ timerList[1] \in Timers
  OBVIOUS
<1>2. Head(timerList) \in ToSet(timerList)
  BY <1>1 DEF ToSet
<1> QED
  BY <1>1, <1>2, EventsAssumption DEF AllEvents

\* CoreCheckTimers.
LEMMA CheckTimersStack ==
  ASSUME StackOK, timerList \in Seq(Timers),
         \/ CheckTimers \/ CheckTimersTime \/ CheckTimersScan \/ CheckTimersAgain
         \/ CheckTimersInsert \/ CheckTimersRelease,
         time \in Nat
  PROVE  StackOK'
<1> USE DEF ReturnTpl, Saving, Notifying, Helping, Restoring, Dispatching, Setting, Checking,
        Holding
<1>1. Fits(Running, tpl) /\ Running \in Activation /\ tpl \in Nat /\ Running.tpl \in Nat
  BY RunningFits DEF Fits, Activation
<1>2. ASSUME NEW a \in Activation, a.pc \in Checking, Running.pc \in Checking,
             a.tpl = Running.tpl,
             a.pc \in {"CheckTimers.again", "CheckTimers.insert"} => a.ev \in Timers
      PROVE  Fits(a, tpl) /\ Instead(a, tpl, Running, tpl) /\ tpl = CheckTimerTpl
  <2>1. tpl = CheckTimerTpl /\ Running.tpl = CheckTimerTpl
    BY <1>1, <1>2 DEF Fits, AtLevel
  <2>2. AtLevel(a, tpl) /\ AboutEvent(a)
    BY <1>1, <1>2, <2>1, TplsOfEvents DEF AtLevel, AboutEvent
  <2>3. Instead(a, tpl, Running, tpl)
    BY <1>1, <1>2, <2>1 DEF Instead
  <2> QED
    BY <1>1, <2>1, <2>2, <2>3 DEF Fits
<1>3. ASSUME NEW a \in Activation, a.pc \in Checking, Running.pc \in Checking,
             a.tpl = Running.tpl,
             a.pc \in {"CheckTimers.again", "CheckTimers.insert"} => a.ev \in Timers,
             NEW e \in AllEvents, tpl' = tpl,
             stack' = <<a>> \o Callers \/ stack' = <<Service("SignalEvent", e), a>> \o Callers
      PROVE  StackOK'
  <2> DEFINE f == Service("SignalEvent", e)
  <2>1. Fits(a, tpl) /\ Instead(a, tpl, Running, tpl) /\ tpl = CheckTimerTpl
    BY <1>2, <1>3
  <2>2. f.pc = "SignalEvent" /\ f \in Activation
    BY DEF Service, Act, Activation, Labels
  <2>3. stack' = <<a>> \o Callers \/ stack' = <<f, a>> \o Callers
    BY <1>3
  <2> HIDE DEF f
  <2>4. CASE stack' = <<f, a>> \o Callers
    <3>1. Fits(f, tpl)
      BY <1>1, <2>1, <2>2, TplsOfEvents DEF Fits, AtLevel, AboutEvent
    <3>2. Atop(f, tpl, a, tpl)
      BY <1>1, <1>3, <2>2 DEF Atop
    <3>3. Resumes(a) /\ a.pc # "CreateEvent"
      BY <1>3 DEF Resumes
    <3> QED
      BY <1>3, <2>1, <2>2, <2>4, <3>1, <3>2, <3>3, Called
  <2> QED
    BY <1>3, <2>1, <2>3, <2>4, Continued
<1>4. CASE CheckTimers
  <2> DEFINE a == [Running EXCEPT !.pc = "CheckTimers.time", !.tpl = tpl]
  <2>1. Running.pc = "CheckTimers" /\ tpl' = CheckTimerTpl /\ stack' = <<a>> \o Callers
    BY <1>4 DEF CheckTimers, At, Continue, AcquireTimerLock
  <2>2. a.pc = "CheckTimers.time" /\ a \in Activation /\ a.tpl = tpl
    BY <1>1 DEF Activation, Labels
  <2> HIDE DEF a
  <2>3. tpl = CheckTimerTpl
    BY <1>1, <2>1 DEF Fits, AtLevel
  <2>4. Fits(a, tpl')
    BY <1>1, <2>1, <2>2, <2>3, TplsOfEvents DEF Fits, AtLevel, AboutEvent
  <2>5. Instead(a, tpl', Running, tpl)
    BY <1>1, <2>1, <2>2, <2>3 DEF Instead
  <2> QED
    BY <2>1, <2>4, <2>5, Continued
<1>5. CASE CheckTimersTime
  <2> DEFINE a == [Running EXCEPT !.pc = "CheckTimers.scan", !.x = time]
  <2>1. Running.pc = "CheckTimers.time" /\ LockedThen(a)
    BY <1>5 DEF CheckTimersTime, At
  <2>2. a.pc = "CheckTimers.scan" /\ a \in Activation /\ a.tpl = Running.tpl
    BY <1>1 DEF Activation, Labels
  <2> HIDE DEF a
  <2>3. Fits(a, tpl) /\ Instead(a, tpl, Running, tpl) /\ tpl = CheckTimerTpl
    BY <1>2, <2>1, <2>2
  <2> QED
    BY <2>1, <2>2, <2>3, TplsOfEvents, LockedThenStack DEF Resumes
<1>6. CASE CheckTimersScan
  <2> DEFINE e == Head(timerList)
             a == [Running EXCEPT !.pc = "CheckTimers.again", !.ev = e]
             b == [Running EXCEPT !.pc = "CheckTimers.release"]
  <2>1. /\ Running.pc = "CheckTimers.scan" /\ tpl' = tpl
        /\ \/ timerList # <<>> /\ stack' = <<Service("SignalEvent", e), a>> \o Callers
           \/ stack' = <<b>> \o Callers
    BY <1>6 DEF CheckTimersScan, HeadExpired, At, CallThen, Goto, Continue, cpu
  <2>2. b.pc = "CheckTimers.release" /\ b \in Activation /\ b.tpl = Running.tpl
    BY <1>1 DEF Activation, Labels
  <2>3. CASE timerList # <<>> /\ stack' = <<Service("SignalEvent", e), a>> \o Callers
    <3>1. e \in Timers /\ e \in AllEvents
      BY <2>3, TimerHead
    <3> HIDE DEF e
    <3>2. a.pc = "CheckTimers.again" /\ a \in Activation /\ a.tpl = Running.tpl /\ a.ev = e
      BY <1>1, <3>1 DEF Activation, Labels
    <3> HIDE DEF a
    <3> QED
      BY <1>3, <2>1, <2>3, <3>1, <3>2
  <2>4. CASE stack' = <<b>> \o Callers
    <3> HIDE DEF b
    <3> QED
      BY <1>3, <2>1, <2>2, <2>4, TplsOfEvents
  <2> QED
    BY <2>1, <2>3, <2>4
<1>7. CASE CheckTimersAgain
  <2> DEFINE a == [Running EXCEPT !.pc = "CheckTimers.insert"]
             b == [Running EXCEPT !.pc = "CheckTimers.scan"]
  <2>1. /\ Running.pc = "CheckTimers.again" /\ tpl' = tpl
        /\ \/ stack' = <<Service("SignalEvent", CheckTimerEvent), a>> \o Callers
           \/ stack' = <<a>> \o Callers
           \/ stack' = <<b>> \o Callers
    BY <1>7 DEF CheckTimersAgain, At, CallThen, Goto, Continue, cpu
  <2>2. /\ a.pc = "CheckTimers.insert" /\ a \in Activation /\ a.tpl = Running.tpl
        /\ a.ev = Running.ev
        /\ b.pc = "CheckTimers.scan" /\ b \in Activation /\ b.tpl = Running.tpl
    BY <1>1 DEF Activation, Labels
  <2>3. Running.ev \in Timers
    BY <1>1, <2>1 DEF Fits, AboutEvent
  <2> HIDE DEF a, b
  <2> QED
    BY <1>3, <2>1, <2>2, <2>3, TplsOfEvents
<1>8. CASE CheckTimersInsert
  <2> DEFINE b == [Running EXCEPT !.pc = "CheckTimers.scan"]
  <2>1. Running.pc = "CheckTimers.insert" /\ tpl' = tpl /\ stack' = <<b>> \o Callers
    BY <1>8 DEF CheckTimersInsert, At, Goto, Continue, cpu
  <2>2. b.pc = "CheckTimers.scan" /\ b \in Activation /\ b.tpl = Running.tpl
    BY <1>1 DEF Activation, Labels
  <2> HIDE DEF b
  <2> QED
    BY <1>3, <2>1, <2>2, TplsOfEvents
<1>9. CASE CheckTimersRelease
  <2> DEFINE a == RestoreTplTo(Running.tpl)
  <2>1. Running.pc = "CheckTimers.release" /\ stack' = <<a>> \o Callers /\ tpl' = tpl
    BY <1>9 DEF CheckTimersRelease, ReleaseTimerLock, Continue, At, cpu
  <2>2. a.pc = "RestoreTpl" /\ a.tpl = Running.tpl /\ a \in Activation
    BY <1>1, TplsOfEvents DEF RestoreTplTo, Act, Activation, Labels
  <2> HIDE DEF a
  <2>3. tpl = CheckTimerTpl /\ Running.tpl = CheckTimerTpl
    BY <1>1, <2>1 DEF Fits, AtLevel
  <2>4. Fits(a, tpl)
    BY <1>1, <2>2, <2>3, TplsOfEvents DEF Fits, AtLevel, AboutEvent
  <2>5. Instead(a, tpl, Running, tpl)
    BY <1>1, <2>1, <2>2, <2>3 DEF Instead
  <2> QED
    BY <2>1, <2>4, <2>5, Continued
<1> QED
  BY <1>4, <1>5, <1>6, <1>7, <1>8, <1>9

\* CoreCloseEvent, the return of a notification function, of a raised TPL and of
\* an interrupt.
LEMMA CloseEventStack ==
  ASSUME StackOK, \/ CloseEvent \/ CloseEventUnlink \/ CloseEventFree \/ NotifyReturns
                  \/ RaiseTpl \/ RestoreTpl \/ Iret
  PROVE  StackOK'
<1> USE DEF ReturnTpl, Saving, Notifying, Helping, Restoring, Dispatching, Setting, Checking,
        Holding
<1>1. Fits(Running, tpl) /\ Running \in Activation /\ tpl \in Nat /\ Running.tpl \in Nat
  BY RunningFits DEF Fits, Activation
<1>2. ASSUME NEW pc \in Closing, Running.pc \in Closing \cup {"CloseEvent"}
      PROVE  /\ Fits([Running EXCEPT !.pc = pc], tpl) /\ tpl <= TPL_HIGH_LEVEL
             /\ Instead([Running EXCEPT !.pc = pc], tpl, Running, tpl)
             /\ [Running EXCEPT !.pc = pc].pc = pc
  <2> DEFINE a == [Running EXCEPT !.pc = pc]
  <2>1. a.pc = pc /\ a \in Activation /\ a.tpl = Running.tpl /\ a.ev = Running.ev
    BY <1>1 DEF Activation, Labels, Closing
  <2> HIDE DEF a
  <2>2. tpl <= TPL_HIGH_LEVEL
    BY <1>1, <1>2 DEF Fits, AtLevel, Closing
  <2>3. Fits(a, tpl)
    BY <1>1, <2>1, <2>2 DEF Fits, AtLevel, AboutEvent, Closing
  <2>4. Instead(a, tpl, Running, tpl)
    BY <1>1, <1>2, <2>1, <2>2 DEF Instead, Closing
  <2> QED
    BY <2>1, <2>2, <2>3, <2>4 DEF a
<1>3. CASE CloseEvent
  <2> DEFINE a == [Running EXCEPT !.pc = "CloseEvent.unlink"]
             f == SetTimerCall(Running.ev, "cancel", 0)
  <2>1. /\ Running.pc = "CloseEvent" /\ UNCHANGED cpu
        /\ \/ ReturnNow
           \/ stack' = <<a>> \o Callers
           \/ stack' = <<f, a>> \o Callers /\ Running.ev \in Timers
    BY <1>3 DEF CloseEvent, At, CallThen, Continue, cpu
  <2>2. Fits(a, tpl) /\ Instead(a, tpl, Running, tpl) /\ a.pc = "CloseEvent.unlink"
    BY <1>2, <2>1 DEF Closing
  <2>3. tpl <= CheckTimerTpl
    BY <1>1, <2>1 DEF Fits, AtLevel
  <2>4. f.pc = "SetTimer" /\ f \in Activation /\ f.ev = Running.ev
    BY <1>1 DEF SetTimerCall, Act, Activation, Labels
  <2> HIDE DEF a, f
  <2>5. CASE stack' = <<f, a>> \o Callers /\ Running.ev \in Timers
    <3>1. Fits(f, tpl)
      BY <1>1, <2>3, <2>4, <2>5, TplsOfEvents DEF Fits, AtLevel, AboutEvent
    <3>2. Atop(f, tpl, a, tpl)
      BY <1>1, <2>2, <2>4 DEF Atop
    <3>3. tpl' = tpl
      BY <2>1 DEF cpu
    <3> QED
      BY <2>2, <2>4, <2>5, <3>1, <3>2, <3>3, Called DEF Resumes
  <2>6. CASE ReturnNow
    BY <2>1, <2>6, ReturnNowStack
  <2>7. CASE stack' = <<a>> \o Callers
    <3>1. tpl' = tpl
      BY <2>1 DEF cpu
    <3> QED
      BY <2>2, <2>7, <3>1, Continued
  <2> QED
    BY <2>1, <2>5, <2>6, <2>7
<1>4. CASE CloseEventUnlink
  <2> DEFINE a == [Running EXCEPT !.pc = "CloseEvent.free"]
  <2>1. Running.pc = "CloseEvent.unlink" /\ LockedThen(a)
    BY <1>4 DEF CloseEventUnlink, At
  <2>2. /\ Fits(a, tpl) /\ Instead(a, tpl, Running, tpl) /\ a.pc = "CloseEvent.free"
        /\ tpl <= TPL_HIGH_LEVEL
    BY <1>2, <2>1 DEF Closing
  <2> HIDE DEF a
  <2> QED
    BY <2>1, <2>2, LockedThenStack DEF Resumes
<1>5. CASE CloseEventFree \/ NotifyReturns
  <2>1. /\ Running.pc \in {"CloseEvent.free", "Notify"} /\ ReturnNow /\ UNCHANGED cpu
    BY <1>5 DEF CloseEventFree, NotifyReturns, At, cpu
  <2> QED
    BY <2>1, ReturnNowStack
<1>6. CASE RaiseTpl
  <2> DEFINE a == Act("Raised", CheckTimerEvent, tpl, "", 0)
  <2>1. Running.pc = "RaiseTpl" /\ tpl' = Running.x /\ stack' = <<a>> \o Callers
    BY <1>6 DEF RaiseTpl, At, Continue
  <2>2. a.pc = "Raised" /\ a.tpl = tpl /\ a \in Activation
    BY <1>1, TplsOfEvents DEF Act, Activation, Labels
  <2> HIDE DEF a
  <2>3. tpl <= Running.x /\ Running.x <= TPL_HIGH_LEVEL /\ Running.x \in Nat
    BY <1>1, <2>1 DEF Fits, AtLevel, Activation
  <2>4. Fits(a, tpl')
    BY <1>1, <2>1, <2>2, <2>3 DEF Fits, AtLevel, AboutEvent
  <2>5. Instead(a, tpl', Running, tpl)
    BY <1>1, <2>1, <2>2, <2>3 DEF Instead
  <2> QED
    BY <2>1, <2>4, <2>5, Continued
<1>7. CASE RestoreTpl
  <2> DEFINE a == RestoreTplTo(Running.tpl)
  <2>1. Running.pc = "Raised" /\ stack' = <<a>> \o Callers /\ tpl' = tpl
    BY <1>7 DEF RestoreTpl, Continue, At, cpu
  <2>2. a.pc = "RestoreTpl" /\ a.tpl = Running.tpl /\ a \in Activation
    BY <1>1, TplsOfEvents DEF RestoreTplTo, Act, Activation, Labels
  <2> HIDE DEF a
  <2>3. Running.tpl <= tpl /\ tpl <= TPL_HIGH_LEVEL /\ Running.tpl <= TPL_HIGH_LEVEL
    <3>1. Running.tpl <= tpl /\ tpl <= TPL_HIGH_LEVEL
      BY <1>1, <2>1 DEF Fits, AtLevel
    <3> QED
      BY <1>1, <3>1, TplsOfEvents
  <2>4. Fits(a, tpl)
    BY <1>1, <2>2, <2>3, TplsOfEvents DEF Fits, AtLevel, AboutEvent
  <2>5. Instead(a, tpl, Running, tpl)
    BY <1>1, <2>1, <2>2, <2>3 DEF Instead
  <2> QED
    BY <2>1, <2>4, <2>5, Continued
<1>8. CASE Iret
  <2>1. Running.pc = "Iret" /\ stack' = Callers /\ tpl' = tpl
    BY <1>8 DEF Iret, ReturnNow, At
  <2> QED
    BY <2>1, Returned
<1> QED
  BY <1>3, <1>4, <1>5, <1>6, <1>7, <1>8

\* The calls that drivers make.
LEMMA CallFacts ==
  ASSUME NEW c \in ServiceCalls
  PROVE  /\ c \in Activation
         /\ c.pc \in {"CreateEvent", "SignalEvent", "CloseEvent", "CheckEvent", "SetTimer",
                      "RaiseTpl"}
         /\ c.pc = "SetTimer" => c.ev \in Timers
         /\ c.pc = "RaiseTpl" => c.x <= TPL_HIGH_LEVEL
         /\ c.pc \in {"CreateEvent", "CloseEvent"} => c.ev \in Events
<1>1. Timers \subseteq AllEvents /\ Events \subseteq AllEvents /\ CheckTimerEvent \in AllEvents
  BY EventsAssumption DEF AllEvents
<1> DEFINE K == {"", "wait", "cancel", "relative", "periodic"}
<1>0. ASSUME NEW P \in SUBSET Labels, NEW E \in SUBSET AllEvents, NEW Kinds \in SUBSET K,
             NEW X \in SUBSET Nat, c \in [pc : P, ev : E, tpl : {0}, k : Kinds, x : X]
      PROVE  c \in Activation /\ c.pc \in P /\ c.ev \in E /\ c.x \in X
  <2> HIDE DEF K
  <2>0. c.pc \in P /\ c.ev \in E /\ c.tpl \in {0} /\ c.k \in Kinds /\ c.x \in X
    BY <1>0
  <2>1. c.pc \in Labels /\ c.ev \in AllEvents /\ c.tpl \in Nat /\ c.k \in K /\ c.x \in Nat
    <3>1. P \subseteq Labels /\ E \subseteq AllEvents /\ Kinds \subseteq K /\ X \subseteq Nat
      OBVIOUS
    <3>2. c.pc \in Labels /\ c.ev \in AllEvents
      BY <2>0, <3>1
    <3>3. c.k \in K
      BY <2>0, <3>1
    <3>4. c.x \in Nat
      BY <2>0, <3>1
    <3>5. c.tpl \in Nat
      BY <2>0
    <3> QED
      BY <3>2, <3>3, <3>4, <3>5
  <2>2. c = [pc |-> c.pc, ev |-> c.ev, tpl |-> c.tpl, k |-> c.k, x |-> c.x]
    BY <1>0
  <2>3. c \in [pc : Labels, ev : AllEvents, tpl : Nat, k : K, x : Nat]
    BY <2>1, <2>2
  <2> QED
    BY <2>0, <2>3 DEF Activation, K
<1>2. CASE c \in [pc : {"CreateEvent", "SignalEvent", "CloseEvent"}, ev : Events, tpl : {0},
                  k : {""}, x : {0}]
  <2>1. /\ {"CreateEvent", "SignalEvent", "CloseEvent"} \in SUBSET Labels
        /\ {""} \in SUBSET K /\ {0} \in SUBSET Nat
    BY DEF Labels
  <2>2. /\ c \in Activation /\ c.pc \in {"CreateEvent", "SignalEvent", "CloseEvent"}
        /\ c.ev \in Events
    BY <1>0, <1>1, <1>2, <2>1
  <2> QED
    BY <2>2
<1>3. CASE c \in [pc : {"CheckEvent"}, ev : Events, tpl : {0}, k : {"", "wait"}, x : {0}]
  <2>1. {"CheckEvent"} \in SUBSET Labels /\ {"", "wait"} \in SUBSET K /\ {0} \in SUBSET Nat
    BY DEF Labels
  <2>2. c \in Activation /\ c.pc \in {"CheckEvent"}
    BY <1>0, <1>1, <1>3, <2>1
  <2> QED
    BY <2>2
<1>4. CASE \/ c \in [pc : {"SetTimer"}, ev : Timers, tpl : {0}, k : {"cancel", "relative"}, x : Nat]
           \/ c \in [pc : {"SetTimer"}, ev : Timers, tpl : {0}, k : {"periodic"}, x : Nat \ {0}]
  <2>1. /\ {"SetTimer"} \in SUBSET Labels /\ {"cancel", "relative"} \in SUBSET K
        /\ {"periodic"} \in SUBSET K /\ Nat \in SUBSET Nat /\ Nat \ {0} \in SUBSET Nat
    BY DEF Labels
  <2>2. c \in Activation /\ c.pc \in {"SetTimer"} /\ c.ev \in Timers
    BY <1>0, <1>1, <1>4, <2>1
  <2> QED
    BY <2>2
<1>5. CASE c \in [pc : {"RaiseTpl"}, ev : {CheckTimerEvent}, tpl : {0}, k : {""},
                  x : TPL_APPLICATION .. TPL_HIGH_LEVEL]
  <2>1. /\ {"RaiseTpl"} \in SUBSET Labels /\ {""} \in SUBSET K
        /\ {CheckTimerEvent} \in SUBSET AllEvents
        /\ TPL_APPLICATION .. TPL_HIGH_LEVEL \in SUBSET Nat
    BY <1>1, TplsOfEvents DEF Labels
  <2>2. c \in Activation /\ c.pc \in {"RaiseTpl"} /\ c.x \in TPL_APPLICATION .. TPL_HIGH_LEVEL
    BY <1>0, <1>5, <2>1
  <2> QED
    BY <2>2, TplsOfEvents
<1> QED
  BY <1>2, <1>3, <1>4, <1>5 DEF ServiceCalls

\* What a call that is made is about.
LEMMA CallsMade ==
  ASSUME StackOK, Running.pc \in {"Boot", "Notify", "Raised"}, NEW c \in CallsOf(Running)
  PROVE  /\ c \in ServiceCalls
         /\ c.pc \in {"SetTimer", "CloseEvent"} => tpl <= CheckTimerTpl
         /\ tpl <= TPL_HIGH_LEVEL
<1>1. Fits(Running, tpl) /\ Running \in Activation
  BY RunningFits
<1>2. tpl <= TPL_HIGH_LEVEL
  BY <1>1 DEF Fits, AtLevel, Restoring
<1>3. CASE Running.pc = "Boot"
  <2>1. c \in Boots /\ tpl <= CheckTimerTpl
    BY <1>1, <1>3 DEF CallsOf, Fits, AtLevel
  <2> QED
    BY <1>2, <2>1, CallsAssumption
<1>4. CASE Running.pc = "Notify"
  <2>1. c \in Notifies[Running.ev] /\ Running.ev \in Events /\ tpl = Tpl[Running.ev]
    BY <1>1, <1>4 DEF CallsOf, Fits, AtLevel, AboutEvent
  <2> QED
    BY <1>2, <2>1, CallsAssumption, TplsOfEvents
<1>5. CASE Running.pc = "Raised"
  <2>1. c \in Boots /\ c.pc \in {"SignalEvent", "CheckEvent"}
    BY <1>5 DEF CallsOf
  <2> QED
    BY <1>2, <2>1, CallsAssumption
<1> QED
  BY <1>3, <1>4, <1>5

LEMMA CodeCallsStack ==
  ASSUME StackOK, CodeCalls
  PROVE  StackOK'
<1> USE DEF ReturnTpl, Saving, Notifying, Helping, Restoring, Dispatching, Setting, Checking,
        Holding
<1> DEFINE a == IF At("Boot") THEN Running ELSE [Running EXCEPT !.x = 1]
<1>1. Running.pc \in {"Boot", "Notify", "Raised"} /\ tpl' = tpl
  BY DEF CodeCalls, cpu
<1>2. PICK c \in CallsOf(Running) : MayCall(c) /\ stack' = <<c, a>> \o Callers
  BY DEF CodeCalls, CallThen
<1>3. /\ c \in ServiceCalls /\ tpl <= TPL_HIGH_LEVEL
      /\ c.pc \in {"SetTimer", "CloseEvent"} => tpl <= CheckTimerTpl
  BY <1>1, <1>2, CallsMade
<1>4. Fits(Running, tpl) /\ Running \in Activation /\ tpl \in Nat
  BY RunningFits DEF Fits
<1>5. /\ a.pc = Running.pc /\ a \in Activation /\ a.tpl = Running.tpl /\ a.ev = Running.ev
      /\ Running.tpl \in Nat
  BY <1>4 DEF Activation
<1>6. /\ c \in Activation
      /\ c.pc \in {"CreateEvent", "SignalEvent", "CloseEvent", "CheckEvent", "SetTimer", "RaiseTpl"}
      /\ c.pc = "SetTimer" => c.ev \in Timers
      /\ c.pc = "RaiseTpl" => c.x <= TPL_HIGH_LEVEL
  BY <1>3, CallFacts
<1>7. c.pc = "RaiseTpl" => tpl <= c.x
  BY <1>2, <1>4, <1>6 DEF MayCall, Activation
<1> HIDE DEF a
<1>8. Fits(a, tpl)
  BY <1>1, <1>4, <1>5 DEF Fits, AtLevel, AboutEvent
<1>9. Running.pc = "Raised" => Running.tpl <= tpl
  BY <1>4 DEF Fits, AtLevel
<1>10. Instead(a, tpl, Running, tpl) /\ Resumes(a) /\ a.pc # "CreateEvent"
  BY <1>1, <1>4, <1>5, <1>9 DEF Instead, Resumes
<1>11. Fits(c, tpl)
  BY <1>3, <1>4, <1>6, <1>7 DEF Fits, AtLevel, AboutEvent
<1>12. Atop(c, tpl, a, tpl)
  BY <1>1, <1>4, <1>5, <1>6 DEF Atop
<1>13. \A j \in DOMAIN stack :
         c.pc = "CreateEvent" /\ stack[j].pc = "CreateEvent" => c.ev # stack[j].ev
  BY <1>2 DEF MayCall
<1> QED
  BY <1>1, <1>2, <1>8, <1>10, <1>11, <1>12, <1>13, Called

\* The timer interrupt.
LEMMA TimerTickStack ==
  ASSUME StackOK, At("SignalList.next") => ~ints, CoreTimerTick
  PROVE  StackOK'
<1> USE DEF ReturnTpl, Saving, Notifying, Helping, Restoring, Dispatching, Setting, Checking,
        Holding
<1> DEFINE a == IF At("Asleep") THEN [Running EXCEPT !.pc = "CheckEvent"] ELSE Running
           f == Service("Iret", CheckTimerEvent)
           g == RestoreTplTo(tpl)
           s == <<a>> \o Callers
           t == <<f>> \o s
<1>1. /\ stack' = <<g, f, a>> \o Callers /\ tpl' = TPL_HIGH_LEVEL /\ ints
      /\ tpl <= TPL_HIGH_LEVEL
  BY DEF CoreTimerTick, RaiseTplLegal
<1>2. Fits(Running, tpl) /\ Running \in Activation /\ tpl \in Nat /\ Running.tpl \in Nat
  BY RunningFits DEF Fits, Activation
<1>3. Running.pc # "SignalList.next"
  BY <1>1 DEF At
<1>4. /\ a \in Activation /\ a.tpl = Running.tpl
      /\ Running.pc = "Asleep" => a.pc = "CheckEvent"
      /\ Running.pc # "Asleep" => a = Running
  BY <1>2 DEF At, Activation, Labels
<1>5. f \in Activation /\ f.pc = "Iret"
  BY TplsOfEvents DEF Service, Act, Activation, Labels
<1>6. g \in Activation /\ g.pc = "RestoreTpl" /\ g.tpl = tpl
  BY <1>2, TplsOfEvents DEF RestoreTplTo, Act, Activation, Labels
<1> HIDE DEF a, f, g
<1>7. Fits(a, tpl)
  BY <1>1, <1>2, <1>4 DEF Fits, AtLevel, AboutEvent
<1>8. ReturnTpl(Running, tpl) <= tpl
  BY <1>2, TplsOfEvents DEF Fits, AtLevel
<1>9. Instead(a, tpl, Running, tpl)
  BY <1>1, <1>2, <1>4, <1>8 DEF Instead
<1>10. Resumes(a)
  BY <1>3, <1>4 DEF Resumes
<1>11. PICK lv \in Seq(Nat) : Nested(stack, lv) /\ lv[1] = tpl
  BY DEF StackOK
<1> DEFINE lw == <<tpl>> \o Tail(lv)
           lx == <<tpl>> \o lw
           ly == <<TPL_HIGH_LEVEL>> \o lx
<1>12. Nested(s, lw) /\ lw[1] = tpl
  BY <1>7, <1>9, <1>11, Replaced DEF Running, Callers, StackOK
<1>13. s \in Seq(Activation) /\ s # <<>> /\ s[1] = a
  BY <1>4, RunningFits, OnTop
<1>14. t \in Seq(Activation) /\ t # <<>> /\ t[1] = f
  <2> HIDE DEF s
  <2> QED
    BY <1>5, <1>13, OnTop
<1>15. stack' = <<g>> \o t
  <2>1. Callers \in Seq(Activation)
    BY RunningFits
  <2>0. a \in Activation /\ f \in Activation /\ g \in Activation
    BY <1>4, <1>5, <1>6
  <2>2. <<g, f, a>> \o Callers = <<g>> \o (<<f>> \o (<<a>> \o Callers))
    BY ONLY <2>0, <2>1, ThreeOnTop
  <2> QED
    BY <1>1, <2>2
<1>16. s[Len(s)].pc = "Boot"
  BY <1>4, <1>9, RunningFits, BottomReplaced DEF StackOK, Callers, Running, Instead
<1> HIDE DEF s, lw
<1>17. t[Len(t)].pc = "Boot"
  BY <1>5, <1>13, <1>16, BottomOnTop
<1>18. Nested(t, lx) /\ lx[1] = tpl
  <2>1. Fits(f, tpl)
    BY <1>1, <1>2, <1>5 DEF Fits, AtLevel, AboutEvent
  <2>2. Atop(f, tpl, s[1], lw[1]) /\ Resumes(s[1])
    <3>1. a.pc = "Dispatch" => a.tpl <= TPL_HIGH_LEVEL
      BY <1>1, <1>7 DEF Fits, AtLevel
    <3> QED
      BY <1>2, <1>5, <1>10, <1>12, <1>13, <3>1 DEF Atop
  <2>3. \A j \in 1 .. Len(s) : f.pc = "CreateEvent" /\ s[j].pc = "CreateEvent" => f.ev # s[j].ev
    BY <1>5
  <2>4. Nested(s, lw) /\ s # <<>>
    BY <1>12, <1>13
  <2> QED
    BY ONLY <2>1, <2>2, <2>3, <2>4, Laid
<1> HIDE DEF t, lx
<1>19. Nested(<<g>> \o t, ly) /\ ly[1] = TPL_HIGH_LEVEL
  <2>1. Fits(g, TPL_HIGH_LEVEL)
    BY <1>1, <1>2, <1>6, TplsOfEvents DEF Fits, AtLevel, AboutEvent
  <2>2. Atop(g, TPL_HIGH_LEVEL, t[1], lx[1]) /\ Resumes(t[1])
    BY <1>1, <1>5, <1>6, <1>14, <1>18 DEF Atop, Resumes
  <2>3. \A j \in 1 .. Len(t) : g.pc = "CreateEvent" /\ t[j].pc = "CreateEvent" => g.ev # t[j].ev
    BY <1>6
  <2>4. Nested(t, lx) /\ t # <<>>
    BY <1>14, <1>18
  <2> QED
    BY ONLY <2>1, <2>2, <2>3, <2>4, Laid
<1>20. stack' # <<>>
  BY <1>6, <1>14, <1>15, OnTop
<1>21. stack'[Len(stack')].pc = "Boot"
  BY <1>6, <1>14, <1>15, <1>17, BottomOnTop
<1>22. ly \in Seq(Nat)
  BY <1>19 DEF Nested
<1> HIDE DEF ly
<1> QED
  BY <1>1, <1>15, <1>19, <1>20, <1>21, <1>22 DEF StackOK

----------------------------------------------------------------------------
(* Lists in which everything is linked once.                               *)

\* RemoveEntryList.
LEMMA RemovedOnce ==
  ASSUME NEW S, NEW s \in Seq(S), IsInjective(s), NEW e
  PROVE  /\ RemoveFirst(s, e) \in Seq(S) /\ IsInjective(RemoveFirst(s, e))
         /\ ToSet(RemoveFirst(s, e)) = ToSet(s) \ {e}
<1> DEFINE l == Len(s)
<1>1. l \in Nat /\ DOMAIN s = 1 .. l
  OBVIOUS
<1>2. CASE ~ \E i \in 1 .. l : s[i] = e
  <2>1. RemoveFirst(s, e) = s
    BY <1>2 DEF RemoveFirst
  <2>2. e \notin ToSet(s)
    BY <1>1, <1>2 DEF ToSet
  <2> QED
    BY <2>1, <2>2
<1>3. CASE \E i \in 1 .. l : s[i] = e
  <2>1. PICK m \in 1 .. l : s[m] = e
    BY <1>3
  <2>2. \A j \in 1 .. l : s[j] = e => j = m
    BY <2>1, <1>1 DEF IsInjective
  <2> DEFINE I == {i \in 1 .. l : s[i] = e}
  <2>3. I = {m}
    BY <2>1, <2>2
  <2>4. RemoveFirst(s, e) = RemoveAt(s, Min(I))
    BY <1>3 DEF RemoveFirst, SelectInSeq
  <2>5. Min(I) = m
    <3>1. I \subseteq Nat /\ I # {}
      BY <2>3
    <3> HIDE DEF I
    <3>2. Min(I) \in I
      BY <3>1, MinOfSet
    <3> QED
      BY <3>2, <2>3
  <2> DEFINE w == CutAt(s, m)
  <2>6. RemoveFirst(s, e) = w
    BY <2>4, <2>5 DEF RemoveAt, CutAt
  <2>7. /\ w \in Seq(S) /\ Len(w) = l - 1
        /\ \A j \in 1 .. m - 1 : w[j] = s[j]
        /\ \A j \in m .. l - 1 : w[j] = s[j + 1]
    BY CutAtEntries
  <2> HIDE DEF w, I
  <2>8. DOMAIN w = 1 .. l - 1 /\ m \in Nat
    BY <2>7, <1>1
  <2>9. ASSUME NEW j \in 1 .. l - 1
        PROVE  \E i \in 1 .. l : i # m /\ w[j] = s[i] /\ (j < m => i = j) /\ (j >= m => i = j + 1)
    <3>1. CASE j < m
      <4>1. j \in 1 .. m - 1 /\ j \in 1 .. l /\ j # m /\ ~(j >= m)
        BY <3>1, <1>1, <2>8
      <4> QED
        BY <4>1, <2>7
    <3>2. CASE j >= m
      <4>1. j \in m .. l - 1 /\ j + 1 \in 1 .. l /\ j + 1 # m /\ ~(j < m)
        BY <3>2, <1>1, <2>8
      <4> QED
        BY <4>1, <2>7
    <3> QED
      BY <3>1, <3>2, <2>8
  <2>10. ASSUME NEW j \in 1 .. l - 1, NEW k \in 1 .. l - 1, w[j] = w[k] PROVE j = k
    <3>1. PICK i \in 1 .. l : w[j] = s[i] /\ (j < m => i = j) /\ (j >= m => i = j + 1)
      BY <2>9
    <3>2. PICK h \in 1 .. l : w[k] = s[h] /\ (k < m => h = k) /\ (k >= m => h = k + 1)
      BY <2>9
    <3>3. i = h
      BY <2>10, <3>1, <3>2, <1>1 DEF IsInjective
    <3> QED
      BY <3>1, <3>2, <3>3, <2>8
  <2>11. IsInjective(w)
    BY <2>8, <2>10 DEF IsInjective
  <2>12. ASSUME NEW y \in ToSet(w) PROVE y \in ToSet(s) \ {e}
    <3>1. PICK j \in 1 .. l - 1 : y = w[j]
      BY <2>8, <2>12 DEF ToSet
    <3>2. PICK i \in 1 .. l : i # m /\ w[j] = s[i]
      BY <2>9
    <3> QED
      BY <3>1, <3>2, <2>2, <1>1 DEF ToSet
  <2>13. ASSUME NEW y \in ToSet(s) \ {e} PROVE y \in ToSet(w)
    <3>1. PICK i \in 1 .. l : y = s[i]
      BY <1>1 DEF ToSet
    <3>2. i # m
      BY <3>1, <2>1, <2>13
    <3>3. CASE i < m
      <4>1. i \in 1 .. m - 1 /\ i \in 1 .. l - 1
        BY <3>3, <2>8, <1>1
      <4> QED
        BY <4>1, <3>1, <2>7, <2>8 DEF ToSet
    <3>4. CASE i > m
      <4>1. i - 1 \in m .. l - 1 /\ i - 1 \in 1 .. l - 1 /\ (i - 1) + 1 = i
        BY <3>4, <2>8, <1>1
      <4>2. w[i - 1] = s[i]
        BY <4>1, <2>7
      <4> QED
        BY <4>1, <4>2, <3>1, <2>8 DEF ToSet
    <3> QED
      BY <3>2, <3>3, <3>4, <2>8
  <2>14. ToSet(w) = ToSet(s) \ {e}
    BY <2>12, <2>13
  <2> QED
    BY <2>6, <2>7, <2>11, <2>14
<1> QED
  BY <1>2, <1>3

\* An entry e is put at place m, before the first, before another or behind the
\* last one.
PutAt(s, m, e, t) ==
  /\ Len(t) = Len(s) + 1 /\ m \in 1 .. Len(s) + 1 /\ t[m] = e
  /\ \A j \in 1 .. m - 1 : t[j] = s[j]
  /\ \A j \in m + 1 .. Len(s) + 1 : t[j] = s[j - 1]

LEMMA PutOnce ==
  ASSUME NEW S, NEW s \in Seq(S), IsInjective(s), NEW e \in S, e \notin ToSet(s), NEW m,
         NEW t \in Seq(S), PutAt(s, m, e, t)
  PROVE  IsInjective(t) /\ ToSet(t) = ToSet(s) \cup {e}
<1> DEFINE l == Len(s)
<1>1. /\ l \in Nat /\ DOMAIN s = 1 .. l /\ DOMAIN t = 1 .. l + 1 /\ m \in 1 .. l + 1 /\ t[m] = e
      /\ m \in Nat
  BY DEF PutAt
<1>2. ASSUME NEW j \in 1 .. l + 1, j # m
      PROVE  \E i \in 1 .. l : t[j] = s[i] /\ (j < m => i = j) /\ (j > m => i = j - 1)
  <2>1. CASE j < m
    <3>1. j \in 1 .. m - 1 /\ j \in 1 .. l /\ ~(j > m)
      BY <2>1, <1>1
    <3> QED
      BY <3>1 DEF PutAt
  <2>2. CASE j > m
    <3>1. j \in m + 1 .. l + 1 /\ j - 1 \in 1 .. l /\ ~(j < m)
      BY <2>2, <1>1
    <3> QED
      BY <3>1 DEF PutAt
  <2> QED
    BY <1>1, <1>2, <2>1, <2>2
<1>3. \A i \in 1 .. l : s[i] # e
  BY <1>1 DEF ToSet
<1>4. ASSUME NEW j \in 1 .. l + 1, NEW k \in 1 .. l + 1, t[j] = t[k] PROVE j = k
  <2>1. CASE j = m \/ k = m
    <3>1. t[j] = e /\ t[k] = e
      BY <1>1, <1>4, <2>1
    <3>2. j = m
      BY <3>1, <1>2, <1>3
    <3>3. k = m
      BY <3>1, <1>2, <1>3
    <3> QED
      BY <3>2, <3>3
  <2>2. CASE j # m /\ k # m
    <3>1. PICK i \in 1 .. l : t[j] = s[i] /\ (j < m => i = j) /\ (j > m => i = j - 1)
      BY <1>2, <2>2
    <3>2. PICK h \in 1 .. l : t[k] = s[h] /\ (k < m => h = k) /\ (k > m => h = k - 1)
      BY <1>2, <2>2
    <3>3. i = h
      BY <1>4, <3>1, <3>2, <1>1 DEF IsInjective
    <3> QED
      BY <3>1, <3>2, <3>3, <2>2, <1>1
  <2> QED
    BY <2>1, <2>2
<1>5. IsInjective(t)
  BY <1>1, <1>4 DEF IsInjective
<1>6. ASSUME NEW y \in ToSet(t) PROVE y \in ToSet(s) \cup {e}
  <2>1. PICK j \in 1 .. l + 1 : y = t[j]
    BY <1>1, <1>6 DEF ToSet
  <2> QED
    BY <2>1, <1>1, <1>2 DEF ToSet
<1>7. e \in ToSet(t)
  BY <1>1 DEF ToSet
<1>8. ASSUME NEW y \in ToSet(s) PROVE y \in ToSet(t)
  <2>1. PICK i \in 1 .. l : y = s[i]
    BY <1>1, <1>8 DEF ToSet
  <2>2. CASE i < m
    <3>1. i \in 1 .. m - 1 /\ i \in 1 .. l + 1
      BY <2>2, <1>1
    <3> QED
      BY <3>1, <2>1, <1>1 DEF PutAt, ToSet
  <2>3. CASE i >= m
    <3>1. i + 1 \in m + 1 .. l + 1 /\ i + 1 \in 1 .. l + 1 /\ (i + 1) - 1 = i
      BY <2>3, <1>1
    <3>2. t[i + 1] = s[i]
      BY <3>1 DEF PutAt
    <3> QED
      BY <3>1, <3>2, <2>1, <1>1 DEF ToSet
  <2> QED
    BY <2>2, <2>3, <1>1
<1> QED
  BY <1>5, <1>6, <1>7, <1>8

\* InsertTailList, InsertHeadList, and the insertion before another entry.
LEMMA AppendedOnce ==
  ASSUME NEW S, NEW s \in Seq(S), IsInjective(s), NEW e \in S, e \notin ToSet(s)
  PROVE  Append(s, e) \in Seq(S) /\ IsInjective(Append(s, e)) /\ ToSet(Append(s, e)) = ToSet(s) \cup {e}
<1> DEFINE t == Append(s, e)
<1>1. /\ t \in Seq(S) /\ Len(t) = Len(s) + 1 /\ Len(s) \in Nat
      /\ \A i \in 1 .. Len(s) : t[i] = s[i] /\ t[Len(s) + 1] = e
  BY AppendProperties
<1>2. t[Len(s) + 1] = e
  BY AppendProperties
<1> HIDE DEF t
<1>3. PutAt(s, Len(s) + 1, e, t)
  BY <1>1, <1>2 DEF PutAt
<1>4. IsInjective(t) /\ ToSet(t) = ToSet(s) \cup {e}
  BY <1>1, <1>3, PutOnce
<1> QED
  BY <1>1, <1>4 DEF t

LEMMA OnTopOnce ==
  ASSUME NEW S, NEW s \in Seq(S), IsInjective(s), NEW e \in S, e \notin ToSet(s)
  PROVE  <<e>> \o s \in Seq(S) /\ IsInjective(<<e>> \o s) /\ ToSet(<<e>> \o s) = ToSet(s) \cup {e}
<1> DEFINE t == <<e>> \o s
<1>1. /\ t \in Seq(S) /\ Len(t) = Len(s) + 1 /\ t[1] = e /\ Len(s) \in Nat
      /\ \A i \in 2 .. Len(s) + 1 : t[i] = s[i - 1]
  BY OnTop
<1> HIDE DEF t
<1>2. PutAt(s, 1, e, t)
  <2>1. 1 \in 1 .. Len(s) + 1 /\ 1 - 1 = 0 /\ 1 + 1 = 2
    BY <1>1
  <2> QED
    BY <1>1, <2>1 DEF PutAt
<1>3. IsInjective(t) /\ ToSet(t) = ToSet(s) \cup {e}
  BY <1>1, <1>2, PutOnce
<1> QED
  BY <1>1, <1>3 DEF t

LEMMA InsertedOnce ==
  ASSUME NEW S, NEW s \in Seq(S), IsInjective(s), NEW e \in S, e \notin ToSet(s),
         NEW m \in 1 .. Len(s)
  PROVE  /\ InsertAt(s, m, e) \in Seq(S) /\ IsInjective(InsertAt(s, m, e))
         /\ ToSet(InsertAt(s, m, e)) = ToSet(s) \cup {e}
<1> DEFINE l == Len(s)
           a == SubSeq(s, 1, m - 1)
           b == SubSeq(s, m, Len(s))
           c == a \o <<e>>
           t == c \o b
<1>1. l \in Nat /\ m \in Nat /\ 1 <= m /\ m <= l /\ \A i \in 1 .. l : s[i] \in S
  OBVIOUS
<1>2. a \in Seq(S) /\ Len(a) = m - 1 /\ \A j \in 1 .. m - 1 : a[j] = s[j]
  <2>1. m - 1 \in 0 .. Len(s)
    BY <1>1
  <2> QED
    BY <2>1, PrefixEntries
<1>3. b \in Seq(S) /\ Len(b) = l - m + 1 /\ \A j \in 1 .. l - m + 1 : b[j] = s[m + j - 1]
  <2>1. \A i \in m .. l : s[i] \in S
    BY <1>1
  <2> QED
    BY <1>1, <2>1, SubSeqProperties
<1>4. <<e>> \in Seq(S) /\ Len(<<e>>) = 1 /\ <<e>>[1] = e
  OBVIOUS
<1>5. /\ c \in Seq(S) /\ Len(c) = Len(a) + 1
      /\ \A j \in 1 .. Len(a) + 1 : c[j] = IF j <= Len(a) THEN a[j] ELSE <<e>>[j - Len(a)]
  <2> HIDE DEF a
  <2>1. /\ c \in Seq(S) /\ Len(c) = Len(a) + Len(<<e>>)
        /\ \A j \in 1 .. Len(a) + Len(<<e>>) :
             c[j] = IF j <= Len(a) THEN a[j] ELSE <<e>>[j - Len(a)]
    BY <1>2, <1>4, ConcatProperties
  <2> QED
    BY <2>1, <1>4
<1> HIDE DEF a, b
<1>6. Len(c) = m /\ c[m] = e /\ \A j \in 1 .. m - 1 : c[j] = s[j]
  <2>1. Len(c) = m /\ m \in 1 .. Len(a) + 1 /\ ~(m <= Len(a)) /\ m - Len(a) = 1
    BY <1>1, <1>2, <1>5
  <2>2. c[m] = e
    BY <2>1, <1>4, <1>5
  <2>3. ASSUME NEW j \in 1 .. m - 1 PROVE c[j] = s[j]
    <3>1. j \in 1 .. Len(a) + 1 /\ j <= Len(a)
      BY <1>1, <1>2
    <3> QED
      BY <3>1, <1>2, <1>5
  <2> QED
    BY <2>1, <2>2, <2>3
<1>7. c \in Seq(S)
  BY <1>5
<1> HIDE DEF c
<1>8. /\ t \in Seq(S) /\ Len(t) = Len(c) + Len(b)
      /\ \A j \in 1 .. Len(c) + Len(b) : t[j] = IF j <= Len(c) THEN c[j] ELSE b[j - Len(c)]
  BY <1>3, <1>7, ConcatProperties
<1> HIDE DEF t
<1>9. Len(t) = l + 1
  BY <1>1, <1>3, <1>6, <1>8
<1>10. ASSUME NEW j \in 1 .. m PROVE t[j] = c[j]
  <2>1. j \in 1 .. Len(c) + Len(b) /\ j <= Len(c)
    BY <1>1, <1>3, <1>6
  <2> QED
    BY <2>1, <1>8
<1>11. ASSUME NEW j \in m + 1 .. l + 1 PROVE t[j] = s[j - 1]
  <2>1. j \in 1 .. Len(c) + Len(b) /\ ~(j <= Len(c)) /\ j - Len(c) = j - m
    BY <1>1, <1>3, <1>6
  <2>2. j - m \in 1 .. l - m + 1 /\ m + (j - m) - 1 = j - 1
    BY <1>1
  <2>3. t[j] = b[j - m]
    BY <2>1, <1>8
  <2>4. b[j - m] = s[m + (j - m) - 1]
    BY <2>2, <1>3
  <2> QED
    BY <2>2, <2>3, <2>4
<1>12. PutAt(s, m, e, t)
  <2>1. m \in 1 .. Len(s) + 1 /\ m \in 1 .. m
    BY <1>1
  <2>2. t[m] = e
    BY <2>1, <1>6, <1>10
  <2>3. \A j \in 1 .. m - 1 : t[j] = s[j]
    BY <1>1, <1>6, <1>10
  <2> QED
    BY <2>1, <2>2, <2>3, <1>9, <1>11 DEF PutAt
<1>13. IsInjective(t) /\ ToSet(t) = ToSet(s) \cup {e}
  BY <1>8, <1>12, PutOnce
<1>14. InsertAt(s, m, e) = t
  BY DEF InsertAt, t, c, a, b
<1> QED
  BY <1>8, <1>13, <1>14

\* The first entry is taken off.
LEMMA TailOnce ==
  ASSUME NEW S, NEW s \in Seq(S), IsInjective(s), s # <<>>
  PROVE  /\ Tail(s) \in Seq(S) /\ IsInjective(Tail(s))
         /\ ToSet(Tail(s)) = ToSet(s) \ {Head(s)} /\ Head(s) \in ToSet(s)
<1> DEFINE t == Tail(s)
           l == Len(s)
<1>1. t \in Seq(S) /\ l \in Nat \ {0} /\ Len(t) = l - 1 /\ \A i \in 1 .. l - 1 : t[i] = s[i + 1]
  BY UnderTop
<1>2. Head(s) = s[1] /\ DOMAIN s = 1 .. l
  OBVIOUS
<1> HIDE DEF t
<1>3. DOMAIN t = 1 .. l - 1 /\ 1 \in 1 .. l
  BY <1>1
<1>4. ASSUME NEW j \in 1 .. l - 1, NEW k \in 1 .. l - 1, t[j] = t[k] PROVE j = k
  <2>1. j + 1 \in 1 .. l /\ k + 1 \in 1 .. l /\ s[j + 1] = s[k + 1]
    BY <1>1, <1>4
  <2>2. j + 1 = k + 1
    BY <2>1, <1>2 DEF IsInjective
  <2> QED
    BY <2>2, <1>1
<1>5. ASSUME NEW y \in ToSet(t) PROVE y \in ToSet(s) \ {Head(s)}
  <2>1. PICK j \in 1 .. l - 1 : y = t[j]
    BY <1>3, <1>5 DEF ToSet
  <2>2. j + 1 \in 1 .. l /\ j + 1 # 1 /\ y = s[j + 1]
    BY <2>1, <1>1
  <2>3. s[j + 1] # s[1]
    BY <2>2, <1>2, <1>3 DEF IsInjective
  <2> QED
    BY <2>2, <2>3, <1>2 DEF ToSet
<1>6. ASSUME NEW y \in ToSet(s) \ {Head(s)} PROVE y \in ToSet(t)
  <2>1. PICK i \in 1 .. l : y = s[i]
    BY <1>2 DEF ToSet
  <2>2. i # 1
    BY <2>1, <1>2
  <2>3. i - 1 \in 1 .. l - 1 /\ (i - 1) + 1 = i
    BY <2>1, <2>2, <1>1
  <2>4. t[i - 1] = y
    BY <2>1, <2>3, <1>1
  <2> QED
    BY <2>3, <2>4, <1>3 DEF ToSet
<1>7. IsInjective(t) /\ ToSet(t) = ToSet(s) \ {Head(s)}
  BY <1>3, <1>4, <1>5, <1>6 DEF IsInjective
<1> QED
  BY <1>1, <1>2, <1>3, <1>7 DEF t, ToSet

=============================================================================
