--------------------------- MODULE HandleDbProofs ---------------------------
(***************************************************************************)
(* Theorems about the handle database, for any number of handles,          *)
(* protocols, agents and registrations, and calls nested to any depth.     *)
(***************************************************************************)
EXTENDS HandleDb, ListLemmas, FiniteSetTheorems

(***************************************************************************)
(* Types.  A frame that stops a driver names an interface that has been    *)
(* allocated, an exclusive open wants exclusive access, and a removal or   *)
(* replacement has a pointer to find or to put there.                      *)
(***************************************************************************)
Entries == [handle : Handles \cup {"none"}, protocol : Protocols \cup {"none"},
            interface : Interfaces \cup {"none"}]
Gaps == [op : {"install"}, phase : {"gap"}, handle : Handles, protocol : Protocols,
         known : BOOLEAN]
Stops == [op : {"open", "uninstall", "reinstall"}, phase : {"stop"}, prot : Nat,
          interface : Interfaces, driver : Opens, stopped : BOOLEAN,
          want : Opens \cup Interfaces]
Connects == [op : {"denied", "reinstall"}, phase : {"connect"},
             protocol : Protocols \cup {"none"}]
Frames == Gaps \cup Stops \cup Connects

FrameOK(f, n) ==
  InStop(f) => /\ f.prot \in 1 .. n
               /\ f.op = "open" => f.want \in Opens /\ Exclusive(f.want)
               /\ f.op # "open" => f.want \in Interfaces
StackOK(s, n) == s \in Seq(Frames) /\ \A k \in DOMAIN s : FrameOK(s[k], n)

DbTypes ==
  /\ prots \in Seq(Entries)
  /\ live \subseteq 1 .. Len(prots)
  /\ \A i \in live : /\ prots[i].handle \in Handles
                     /\ prots[i].protocol \in Protocols
                     /\ prots[i].interface \in Interfaces
  /\ byProtocol \in [Protocols -> Seq(Nat \ {0})]
  /\ openList \in Seq(SUBSET Opens) /\ Len(openList) = Len(prots)
RegTypes ==
  /\ notify \in [Regs -> [protocol : Protocols \cup {"none"}, position : Nat]]
  /\ signalled \in [Regs -> BOOLEAN] /\ running \in [Regs -> BOOLEAN]
  /\ seen \in [Regs -> SUBSET Nat]
Types == DbTypes /\ RegTypes /\ StackOK(stack, Len(prots))

----------------------------------------------------------------------------
(* The stack.                                                              *)

\* Allocating more interfaces leaves the frames as they should be.
LEMMA StackGrows ==
  ASSUME NEW s, NEW n \in Nat, NEW m \in Nat, n <= m, StackOK(s, n)
  PROVE  StackOK(s, m)
BY DEF StackOK, FrameOK

\* A call that releases the lock adds its frame.
LEMMA StackPush ==
  ASSUME NEW s, NEW n \in Nat, StackOK(s, n), NEW f \in Frames, FrameOK(f, n)
  PROVE  StackOK(Append(s, f), n)
<1>1. s \in Seq(Frames) /\ Append(s, f) \in Seq(Frames)
  BY AppendProperties DEF StackOK
<1>2. ASSUME NEW k \in DOMAIN Append(s, f) PROVE FrameOK(Append(s, f)[k], n)
  <2>1. CASE k \in DOMAIN s
    <3>1. Append(s, f)[k] = s[k]
      BY <1>1, <2>1
    <3> QED
      BY <2>1, <3>1 DEF StackOK
  <2>2. CASE k \notin DOMAIN s
    <3>1. Append(s, f)[k] = f
      BY <1>1, <2>2
    <3> QED
      BY <3>1
  <2> QED
    BY <2>1, <2>2
<1> QED
  BY <1>1, <1>2 DEF StackOK

\* The frames under the one that runs, and that one.
LEMMA StackPop ==
  ASSUME NEW n \in Nat, StackOK(stack, n), stack # <<>>
  PROVE  /\ StackOK(Under, n) /\ Top \in Frames /\ FrameOK(Top, n)
         /\ Len(stack) \in Nat \ {0} /\ Len(Under) = Len(stack) - 1
         /\ \A k \in DOMAIN Under : k \in DOMAIN stack /\ Under[k] = stack[k]
<1>1. stack \in Seq(Frames) /\ Len(stack) \in Nat \ {0} /\ DOMAIN stack = 1 .. Len(stack)
  BY DEF StackOK
<1>2. Len(stack) \in DOMAIN stack
  BY <1>1
<1>3. /\ Under \in Seq(Frames)
      /\ Len(Under) = Len(stack) - 1
      /\ \A k \in 1 .. Len(stack) - 1 : Under[k] = stack[k]
  BY <1>1, SubSeqProperties DEF Under
<1>4. Top \in Frames /\ FrameOK(Top, n)
  BY <1>1, <1>2 DEF StackOK, Top
<1>5. \A k \in DOMAIN Under : k \in DOMAIN stack /\ Under[k] = stack[k]
  BY <1>1, <1>3
<1>6. StackOK(Under, n)
  BY <1>3, <1>5 DEF StackOK
<1> QED
  BY <1>1, <1>3, <1>4, <1>5, <1>6

\* The frame that runs changes.
LEMMA StackReplace ==
  ASSUME NEW n \in Nat, StackOK(stack, n), stack # <<>>, NEW f \in Frames, FrameOK(f, n)
  PROVE  StackOK([stack EXCEPT ![Len(stack)] = f], n)
<1> DEFINE s == [stack EXCEPT ![Len(stack)] = f]
<1>1. stack \in Seq(Frames) /\ Len(stack) \in DOMAIN stack
  BY DEF StackOK
<1>2. s \in Seq(Frames) /\ DOMAIN s = DOMAIN stack
  BY <1>1, ExceptSeq
<1>3. ASSUME NEW k \in DOMAIN s PROVE FrameOK(s[k], n)
  BY <1>1, <1>2, <1>3 DEF StackOK
<1> QED
  BY <1>2, <1>3 DEF StackOK

\* A frame's phase says what it is.
LEMMA FrameKinds ==
  ASSUME NEW f \in Frames
  PROVE  /\ f.phase = "gap" => f \in Gaps
         /\ f.phase = "stop" => f \in Stops
         /\ f.phase = "connect" => f \in Connects
BY DEF Frames, Gaps, Stops, Connects

\* The frames that calls add.
LEMMA StoppingFrame ==
  ASSUME NEW op \in {"open", "uninstall", "reinstall"}, NEW i \in Nat, NEW ptr \in Interfaces,
         NEW o \in Opens, NEW want \in Opens \cup Interfaces
  PROVE  /\ Stopping(op, i, ptr, o, want) \in Frames
         /\ InStop(Stopping(op, i, ptr, o, want))
BY DEF Stopping, Frames, Stops, InStop

LEMMA ConnectingFrame ==
  ASSUME NEW op \in {"denied", "reinstall"}, NEW p \in Protocols \cup {"none"}
  PROVE  Connecting(op, p) \in Frames /\ ~InStop(Connecting(op, p))
BY DEF Connecting, Frames, Connects, InStop

\* A call goes on with the next driver, or has stopped one.
LEMMA StopGoesOn ==
  ASSUME NEW f \in Stops, NEW o \in Opens, NEW n \in Nat, FrameOK(f, n)
  PROVE  /\ [f EXCEPT !.driver = o, !.stopped = FALSE] \in Frames
         /\ [f EXCEPT !.stopped = TRUE] \in Frames
         /\ FrameOK([f EXCEPT !.driver = o, !.stopped = FALSE], n)
         /\ FrameOK([f EXCEPT !.stopped = TRUE], n)
BY DEF Frames, Stops, FrameOK, InStop

----------------------------------------------------------------------------
(* The list of a protocol, as a registration walks it: what it has been    *)
(* given when it is at place n, and the Position that stands for it.       *)

Elems(s) == {s[k] : k \in DOMAIN s}
Given(s, n) == {s[k] : k \in 1 .. n}
PosAt(s, n) == IF n = 0 THEN Head0 ELSE s[n]

\* An interface is found at its place.
LEMMA PlaceInList ==
  ASSUME NEW s \in Seq(Nat \ {0}), Injective(s), NEW m \in DOMAIN s
  PROVE  IndexOf(s, s[m]) = m
BY DEF IndexOf, Injective

\* RemoveEntryList: the interfaces behind the one removed move up.
LEMMA RemovedFromList ==
  ASSUME NEW s \in Seq(Nat \ {0}), Injective(s), NEW m \in 1 .. Len(s)
  PROVE  /\ Without(s, s[m]) \in Seq(Nat \ {0})
         /\ Len(Without(s, s[m])) = Len(s) - 1
         /\ \A j \in 1 .. m - 1 : Without(s, s[m])[j] = s[j]
         /\ \A j \in m .. Len(s) - 1 : Without(s, s[m])[j] = s[j + 1]
<1>1. IndexOf(s, s[m]) = m
  BY PlaceInList
<1>2. Without(s, s[m]) = CutAt(s, m)
  BY <1>1 DEF Without, CutAt
<1> QED
  BY <1>2, CutAtEntries

\* What is left is in the list once.
LEMMA RemovedMembers ==
  ASSUME NEW s \in Seq(Nat \ {0}), Injective(s), NEW m \in 1 .. Len(s)
  PROVE  /\ Injective(Without(s, s[m]))
         /\ Elems(Without(s, s[m])) = Elems(s) \ {s[m]}
<1> DEFINE w == Without(s, s[m])
           l == Len(s)
<1>1. l \in Nat /\ m \in Nat /\ 1 <= m /\ m <= l /\ DOMAIN s = 1 .. l
  OBVIOUS
<1>2. w \in Seq(Nat \ {0}) /\ Len(w) = l - 1
  BY RemovedFromList
<1>3. /\ \A j \in 1 .. m - 1 : w[j] = s[j]
      /\ \A j \in m .. l - 1 : w[j] = s[j + 1]
  BY RemovedFromList
<1>4. DOMAIN w = 1 .. l - 1
  BY <1>2
<1>5. \A j, k \in 1 .. l : s[j] = s[k] => j = k
  BY <1>1 DEF Injective
<1> HIDE DEF w, l
<1>6. ASSUME NEW j \in 1 .. l - 1, NEW k \in 1 .. l - 1, w[j] = w[k] PROVE j = k
  <2>1. CASE j < m /\ k < m
    <3>1. j \in 1 .. m - 1 /\ k \in 1 .. m - 1 /\ j \in 1 .. l /\ k \in 1 .. l
      BY <1>1, <2>1
    <3> QED
      BY <1>3, <1>5, <1>6, <3>1
  <2>2. CASE j >= m /\ k >= m
    <3>1. j \in m .. l - 1 /\ k \in m .. l - 1 /\ j + 1 \in 1 .. l /\ k + 1 \in 1 .. l
      BY <1>1, <2>2
    <3>2. j + 1 = k + 1
      BY <1>3, <1>5, <1>6, <3>1
    <3> QED
      BY <3>2
  <2>3. CASE j < m /\ k >= m
    <3>1. j \in 1 .. m - 1 /\ k \in m .. l - 1 /\ j \in 1 .. l /\ k + 1 \in 1 .. l
      BY <1>1, <2>3
    <3>2. j = k + 1
      BY <1>3, <1>5, <1>6, <3>1
    <3> QED
      BY <1>1, <2>3, <3>2
  <2>4. CASE j >= m /\ k < m
    <3>1. k \in 1 .. m - 1 /\ j \in m .. l - 1 /\ k \in 1 .. l /\ j + 1 \in 1 .. l
      BY <1>1, <2>4
    <3>2. j + 1 = k
      BY <1>3, <1>5, <1>6, <3>1
    <3> QED
      BY <1>1, <2>4, <3>2
  <2> QED
    BY <1>1, <2>1, <2>2, <2>3, <2>4
<1>7. Injective(w)
  BY <1>4, <1>6 DEF Injective
<1>8. ASSUME NEW k \in 1 .. l - 1 PROVE \E j \in 1 .. l : w[k] = s[j] /\ j # m
  <2>1. CASE k < m
    BY <1>1, <1>3, <2>1
  <2>2. CASE k >= m
    <3>1. k \in m .. l - 1 /\ k + 1 \in 1 .. l /\ k + 1 # m
      BY <1>1, <2>2
    <3> QED
      BY <1>3, <3>1
  <2> QED
    BY <1>1, <2>1, <2>2
<1>9. ASSUME NEW k \in 1 .. l, s[k] # s[m] PROVE \E j \in 1 .. l - 1 : w[j] = s[k]
  <2>1. CASE k < m
    BY <1>1, <1>3, <2>1
  <2>2. CASE k > m
    <3>1. k - 1 \in m .. l - 1 /\ k - 1 \in 1 .. l - 1 /\ (k - 1) + 1 = k
      BY <1>1, <2>2
    <3>2. w[k - 1] = s[k]
      BY <1>3, <3>1
    <3> QED
      BY <3>1, <3>2
  <2> QED
    BY <1>1, <1>9, <2>1, <2>2
<1>10. Elems(w) = Elems(s) \ {s[m]}
  <2>1. ASSUME NEW k \in DOMAIN w PROVE w[k] \in Elems(s) \ {s[m]}
    <3>1. PICK j \in 1 .. l : w[k] = s[j] /\ j # m
      BY <1>4, <1>8
    <3>2. s[j] # s[m]
      BY <1>1, <1>5, <3>1
    <3> QED
      BY <1>1, <3>1, <3>2 DEF Elems
  <2>2. ASSUME NEW k \in DOMAIN s, s[k] # s[m] PROVE s[k] \in Elems(w)
    BY <1>1, <1>4, <1>9, <2>2 DEF Elems
  <2> QED
    BY <2>1, <2>2 DEF Elems
<1> QED
  BY <1>7, <1>10 DEF w

\* CoreRemoveInterfaceFromProtocol: a Position on the interface that is
\* removed backs up, and every registration is then where it was but for that
\* interface.
LEMMA BackedUp ==
  ASSUME NEW s \in Seq(Nat \ {0}), Injective(s), NEW m \in 1 .. Len(s), NEW n \in 0 .. Len(s)
  PROVE  LET w == Without(s, s[m])
             n2 == IF n < m THEN n ELSE n - 1
         IN  /\ n2 \in 0 .. Len(w)
             /\ Given(w, n2) = Given(s, n) \ {s[m]}
             /\ PosAt(w, n2) = IF PosAt(s, n) = s[m] THEN PosAt(s, m - 1) ELSE PosAt(s, n)
<1> DEFINE w == Without(s, s[m])
           n2 == IF n < m THEN n ELSE n - 1
           l == Len(s)
<1>1. l \in Nat /\ m \in Nat /\ 1 <= m /\ m <= l /\ DOMAIN s = 1 .. l
  OBVIOUS
<1>2. w \in Seq(Nat \ {0}) /\ Len(w) = l - 1
  BY RemovedFromList
<1>3. /\ \A j \in 1 .. m - 1 : w[j] = s[j]
      /\ \A j \in m .. l - 1 : w[j] = s[j + 1]
  BY RemovedFromList
<1>4. \A j, k \in 1 .. l : s[j] = s[k] => j = k
  BY <1>1 DEF Injective
<1>5. \A j \in 1 .. l : s[j] # 0
  OBVIOUS
<1>a. n \in Nat /\ n <= l
  OBVIOUS
<1> HIDE DEF w, l
<1>6. n \in Nat /\ n <= l /\ n2 \in Nat /\ n2 \in 0 .. Len(w)
  BY <1>1, <1>2, <1>a
<1>7. ASSUME NEW k \in 1 .. n2 PROVE w[k] \in Given(s, n) \ {s[m]}
  <2>1. CASE k < m
    <3>1. k \in 1 .. m - 1 /\ k \in 1 .. n /\ k \in 1 .. l /\ m \in 1 .. l /\ k # m
      BY <1>1, <1>6, <2>1
    <3> QED
      BY <1>3, <1>4, <3>1 DEF Given
  <2>2. CASE k >= m
    <3>1. /\ k \in m .. l - 1 /\ k + 1 \in 1 .. n /\ k + 1 \in 1 .. l /\ m \in 1 .. l
          /\ k + 1 # m
      BY <1>1, <1>6, <2>2
    <3> QED
      BY <1>3, <1>4, <3>1 DEF Given
  <2> QED
    BY <1>1, <1>6, <2>1, <2>2
<1>8. ASSUME NEW k \in 1 .. n, s[k] # s[m] PROVE \E j \in 1 .. n2 : w[j] = s[k]
  <2>1. CASE k < m
    <3>1. k \in 1 .. m - 1 /\ k \in 1 .. n2
      BY <1>1, <1>6, <2>1
    <3> QED
      BY <1>3, <3>1
  <2>2. CASE k > m
    <3>1. k - 1 \in m .. l - 1 /\ k - 1 \in 1 .. n2 /\ (k - 1) + 1 = k
      BY <1>1, <1>6, <2>2
    <3>2. w[k - 1] = s[k]
      BY <1>3, <3>1
    <3> QED
      BY <3>1, <3>2
  <2> QED
    BY <1>1, <1>6, <1>8, <2>1, <2>2
<1>9. Given(w, n2) = Given(s, n) \ {s[m]}
  <2>1. ASSUME NEW x \in Given(w, n2) PROVE x \in Given(s, n) \ {s[m]}
    BY <1>7 DEF Given
  <2>2. ASSUME NEW x \in Given(s, n), x # s[m] PROVE x \in Given(w, n2)
    BY <1>8, <2>2 DEF Given
  <2> QED
    BY <2>1, <2>2
<1>10. PosAt(w, n2) = IF PosAt(s, n) = s[m] THEN PosAt(s, m - 1) ELSE PosAt(s, n)
  <2>1. CASE n = 0
    BY <2>1, <1>1, <1>5 DEF PosAt, Head0
  <2>2. CASE n # 0 /\ n < m
    <3>1. n \in 1 .. m - 1 /\ n2 = n /\ n \in 1 .. l /\ m \in 1 .. l /\ n # m
      BY <2>2, <1>1, <1>6
    <3>2. w[n] = s[n] /\ s[n] # s[m]
      BY <1>3, <1>4, <3>1
    <3> QED
      BY <2>2, <3>1, <3>2 DEF PosAt
  <2>3. CASE n = m
    <3>1. CASE m = 1
      BY <2>3, <3>1, <1>1 DEF PosAt
    <3>2. CASE m # 1
      <4>1. m - 1 \in 1 .. m - 1 /\ n2 = m - 1 /\ m - 1 # 0 /\ n # 0
        BY <2>3, <3>2, <1>1
      <4>2. w[m - 1] = s[m - 1]
        BY <1>3, <4>1
      <4> QED
        BY <2>3, <4>1, <4>2 DEF PosAt
    <3> QED
      BY <3>1, <3>2
  <2>4. CASE n > m
    <3>1. /\ n - 1 \in m .. l - 1 /\ (n - 1) + 1 = n /\ n2 = n - 1 /\ n2 # 0 /\ n # 0
          /\ n \in 1 .. l /\ m \in 1 .. l /\ n # m
      BY <2>4, <1>1, <1>6
    <3>2. w[n - 1] = s[n] /\ s[n] # s[m]
      BY <1>3, <1>4, <3>1
    <3> QED
      BY <3>1, <3>2 DEF PosAt
  <2> QED
    BY <1>1, <1>6, <2>1, <2>2, <2>3, <2>4
<1> QED
  BY <1>6, <1>9, <1>10 DEF w

\* A new interface at the end of the list is ahead of every registration.
LEMMA AppendedToList ==
  ASSUME NEW s \in Seq(Nat \ {0}), NEW i \in Nat \ {0}, NEW n \in 0 .. Len(s)
  PROVE  LET t == Append(s, i)
         IN  /\ t \in Seq(Nat \ {0}) /\ Len(t) = Len(s) + 1 /\ n \in 0 .. Len(t)
             /\ Given(t, n) = Given(s, n) /\ PosAt(t, n) = PosAt(s, n)
<1> DEFINE t == Append(s, i)
<1>1. /\ t \in Seq(Nat \ {0}) /\ Len(t) = Len(s) + 1
      /\ \A k \in 1 .. Len(s) : t[k] = s[k]
  BY AppendProperties
<1> HIDE DEF t
<1>2. \A k \in 1 .. n : t[k] = s[k]
  BY <1>1
<1>3. Given(t, n) = Given(s, n)
  BY <1>2 DEF Given
<1>4. PosAt(t, n) = PosAt(s, n)
  BY <1>2 DEF PosAt
<1> QED
  BY <1>1, <1>3, <1>4 DEF t

\* The members of a list with an interface added that was not there.
LEMMA AppendedMembers ==
  ASSUME NEW s \in Seq(Nat \ {0}), NEW i \in Nat \ {0}, Injective(s),
         i \notin Elems(s)
  PROVE  Injective(Append(s, i)) /\ Elems(Append(s, i)) = Elems(s) \cup {i}
<1> DEFINE t == Append(s, i)
<1>1. /\ DOMAIN t = 1 .. Len(s) + 1 /\ DOMAIN s = 1 .. Len(s) /\ Len(s) \in Nat
      /\ \A k \in 1 .. Len(s) : t[k] = s[k]
      /\ t[Len(s) + 1] = i
  BY AppendProperties
<1> HIDE DEF t
<1>2. Injective(t)
  BY <1>1 DEF Injective, Elems
<1>3. Elems(t) = Elems(s) \cup {i}
  BY <1>1 DEF Elems
<1> QED
  BY <1>2, <1>3 DEF t

----------------------------------------------------------------------------
(* The lists and the registrations.                                        *)

ListsOK ==
  \A p \in Protocols :
    Elems(byProtocol[p]) = {i \in live : prots[i].protocol = p} /\ Injective(byProtocol[p])
Stands(r, s, n) ==
  n \in 0 .. Len(s) /\ notify[r].position = PosAt(s, n) /\ seen[r] = Given(s, n)
RegsOK ==
  \A r \in Regs :
    Registered(r) => /\ notify[r].protocol \in Protocols
                     /\ \E n \in Nat : Stands(r, byProtocol[notify[r].protocol], n)

\* An interface that is not freed is at one place of its protocol's list.
LEMMA LivePlace ==
  ASSUME Types, ListsOK, NEW i \in live
  PROVE  LET p == prots[i].protocol
         IN  /\ p \in Protocols
             /\ byProtocol[p] \in Seq(Nat \ {0})
             /\ Injective(byProtocol[p])
             /\ \E m \in 1 .. Len(byProtocol[p]) : byProtocol[p][m] = i
<1> DEFINE p == prots[i].protocol
<1>1. p \in Protocols /\ byProtocol[p] \in Seq(Nat \ {0})
  BY DEF Types, DbTypes
<1>2. Injective(byProtocol[p]) /\ i \in Elems(byProtocol[p])
  BY <1>1 DEF ListsOK
<1>3. DOMAIN byProtocol[p] = 1 .. Len(byProtocol[p])
  BY <1>1
<1> QED
  BY <1>1, <1>2, <1>3 DEF Elems

\* A registration has a protocol.
LEMMA RegisteredProtocol ==
  ASSUME RegsOK, NEW r \in Regs
  PROVE  Registered(r) <=> notify[r].protocol \in Protocols
BY HandleDbAssumption DEF RegsOK, Registered, None

\* What CoreRemoveInterfaceFromProtocol does to the registrations: those of the
\* protocol stand where they did in the list without the interface, the others
\* are left alone.
LEMMA BackUpRegistrations ==
  ASSUME Types, ListsOK, RegsOK, NEW i \in live, BackUp(prots[i].protocol, i),
         seen' = [r \in Regs |-> seen[r] \ {i}], UNCHANGED <<signalled, running>>
  PROVE  LET p == prots[i].protocol
             w == Without(byProtocol[p], i)
         IN  /\ RegTypes'
             /\ \A r \in Regs :
                  /\ notify'[r].protocol = notify[r].protocol
                  /\ seen'[r] = seen[r] \ {i}
                  /\ notify[r].protocol = p =>
                       \E n \in 0 .. Len(w) :
                         notify'[r].position = PosAt(w, n) /\ seen'[r] = Given(w, n)
                  /\ notify[r].protocol # p =>
                       notify'[r] = notify[r] /\ (Registered(r) => seen'[r] = seen[r])
<1> DEFINE p == prots[i].protocol
           s == byProtocol[p]
           w == Without(s, i)
<1>1. p \in Protocols /\ s \in Seq(Nat \ {0}) /\ Injective(s)
  BY LivePlace
<1>2. PICK m \in 1 .. Len(s) : s[m] = i
  BY LivePlace
<1>3. IndexOf(s, i) = m
  BY <1>1, <1>2, PlaceInList
<1> DEFINE prev == PosAt(s, m - 1)
<1>4. prev = IF m = 1 THEN Head0 ELSE s[m - 1]
  BY <1>2 DEF PosAt
<1>5. prev \in Nat
  BY <1>1, <1>2, <1>4 DEF Head0
<1>6. notify' = [r \in Regs |->
                  IF notify[r].protocol = p /\ notify[r].position = i
                  THEN [notify[r] EXCEPT !.position = prev] ELSE notify[r]]
  BY <1>3, <1>4 DEF BackUp
<1> HIDE DEF p, prev
<1>7. notify \in [Regs -> [protocol : Protocols \cup {"none"}, position : Nat]]
      /\ seen \in [Regs -> SUBSET Nat]
  BY DEF Types, RegTypes
<1>8. RegTypes'
  <2>1. notify' \in [Regs -> [protocol : Protocols \cup {"none"}, position : Nat]]
    BY <1>5, <1>6, <1>7
  <2>2. seen' \in [Regs -> SUBSET Nat]
    BY <1>7
  <2> QED
    BY <2>1, <2>2 DEF Types, RegTypes
<1>9. ASSUME NEW r \in Regs
      PROVE  /\ notify'[r].protocol = notify[r].protocol
             /\ notify'[r].position =
                  IF notify[r].protocol = p /\ notify[r].position = i THEN prev
                  ELSE notify[r].position
             /\ notify[r].protocol # p => notify'[r] = notify[r]
             /\ seen'[r] = seen[r] \ {i}
  BY <1>6, <1>7
<1>10. ASSUME NEW r \in Regs, notify[r].protocol = p
       PROVE  \E n \in 0 .. Len(w) :
                notify'[r].position = PosAt(w, n) /\ seen'[r] = Given(w, n)
  <2>1. Registered(r)
    BY <1>1, <1>10, RegisteredProtocol DEF p
  <2>2. PICK n \in Nat : Stands(r, s, n)
    BY <2>1, <1>10 DEF RegsOK
  <2>3. n \in 0 .. Len(s) /\ notify[r].position = PosAt(s, n) /\ seen[r] = Given(s, n)
    BY <2>2 DEF Stands
  <2> DEFINE n2 == IF n < m THEN n ELSE n - 1
  <2>4. /\ n2 \in 0 .. Len(w)
        /\ Given(w, n2) = Given(s, n) \ {i}
        /\ PosAt(w, n2) = IF PosAt(s, n) = i THEN prev ELSE PosAt(s, n)
    <3> HIDE DEF s
    <3> QED
      BY <1>1, <1>2, <2>3, BackedUp DEF prev
  <2> QED
    BY <1>9, <1>10, <2>3, <2>4
<1>11. ASSUME NEW r \in Regs, notify[r].protocol # p, Registered(r)
       PROVE  seen'[r] = seen[r]
  <2> DEFINE q == notify[r].protocol
  <2>1. q \in Protocols
    BY <1>11 DEF RegsOK
  <2>2. PICK n \in Nat : Stands(r, byProtocol[q], n)
    BY <1>11 DEF RegsOK
  <2>3. byProtocol[q] \in Seq(Nat \ {0})
    BY <2>1 DEF Types, DbTypes
  <2>4. seen[r] \subseteq Elems(byProtocol[q])
    <3>1. n \in 0 .. Len(byProtocol[q]) /\ seen[r] = Given(byProtocol[q], n)
      BY <2>2 DEF Stands
    <3> QED
      BY <2>3, <3>1 DEF Given, Elems
  <2>5. i \notin Elems(byProtocol[q])
    BY <2>1, <1>11 DEF ListsOK, p
  <2> QED
    BY <1>9, <2>4, <2>5
<1> QED
  BY <1>8, <1>9, <1>10, <1>11 DEF p

\* A registration that has been given everything it was to be told of, which
\* is never more than there is.
CaughtUp(r) == due[r] \subseteq seen[r]
Owed ==
  /\ DOMAIN due = Regs
  /\ \A r \in Regs : Registered(r) => due[r] \subseteq Elems(byProtocol[notify[r].protocol])

\* CoreUninstallProtocolInterface frees an interface.
LEMMA RemoveKeepsLists ==
  ASSUME Types, ListsOK, RegsOK, Owed, NEW i \in live, NEW open0,
         open0 \in Seq(SUBSET Opens), Len(open0) = Len(prots), Remove(i, open0)
  PROVE  /\ DbTypes' /\ RegTypes' /\ ListsOK' /\ RegsOK' /\ Owed' /\ Len(prots') = Len(prots)
         /\ \A r \in Regs : Registered(r)' =>
              /\ Registered(r) /\ notify'[r].protocol = notify[r].protocol
              /\ CaughtUp(r) => CaughtUp(r)'
<1> DEFINE p == prots[i].protocol
           s == byProtocol[p]
           w == Without(s, i)
<1>1. p \in Protocols /\ s \in Seq(Nat \ {0}) /\ Injective(s)
  BY LivePlace
<1>2. PICK m \in 1 .. Len(s) : s[m] = i
  BY LivePlace
<1>3. w \in Seq(Nat \ {0}) /\ Injective(w) /\ Elems(w) = Elems(s) \ {i} /\ i \in Elems(s)
  <2> HIDE DEF s
  <2>1. /\ Without(s, s[m]) \in Seq(Nat \ {0}) /\ Injective(Without(s, s[m]))
        /\ Elems(Without(s, s[m])) = Elems(s) \ {s[m]}
    BY <1>1, RemovedFromList, RemovedMembers
  <2>2. i \in Elems(s)
    BY <1>1, <1>2 DEF Elems
  <2> QED
    BY <1>2, <2>1, <2>2
<1>4. /\ live' = live \ {i} /\ byProtocol' = [byProtocol EXCEPT ![p] = w]
      /\ prots' = [prots EXCEPT ![i] = Freed] /\ openList' = [open0 EXCEPT ![i] = {}]
  BY DEF Remove
<1>5. /\ prots \in Seq(Entries) /\ live \subseteq 1 .. Len(prots) /\ i \in 1 .. Len(prots)
      /\ byProtocol \in [Protocols -> Seq(Nat \ {0})] /\ Freed \in Entries
  BY DEF Types, DbTypes, Freed, Entries
<1>6. /\ prots' \in Seq(Entries) /\ Len(prots') = Len(prots)
      /\ \A j \in live' : prots'[j] = prots[j]
  BY <1>4, <1>5, ExceptSeq
<1>7. openList' \in Seq(SUBSET Opens) /\ Len(openList') = Len(prots)
  <2>1. {} \in SUBSET Opens /\ i \in 1 .. Len(open0)
    BY <1>5
  <2> QED
    BY <1>4, <2>1, ExceptSeq
<1> HIDE DEF p, w
<1>8. /\ byProtocol' \in [Protocols -> Seq(Nat \ {0})]
      /\ byProtocol'[p] = w /\ \A q \in Protocols \ {p} : byProtocol'[q] = byProtocol[q]
  BY <1>1, <1>3, <1>4, <1>5
<1>9. DbTypes'
  BY <1>4, <1>6, <1>7, <1>8 DEF Types, DbTypes
<1>10. /\ Elems(byProtocol'[p]) = Elems(byProtocol[p]) \ {i}
       /\ \A q \in Protocols \ {p} : Elems(byProtocol'[q]) = Elems(byProtocol[q])
  BY <1>3, <1>8
<1>11. ListsOK'
  <2>1. ASSUME NEW q \in Protocols
        PROVE  Elems(byProtocol'[q]) = {j \in live' : prots'[j].protocol = q} /\ Injective(byProtocol'[q])
    <3>1. Elems(byProtocol[q]) = {j \in live : prots[j].protocol = q} /\ Injective(byProtocol[q])
      BY DEF ListsOK
    <3>2. {j \in live' : prots'[j].protocol = q} = {j \in live : prots[j].protocol = q} \ {i}
      BY <1>4, <1>6
    <3>3. CASE q = p
      <4>1. Injective(byProtocol'[q])
        BY <1>3, <1>8, <3>3
      <4>2. Elems(byProtocol'[q]) = Elems(byProtocol[q]) \ {i}
        BY <1>10, <3>3
      <4> QED
        BY <3>1, <3>2, <4>1, <4>2
    <3>4. CASE q # p
      <4>1. i \notin Elems(byProtocol[q])
        BY <3>1, <3>4 DEF p
      <4> QED
        BY <1>8, <1>10, <3>1, <3>2, <3>4, <4>1
    <3> QED
      BY <3>3, <3>4
  <2> QED
    BY <2>1 DEF ListsOK
<1>12. /\ RegTypes'
       /\ \A r \in Regs :
            /\ notify'[r].protocol = notify[r].protocol
            /\ seen'[r] = seen[r] \ {i}
            /\ notify[r].protocol = p =>
                 \E n \in 0 .. Len(w) :
                   notify'[r].position = PosAt(w, n) /\ seen'[r] = Given(w, n)
            /\ notify[r].protocol # p =>
                 notify'[r] = notify[r] /\ (Registered(r) => seen'[r] = seen[r])
  BY BackUpRegistrations DEF Remove, p, w
<1>13. ASSUME NEW r \in Regs, Registered(r)' PROVE Registered(r)
  BY <1>1, <1>12, <1>13, RegisteredProtocol DEF Registered
<1>14. RegsOK'
  <2> SUFFICES ASSUME NEW r \in Regs, Registered(r)'
               PROVE  /\ notify'[r].protocol \in Protocols
                      /\ \E n \in Nat : Stands(r, byProtocol[notify[r].protocol], n)'
    BY DEF RegsOK
  <2>1. Registered(r) /\ notify[r].protocol \in Protocols
        /\ notify'[r].protocol = notify[r].protocol
    BY <1>12, <1>13 DEF RegsOK
  <2>2. CASE notify[r].protocol = p
    <3>1. PICK n \in 0 .. Len(w) : notify'[r].position = PosAt(w, n) /\ seen'[r] = Given(w, n)
      BY <1>12, <2>2
    <3>2. n \in Nat
      BY <1>3
    <3> QED
      BY <1>8, <2>1, <2>2, <3>1, <3>2 DEF Stands
  <2>3. CASE notify[r].protocol # p
    <3>1. PICK n \in Nat : Stands(r, byProtocol[notify[r].protocol], n)
      BY <2>1 DEF RegsOK
    <3>2. notify'[r] = notify[r] /\ seen'[r] = seen[r]
          /\ byProtocol'[notify[r].protocol] = byProtocol[notify[r].protocol]
      BY <1>8, <1>12, <2>1, <2>3
    <3> QED
      BY <2>1, <3>1, <3>2 DEF Stands
  <2> QED
    BY <2>2, <2>3
<1>15. DOMAIN due' = Regs /\ \A r \in Regs : due'[r] = due[r] \ {i}
  BY DEF Remove
<1>16. ASSUME NEW r \in Regs, Registered(r)', CaughtUp(r) PROVE CaughtUp(r)'
  BY <1>12, <1>15, <1>16 DEF CaughtUp
<1>17. Owed'
  <2> SUFFICES ASSUME NEW r \in Regs, Registered(r)'
               PROVE  due'[r] \subseteq Elems(byProtocol'[notify'[r].protocol])
    BY <1>15 DEF Owed
  <2>1. Registered(r) /\ notify[r].protocol \in Protocols
        /\ notify'[r].protocol = notify[r].protocol
    BY <1>12, <1>13 DEF RegsOK
  <2>2. due[r] \subseteq Elems(byProtocol[notify[r].protocol]) /\ due'[r] = due[r] \ {i}
    BY <1>15, <2>1 DEF Owed
  <2> QED
    BY <1>10, <2>1, <2>2
<1> QED
  BY <1>6, <1>9, <1>11, <1>12, <1>13, <1>14, <1>16, <1>17

\* CoreReinstallProtocolInterface moves an interface to the end of its list.
LEMMA MoveKeepsLists ==
  ASSUME Types, ListsOK, RegsOK, Owed, NEW i \in live, NEW ptr \in Interfaces, NEW open0,
         open0 \in Seq(SUBSET Opens), Len(open0) = Len(prots), MoveToTail(i, ptr, open0)
  PROVE  /\ DbTypes' /\ RegTypes' /\ ListsOK' /\ RegsOK' /\ Owed' /\ Len(prots') = Len(prots)
         /\ \A r \in Regs : Registered(r)' =>
              /\ Registered(r) /\ notify'[r].protocol = notify[r].protocol
              /\ CaughtUp(r) /\ notify[r].protocol # prots[i].protocol => CaughtUp(r)'
<1> DEFINE p == prots[i].protocol
           s == byProtocol[p]
           w == Without(s, i)
           t == Append(w, i)
<1>1. p \in Protocols /\ s \in Seq(Nat \ {0}) /\ Injective(s)
  BY LivePlace
<1>2. PICK m \in 1 .. Len(s) : s[m] = i
  BY LivePlace
<1>3. w \in Seq(Nat \ {0}) /\ Injective(w) /\ Elems(w) = Elems(s) \ {i} /\ i \in Elems(s)
  <2> HIDE DEF s
  <2>1. /\ Without(s, s[m]) \in Seq(Nat \ {0}) /\ Injective(Without(s, s[m]))
        /\ Elems(Without(s, s[m])) = Elems(s) \ {s[m]}
    BY <1>1, RemovedFromList, RemovedMembers
  <2>2. i \in Elems(s)
    BY <1>1, <1>2 DEF Elems
  <2> QED
    BY <1>2, <2>1, <2>2
<1>4. /\ live' = live /\ byProtocol' = [byProtocol EXCEPT ![p] = t]
      /\ prots' = [prots EXCEPT ![i].interface = ptr] /\ openList' = open0
  BY DEF MoveToTail
<1>5. /\ prots \in Seq(Entries) /\ live \subseteq 1 .. Len(prots) /\ i \in 1 .. Len(prots)
      /\ byProtocol \in [Protocols -> Seq(Nat \ {0})]
  BY DEF Types, DbTypes
<1> DEFINE e == [prots[i] EXCEPT !.interface = ptr]
<1>6. e \in Entries /\ e.protocol = prots[i].protocol /\ e.handle = prots[i].handle
      /\ e.interface = ptr
  <2>1. prots[i] \in Entries
    BY <1>5
  <2> QED
    BY <2>1 DEF Entries
<1>7. /\ prots' \in Seq(Entries) /\ Len(prots') = Len(prots)
      /\ \A j \in live : /\ prots'[j].protocol = prots[j].protocol
                         /\ prots'[j].handle = prots[j].handle
                         /\ prots'[j].interface \in {prots[j].interface, ptr}
  <2>1. prots' = [prots EXCEPT ![i] = e]
    BY <1>4
  <2> HIDE DEF e
  <2>2. /\ prots' \in Seq(Entries) /\ Len(prots') = Len(prots)
        /\ \A j \in 1 .. Len(prots) : prots'[j] = IF j = i THEN e ELSE prots[j]
    BY <1>5, <1>6, <2>1, ExceptSeq
  <2> QED
    BY <1>5, <1>6, <2>2
<1> HIDE DEF p, w
<1>8. /\ i \in Nat \ {0} /\ i \notin Elems(w)
  BY <1>3, <1>5
<1>9. /\ t \in Seq(Nat \ {0}) /\ Injective(t)
      /\ Elems(t) = Elems(s)
  <2>1. t \in Seq(Nat \ {0})
    BY <1>3, <1>8, AppendProperties
  <2>2. Injective(t) /\ Elems(t) = Elems(w) \cup {i}
    BY <1>3, <1>8, AppendedMembers
  <2> QED
    BY <1>3, <2>1, <2>2
<1> HIDE DEF t
<1>10. /\ byProtocol' \in [Protocols -> Seq(Nat \ {0})]
       /\ byProtocol'[p] = t /\ \A q \in Protocols \ {p} : byProtocol'[q] = byProtocol[q]
  BY <1>1, <1>4, <1>5, <1>9
<1>11. DbTypes'
  BY <1>4, <1>7, <1>10 DEF Types, DbTypes
<1>12. \A q \in Protocols : Elems(byProtocol'[q]) = Elems(byProtocol[q])
  BY <1>9, <1>10
<1>13. ListsOK'
  <2>1. ASSUME NEW q \in Protocols
        PROVE  Elems(byProtocol'[q]) = {j \in live' : prots'[j].protocol = q} /\ Injective(byProtocol'[q])
    <3>1. Elems(byProtocol[q]) = {j \in live : prots[j].protocol = q} /\ Injective(byProtocol[q])
      BY DEF ListsOK
    <3>2. {j \in live' : prots'[j].protocol = q} = {j \in live : prots[j].protocol = q}
      BY <1>4, <1>7
    <3>3. Injective(byProtocol'[q])
      BY <1>9, <1>10, <3>1
    <3> QED
      BY <1>12, <3>1, <3>2, <3>3
  <2> QED
    BY <2>1 DEF ListsOK
<1>14. /\ RegTypes'
       /\ \A r \in Regs :
            /\ notify'[r].protocol = notify[r].protocol
            /\ seen'[r] = seen[r] \ {i}
            /\ notify[r].protocol = p =>
                 \E n \in 0 .. Len(w) :
                   notify'[r].position = PosAt(w, n) /\ seen'[r] = Given(w, n)
            /\ notify[r].protocol # p =>
                 notify'[r] = notify[r] /\ (Registered(r) => seen'[r] = seen[r])
  BY BackUpRegistrations DEF MoveToTail, p, w
<1>15. ASSUME NEW r \in Regs, Registered(r)' PROVE Registered(r)
  BY <1>1, <1>14, <1>15, RegisteredProtocol DEF Registered
<1>16. RegsOK'
  <2> SUFFICES ASSUME NEW r \in Regs, Registered(r)'
               PROVE  /\ notify'[r].protocol \in Protocols
                      /\ \E n \in Nat : Stands(r, byProtocol[notify[r].protocol], n)'
    BY DEF RegsOK
  <2>1. Registered(r) /\ notify[r].protocol \in Protocols
        /\ notify'[r].protocol = notify[r].protocol
    BY <1>14, <1>15 DEF RegsOK
  <2>2. CASE notify[r].protocol = p
    <3>1. PICK n \in 0 .. Len(w) : notify'[r].position = PosAt(w, n) /\ seen'[r] = Given(w, n)
      BY <1>14, <2>2
    <3>2. n \in Nat
      BY <1>3
    <3>3. n \in 0 .. Len(t) /\ Given(t, n) = Given(w, n) /\ PosAt(t, n) = PosAt(w, n)
      BY <1>3, <1>8, AppendedToList DEF t
    <3> QED
      BY <1>10, <2>1, <2>2, <3>1, <3>2, <3>3 DEF Stands
  <2>3. CASE notify[r].protocol # p
    <3>1. PICK n \in Nat : Stands(r, byProtocol[notify[r].protocol], n)
      BY <2>1 DEF RegsOK
    <3>2. notify'[r] = notify[r] /\ seen'[r] = seen[r]
          /\ byProtocol'[notify[r].protocol] = byProtocol[notify[r].protocol]
      BY <1>10, <1>14, <2>1, <2>3
    <3> QED
      BY <2>1, <3>1, <3>2 DEF Stands
  <2> QED
    BY <2>2, <2>3
<1>17. /\ DOMAIN due' = Regs
       /\ \A r \in Regs : notify[r].protocol = p => due'[r] = Elems(byProtocol[p])
       /\ \A r \in Regs : notify[r].protocol # p => due'[r] = due[r]
  BY DEF MoveToTail, Owe, Members, Elems, p
<1>18. ASSUME NEW r \in Regs, Registered(r)', CaughtUp(r), notify[r].protocol # p
       PROVE  CaughtUp(r)'
  <2>1. due'[r] = due[r] /\ seen'[r] = seen[r]
    BY <1>14, <1>15, <1>17, <1>18
  <2> QED
    BY <1>18, <2>1 DEF CaughtUp
<1>19. Owed'
  <2> SUFFICES ASSUME NEW r \in Regs, Registered(r)'
               PROVE  due'[r] \subseteq Elems(byProtocol'[notify'[r].protocol])
    BY <1>17 DEF Owed
  <2>1. Registered(r) /\ notify[r].protocol \in Protocols
        /\ notify'[r].protocol = notify[r].protocol
    BY <1>14, <1>15 DEF RegsOK
  <2>2. due'[r] \subseteq Elems(byProtocol[notify[r].protocol])
    BY <1>17, <2>1 DEF Owed
  <2> QED
    BY <1>12, <2>1, <2>2
<1> QED
  BY <1>7, <1>11, <1>13, <1>14, <1>15, <1>16, <1>18, <1>19 DEF p

----------------------------------------------------------------------------
(* The inductive invariant.  A registration that is neither signalled nor  *)
(* running has been given everything it was to be told of, unless a        *)
(* reinstallation owes its protocol a notification.                        *)

Owing(s, p) ==
  \E k \in DOMAIN s : s[k].op = "reinstall" /\ s[k].phase = "connect" /\ s[k].protocol = p
Told ==
  \A r \in Regs :
    Registered(r) /\ ~signalled[r] /\ ~running[r] /\ ~Owing(stack, notify[r].protocol)
      => CaughtUp(r)
Inv == Types /\ ListsOK /\ RegsOK /\ Owed /\ Told

\* A new frame leaves owed what was, and may owe a notification of its own.
LEMMA OwingPush ==
  ASSUME NEW s \in Seq(Frames), NEW f \in Frames, NEW p
  PROVE  /\ Owing(s, p) => Owing(Append(s, f), p)
         /\ f = Connecting("reinstall", p) => Owing(Append(s, f), p)
<1>1. /\ \A k \in DOMAIN s : k \in DOMAIN Append(s, f) /\ Append(s, f)[k] = s[k]
      /\ Len(s) + 1 \in DOMAIN Append(s, f) /\ Append(s, f)[Len(s) + 1] = f
  BY AppendProperties
<1>2. ASSUME f = Connecting("reinstall", p)
      PROVE  f.op = "reinstall" /\ f.phase = "connect" /\ f.protocol = p
  BY <1>2 DEF Connecting
<1> QED
  BY <1>1, <1>2 DEF Owing

\* Only the frame that runs can stop owing a notification.
LEMMA OwingPop ==
  ASSUME NEW n \in Nat, StackOK(stack, n), stack # <<>>, NEW p
  PROVE  /\ Owing(Under, p) => Owing(stack, p)
         /\ Owing(stack, p) /\ ~Owing(Under, p) =>
              Top.op = "reinstall" /\ Top.phase = "connect" /\ Top.protocol = p
<1>1. /\ Len(stack) \in Nat \ {0} /\ Len(Under) = Len(stack) - 1 /\ StackOK(Under, n)
      /\ \A k \in DOMAIN Under : k \in DOMAIN stack /\ Under[k] = stack[k]
  BY StackPop
<1>2. DOMAIN stack = 1 .. Len(stack) /\ DOMAIN Under = 1 .. Len(stack) - 1
  BY <1>1 DEF StackOK
<1>3. ASSUME NEW k \in DOMAIN stack, k \notin DOMAIN Under PROVE stack[k] = Top
  BY <1>1, <1>2, <1>3 DEF Top
<1> QED
  BY <1>1, <1>3 DEF Owing

LEMMA OwingReplace ==
  ASSUME NEW n \in Nat, StackOK(stack, n), stack # <<>>, Top.phase # "connect",
         NEW f, NEW p, Owing(stack, p)
  PROVE  Owing([stack EXCEPT ![Len(stack)] = f], p)
<1>1. PICK k \in DOMAIN stack :
        stack[k].op = "reinstall" /\ stack[k].phase = "connect" /\ stack[k].protocol = p
  BY DEF Owing
<1>2. k # Len(stack)
  BY <1>1 DEF Top
<1>3. k \in DOMAIN [stack EXCEPT ![Len(stack)] = f]
      /\ [stack EXCEPT ![Len(stack)] = f][k] = stack[k]
  BY <1>2
<1> QED
  BY <1>1, <1>3 DEF Owing

\* Steps that leave the lists alone: open lists and frames change, and
\* registrations are signalled, at the latest when their protocol is no longer
\* owed a notification.
LEMMA ListsAlone ==
  ASSUME Inv, UNCHANGED <<prots, live, byProtocol, notify, running, seen, due>>,
         openList' \in Seq(SUBSET Opens), Len(openList') = Len(prots),
         StackOK(stack', Len(prots)),
         signalled' \in [Regs -> BOOLEAN],
         \A r \in Regs :
           /\ signalled[r] => signalled'[r]
           /\ Owing(stack, notify[r].protocol) =>
                Owing(stack', notify[r].protocol) \/ signalled'[r]
  PROVE  Inv'
<1>1. Types'
  BY DEF Inv, Types, DbTypes, RegTypes
<1>2. ListsOK'
  BY DEF Inv, ListsOK
<1>3. RegsOK'
  BY DEF Inv, RegsOK, Registered, Stands
<1>4. Told'
  BY DEF Inv, Told, Registered, CaughtUp
<1>5. Owed'
  BY DEF Inv, Owed, Registered
<1> QED
  BY <1>1, <1>2, <1>3, <1>4, <1>5 DEF Inv

\* The same with nothing but the stack changed.
LEMMA OnlyStack ==
  ASSUME Inv, UNCHANGED <<db, regs>>, StackOK(stack', Len(prots)),
         \A p \in Protocols \cup {"none"} : Owing(stack, p) => Owing(stack', p)
  PROVE  Inv'
<1>1. UNCHANGED <<prots, live, byProtocol, notify, running, seen, due>>
      /\ openList' = openList /\ signalled' = signalled
  BY DEF db, regs
<1>2. openList' \in Seq(SUBSET Opens) /\ Len(openList') = Len(prots)
      /\ signalled' \in [Regs -> BOOLEAN]
  BY <1>1 DEF Inv, Types, DbTypes, RegTypes
<1>3. \A r \in Regs : notify[r].protocol \in Protocols \cup {"none"}
  BY DEF Inv, Types, RegTypes
<1> QED
  BY <1>1, <1>2, <1>3, ListsAlone

\* The facts of the types that the steps below use.
LEMMA TypeFacts ==
  ASSUME Inv
  PROVE  /\ Len(prots) \in Nat /\ StackOK(stack, Len(prots)) /\ stack \in Seq(Frames)
         /\ openList \in Seq(SUBSET Opens) /\ Len(openList) = Len(prots)
         /\ DOMAIN openList = 1 .. Len(prots)
         /\ signalled \in [Regs -> BOOLEAN]
         /\ live \subseteq 1 .. Len(prots)
         /\ \A i \in live : prots[i].interface \in Interfaces
         /\ \A i \in 1 .. Len(prots) : /\ openList[i] \subseteq Opens
                                       /\ prots[i].protocol \in Protocols \cup {"none"}
<1>1. prots \in Seq(Entries) /\ openList \in Seq(SUBSET Opens) /\ Len(openList) = Len(prots)
  BY DEF Inv, Types, DbTypes
<1>2. \A i \in 1 .. Len(prots) : prots[i] \in Entries /\ openList[i] \in SUBSET Opens
  BY <1>1
<1>3. \A e \in Entries : e.protocol \in Protocols \cup {"none"}
  BY DEF Entries
<1>4. StackOK(stack, Len(prots)) /\ stack \in Seq(Frames)
  BY DEF Inv, Types, StackOK
<1>5. live \subseteq 1 .. Len(prots) /\ \A i \in live : prots[i].interface \in Interfaces
  BY DEF Inv, Types, DbTypes
<1>6. signalled \in [Regs -> BOOLEAN]
  BY DEF Inv, Types, RegTypes
<1>7. Len(prots) \in Nat /\ DOMAIN openList = 1 .. Len(prots)
  BY <1>1
<1> QED
  BY <1>1, <1>2, <1>3, <1>4, <1>5, <1>6, <1>7

\* Registering, unregistering and being notified.
LEMMA RegistrationStep ==
  ASSUME Inv, NEW r \in Regs,
         \/ \E p \in Protocols : RegisterProtocolNotify(r, p)
         \/ SignalEvent(r) \/ UnregisterProtocolNotify(r) \/ NotifyStarts(r)
         \/ LocateByRegisterNotify(r)
  PROVE  Inv'
<1>0. /\ notify \in [Regs -> [protocol : Protocols \cup {"none"}, position : Nat]]
      /\ signalled \in [Regs -> BOOLEAN] /\ running \in [Regs -> BOOLEAN]
      /\ seen \in [Regs -> SUBSET Nat] /\ DOMAIN due = Regs
      /\ byProtocol \in [Protocols -> Seq(Nat \ {0})]
  BY DEF Inv, Types, RegTypes, DbTypes, Owed
<1>1. CASE \E p \in Protocols : RegisterProtocolNotify(r, p)
  <2>1. PICK p \in Protocols : RegisterProtocolNotify(r, p)
    BY <1>1
  <2>2. /\ UNCHANGED <<prots, live, byProtocol, openList, signalled, running, stack>>
        /\ notify' = [notify EXCEPT ![r] = [protocol |-> p, position |-> Head0]]
        /\ seen' = [seen EXCEPT ![r] = {}]
        /\ due' = [due EXCEPT ![r] = {}]
    BY <2>1 DEF RegisterProtocolNotify, db
  <2>3. RegTypes'
    BY <1>0, <2>2 DEF RegTypes, Head0
  <2>4. Types' /\ ListsOK'
    BY <2>2, <2>3 DEF Inv, Types, DbTypes, ListsOK
  <2>5. ASSUME NEW q \in Regs, q # r
        PROVE  /\ notify'[q] = notify[q] /\ seen'[q] = seen[q] /\ due'[q] = due[q]
    BY <1>0, <2>2, <2>5
  <2>6. /\ notify'[r].protocol = p /\ notify'[r].position = 0 /\ seen'[r] = {}
        /\ due'[r] = {} /\ DOMAIN due' = Regs
    BY <1>0, <2>2 DEF Head0
  <2>7. Stands(r, byProtocol[notify[r].protocol], 0)'
    <3>1. Given(byProtocol'[p], 0) = {} /\ PosAt(byProtocol'[p], 0) = 0
      BY DEF Given, PosAt, Head0
    <3>2. 0 \in 0 .. Len(byProtocol'[p])
      BY <1>0, <2>2
    <3> QED
      BY <2>6, <3>1, <3>2 DEF Stands
  <2>8. RegsOK'
    BY <2>2, <2>5, <2>6, <2>7 DEF Inv, RegsOK, Registered, Stands
  <2>9. Told' /\ Owed'
    BY <2>2, <2>5, <2>6 DEF Inv, Told, Owed, Registered, CaughtUp
  <2> QED
    BY <2>4, <2>8, <2>9 DEF Inv
<1>2. CASE UnregisterProtocolNotify(r)
  <2>1. /\ UNCHANGED <<prots, live, byProtocol, openList, stack>>
        /\ notify' = [notify EXCEPT ![r] = None]
        /\ signalled' = [signalled EXCEPT ![r] = FALSE]
        /\ running' = [running EXCEPT ![r] = FALSE]
        /\ seen' = [seen EXCEPT ![r] = {}]
        /\ due' = [due EXCEPT ![r] = {}]
    BY <1>2 DEF UnregisterProtocolNotify, db
  <2>2. RegTypes'
    BY <1>0, <2>1 DEF RegTypes, None, Head0
  <2>3. Types' /\ ListsOK'
    BY <2>1, <2>2 DEF Inv, Types, DbTypes, ListsOK
  <2>4. ~Registered(r)'
    BY <1>0, <2>1 DEF Registered
  <2>5. ASSUME NEW q \in Regs, q # r
        PROVE  /\ notify'[q] = notify[q] /\ signalled'[q] = signalled[q] /\ seen'[q] = seen[q]
               /\ running'[q] = running[q] /\ due'[q] = due[q]
    BY <1>0, <2>1, <2>5
  <2>6. DOMAIN due' = Regs
    BY <1>0, <2>1
  <2>7. RegsOK' /\ Told' /\ Owed'
    BY <2>1, <2>4, <2>5, <2>6 DEF Inv, RegsOK, Told, Owed, Registered, Stands, CaughtUp
  <2> QED
    BY <2>3, <2>7 DEF Inv
<1>3. CASE NotifyStarts(r)
  <2>1. /\ UNCHANGED <<prots, live, byProtocol, openList, notify, seen, due, stack>>
        /\ signalled' = [signalled EXCEPT ![r] = FALSE]
        /\ running' = [running EXCEPT ![r] = TRUE]
    BY <1>3 DEF NotifyStarts, db
  <2>2. Types' /\ ListsOK'
    BY <1>0, <2>1 DEF Inv, Types, RegTypes, DbTypes, ListsOK
  <2>3. running'[r] /\ \A q \in Regs \ {r} : signalled'[q] = signalled[q] /\ running'[q] = running[q]
    BY <1>0, <2>1
  <2>4. RegsOK' /\ Told' /\ Owed'
    BY <2>1, <2>3 DEF Inv, RegsOK, Told, Owed, Registered, Stands, CaughtUp
  <2> QED
    BY <2>2, <2>4 DEF Inv
<1>4. CASE LocateByRegisterNotify(r)
  <2> DEFINE p == notify[r].protocol
             s == byProtocol[p]
  <2>1. /\ Registered(r)
        /\ UNCHANGED <<prots, live, byProtocol, openList, signalled, due, stack>>
    BY <1>4 DEF LocateByRegisterNotify, db
  <2>2. p \in Protocols /\ s \in Seq(Nat \ {0}) /\ Injective(s)
    BY <1>0, <2>1 DEF Inv, RegsOK, ListsOK
  <2>3. PICK n \in Nat : Stands(r, s, n)
    BY <2>1 DEF Inv, RegsOK
  <2>4. n \in 0 .. Len(s) /\ notify[r].position = PosAt(s, n) /\ seen[r] = Given(s, n)
    BY <2>3 DEF Stands
  <2> HIDE DEF s
  <2>5. NextByRegisterNotify(r) = n + 1
    <3>1. CASE n = 0
      BY <2>4, <3>1 DEF NextByRegisterNotify, PlaceOf, PosAt
    <3>2. CASE n # 0
      <4>1. n \in DOMAIN s /\ notify[r].position = s[n] /\ s[n] # 0
        BY <2>2, <2>4, <3>2 DEF PosAt
      <4>2. IndexOf(s, s[n]) = n
        BY <2>2, <4>1, PlaceInList
      <4> QED
        BY <4>1, <4>2 DEF NextByRegisterNotify, PlaceOf, Head0, s
    <3> QED
      BY <3>1, <3>2
  <2>6. CASE n + 1 \in DOMAIN s
    <3>1. /\ notify' = [notify EXCEPT ![r].position = s[n + 1]]
          /\ seen' = [seen EXCEPT ![r] = @ \cup {s[n + 1]}]
          /\ running' = running
      BY <1>4, <2>5, <2>6 DEF LocateByRegisterNotify, s
    <3>2. s[n + 1] \in Nat
      BY <2>2, <2>6
    <3>3. /\ RegTypes'
          /\ notify'[r].protocol = p /\ notify'[r].position = s[n + 1]
          /\ seen'[r] = seen[r] \cup {s[n + 1]}
          /\ \A q \in Regs \ {r} : notify'[q] = notify[q] /\ seen'[q] = seen[q]
      BY <1>0, <2>1, <3>1, <3>2 DEF RegTypes
    <3>4. Types' /\ ListsOK'
      BY <2>1, <3>3 DEF Inv, Types, DbTypes, ListsOK
    <3>5. Given(s, n + 1) = Given(s, n) \cup {s[n + 1]}
      <4>1. 1 .. n + 1 = (1 .. n) \cup {n + 1}
        BY <2>3
      <4> QED
        BY <4>1 DEF Given
    <3>6. PosAt(s, n + 1) = s[n + 1] /\ n + 1 \in 0 .. Len(s) /\ n + 1 \in Nat
      BY <2>2, <2>3, <2>6 DEF PosAt
    <3>7. Stands(r, byProtocol[notify[r].protocol], n + 1)'
      BY <2>1, <2>4, <3>3, <3>5, <3>6 DEF Stands, s
    <3>8. RegsOK'
      BY <2>1, <2>2, <3>3, <3>6, <3>7 DEF Inv, RegsOK, Registered, Stands
    <3>9. Told' /\ Owed'
      <4>1. running[r]
        BY <1>4 DEF LocateByRegisterNotify
      <4> QED
        BY <2>1, <3>1, <3>3, <4>1 DEF Inv, Told, Owed, Registered, CaughtUp
    <3> QED
      BY <3>4, <3>8, <3>9 DEF Inv
  <2>7. CASE n + 1 \notin DOMAIN s
    <3>1. running' = [running EXCEPT ![r] = FALSE] /\ UNCHANGED <<notify, seen>>
      BY <1>4, <2>5, <2>7 DEF LocateByRegisterNotify, s
    <3>2. Types' /\ ListsOK' /\ RegsOK'
      BY <1>0, <2>1, <3>1 DEF Inv, Types, RegTypes, DbTypes, ListsOK, RegsOK, Registered, Stands
    <3>3. n = Len(s) /\ DOMAIN s = 1 .. n
      BY <2>2, <2>4, <2>7
    <3>4. CaughtUp(r)
      <4>1. seen[r] = Elems(s)
        BY <2>4, <3>3 DEF Given, Elems
      <4>2. due[r] \subseteq Elems(s)
        BY <2>1 DEF Inv, Owed, s
      <4> QED
        BY <4>1, <4>2 DEF CaughtUp
    <3>5. \A q \in Regs \ {r} : running'[q] = running[q]
      BY <1>0, <3>1
    <3>6. Told' /\ Owed'
      BY <2>1, <3>1, <3>4, <3>5 DEF Inv, Told, Owed, Registered, CaughtUp
    <3> QED
      BY <3>2, <3>6 DEF Inv
  <2> QED
    BY <2>6, <2>7
<1>5. CASE SignalEvent(r)
  <2>1. /\ Registered(r) /\ UNCHANGED <<prots, live, byProtocol, openList, notify, running, seen, stack>>
        /\ signalled' = [signalled EXCEPT ![r] = TRUE]
        /\ due' = [due EXCEPT ![r] = Elems(byProtocol[notify[r].protocol])]
    BY <1>5 DEF SignalEvent, db, Members, Elems
  <2>2. Types' /\ ListsOK' /\ RegsOK'
    BY <1>0, <2>1 DEF Inv, Types, RegTypes, DbTypes, ListsOK, RegsOK, Registered, Stands
  <2>3. /\ signalled'[r] /\ due'[r] = Elems(byProtocol[notify[r].protocol]) /\ DOMAIN due' = Regs
        /\ \A q \in Regs \ {r} : signalled'[q] = signalled[q] /\ due'[q] = due[q]
    BY <1>0, <2>1
  <2>4. Told' /\ Owed'
    BY <2>1, <2>3 DEF Inv, Told, Owed, Registered, CaughtUp
  <2> QED
    BY <2>2, <2>4 DEF Inv
<1> QED
  BY <1>1, <1>2, <1>3, <1>4, <1>5

\* CoreInstallProtocolInterface.
LEMMA InstallStep ==
  ASSUME Inv
  PROVE  /\ \A h \in Handles, p \in Protocols : InstallCheck(h, p) => Inv'
         /\ InstallFails => Inv'
<1>1. ASSUME NEW h \in Handles, NEW p \in Protocols, InstallCheck(h, p) PROVE Inv'
  <2> DEFINE f == [op |-> "install", phase |-> "gap", handle |-> h, protocol |-> p,
                   known |-> Exists(h)]
  <2>1. UNCHANGED <<db, regs>> /\ stack' = Append(stack, f)
    BY <1>1 DEF InstallCheck, Push
  <2>2. f \in Frames /\ FrameOK(f, Len(prots))
    <3>1. Exists(h) \in BOOLEAN
      BY DEF Exists
    <3> QED
      BY <3>1 DEF Frames, Gaps, FrameOK, InStop
  <2> HIDE DEF f
  <2> QED
    BY <2>1, <2>2, TypeFacts, StackPush, OwingPush, OnlyStack
<1>2. ASSUME InstallFails PROVE Inv'
  <2>1. UNCHANGED <<db, regs>> /\ stack' = Under /\ stack # <<>> /\ Top.phase = "gap"
    BY <1>2 DEF InstallFails, Pop
  <2>2. Len(prots) \in Nat /\ StackOK(stack, Len(prots))
    BY TypeFacts
  <2>3. StackOK(stack', Len(prots))
    BY <2>1, <2>2, StackPop
  <2>4. \A p \in Protocols \cup {"none"} : Owing(stack, p) => Owing(stack', p)
    BY <2>1, <2>2, OwingPop
  <2> QED
    BY <2>1, <2>3, <2>4, OnlyStack
<1> QED
  BY <1>1, <1>2

LEMMA InstallInterface ==
  ASSUME Inv, NEW ptr \in Interfaces, NEW Notify \in BOOLEAN,
         InstallProtocolInterface(ptr, Notify)
  PROVE  Inv'
<1> DEFINE i == Len(prots) + 1
           p == Top.protocol
           e == [handle |-> Top.handle, protocol |-> p, interface |-> ptr]
           s == byProtocol[p]
<1>1. /\ Len(prots) \in Nat /\ StackOK(stack, Len(prots)) /\ stack # <<>> /\ Top.phase = "gap"
      /\ openList \in Seq(SUBSET Opens) /\ Len(openList) = Len(prots)
      /\ prots \in Seq(Entries) /\ live \subseteq 1 .. Len(prots)
      /\ byProtocol \in [Protocols -> Seq(Nat \ {0})]
      /\ signalled \in [Regs -> BOOLEAN] /\ DOMAIN due = Regs
  BY TypeFacts DEF InstallProtocolInterface, Inv, Types, DbTypes, Owed
<1>2. Top \in Gaps /\ Top.handle \in Handles /\ p \in Protocols
  <2>1. Top \in Gaps
    BY <1>1, StackPop, FrameKinds
  <2> QED
    BY <2>1 DEF Gaps
<1>3. e \in Entries /\ i \in Nat \ {0}
  BY <1>1, <1>2 DEF Entries
<1>4. /\ prots' = Append(prots, e) /\ live' = live \cup {i}
      /\ byProtocol' = [byProtocol EXCEPT ![p] = Append(s, i)]
      /\ openList' = Append(openList, {})
      /\ stack' = Under /\ UNCHANGED <<notify, running, seen>>
  BY DEF InstallProtocolInterface, Pop
<1>5. /\ signalled' \in [Regs -> BOOLEAN] /\ DOMAIN due' = Regs
      /\ \A r \in Regs :
           \/ signalled'[r] = signalled[r] /\ due'[r] = due[r]
           \/ signalled'[r] /\ notify[r].protocol = p /\ due'[r] = Elems(s) \cup {i}
      /\ \A r \in Regs : signalled[r] => signalled'[r]
  <2>1. CASE Notify
    <3>1. /\ signalled' = [r \in Regs |-> signalled[r] \/ notify[r].protocol = p]
          /\ due' = [r \in Regs |-> IF notify[r].protocol = p THEN Elems(s) \cup {i} ELSE due[r]]
      BY <2>1 DEF InstallProtocolInterface, Signal, Owe, Members, Elems
    <3> HIDE DEF s, p, i
    <3> QED
      BY <1>1, <3>1
  <2>2. CASE ~Notify
    <3>1. signalled' = signalled /\ due' = due
      BY <2>2 DEF InstallProtocolInterface
    <3> QED
      BY <1>1, <3>1
  <2> QED
    BY <2>1, <2>2
<1>6. e.handle \in Handles /\ e.protocol = p /\ e.interface \in Interfaces
  BY <1>2
<1> HIDE DEF e, p
<1>7. /\ prots' \in Seq(Entries) /\ Len(prots') = i /\ prots'[i] = e
      /\ \A j \in 1 .. Len(prots) : prots'[j] = prots[j]
  BY <1>1, <1>3, <1>4, AppendProperties
<1>8. openList' \in Seq(SUBSET Opens) /\ Len(openList') = i
  <2>1. {} \in SUBSET Opens
    OBVIOUS
  <2> QED
    BY <1>1, <1>4, <2>1, AppendProperties
<1>9. s \in Seq(Nat \ {0}) /\ Injective(s) /\ i \notin Elems(s)
  <2>1. s \in Seq(Nat \ {0}) /\ Injective(s) /\ Elems(s) \subseteq live
    BY <1>1, <1>2 DEF Inv, ListsOK
  <2> QED
    BY <1>1, <2>1
<1> HIDE DEF s
<1>10. Append(s, i) \in Seq(Nat \ {0}) /\ Injective(Append(s, i))
      /\ Elems(Append(s, i)) = Elems(s) \cup {i}
  <2> HIDE DEF i
  <2> QED
    BY <1>3, <1>9, AppendProperties, AppendedMembers
<1>11. /\ byProtocol' \in [Protocols -> Seq(Nat \ {0})]
       /\ byProtocol'[p] = Append(s, i)
       /\ \A q \in Protocols \ {p} : byProtocol'[q] = byProtocol[q]
  BY <1>1, <1>2, <1>4, <1>10
<1>12. DbTypes'
  <2>1. \A j \in live' : /\ prots'[j].handle \in Handles
                         /\ prots'[j].protocol \in Protocols
                         /\ prots'[j].interface \in Interfaces
    BY <1>1, <1>2, <1>4, <1>6, <1>7 DEF Inv, Types, DbTypes
  <2>2. live' \subseteq 1 .. Len(prots')
    <3>1. 1 .. Len(prots) \subseteq 1 .. i /\ i \in 1 .. i
      BY <1>1
    <3> HIDE DEF i
    <3> QED
      BY <1>1, <1>4, <1>7, <3>1
  <2> QED
    BY <1>7, <1>8, <1>11, <2>1, <2>2 DEF DbTypes
<1>13. RegTypes'
  BY <1>4, <1>5 DEF Inv, Types, RegTypes
<1>14. StackOK(stack', Len(prots'))
  <2>1. StackOK(Under, Len(prots))
    BY <1>1, StackPop
  <2>2. Len(prots') \in Nat /\ Len(prots) <= Len(prots')
    BY <1>1, <1>7
  <2> QED
    BY <1>1, <1>4, <2>1, <2>2, StackGrows
<1>15. ListsOK'
  <2>1. ASSUME NEW q \in Protocols
        PROVE  Elems(byProtocol'[q]) = {j \in live' : prots'[j].protocol = q}
               /\ Injective(byProtocol'[q])
    <3>1. Elems(byProtocol[q]) = {j \in live : prots[j].protocol = q} /\ Injective(byProtocol[q])
      BY DEF Inv, ListsOK
    <3>2. CASE q = p
      <4>1. {j \in live' : prots'[j].protocol = q} = {j \in live : prots[j].protocol = q} \cup {i}
        BY <1>1, <1>4, <1>6, <1>7, <3>2
      <4> QED
        BY <1>10, <1>11, <3>1, <3>2, <4>1 DEF s
    <3>3. CASE q # p
      <4>1. {j \in live' : prots'[j].protocol = q} = {j \in live : prots[j].protocol = q}
        BY <1>1, <1>4, <1>6, <1>7, <3>3
      <4> QED
        BY <1>11, <3>1, <3>3, <4>1
    <3> QED
      BY <3>2, <3>3
  <2> QED
    BY <2>1 DEF ListsOK
<1>16. RegsOK'
  <2> SUFFICES ASSUME NEW r \in Regs, Registered(r)'
               PROVE  /\ notify'[r].protocol \in Protocols
                      /\ \E n \in Nat : Stands(r, byProtocol[notify[r].protocol], n)'
    BY DEF RegsOK
  <2>1. Registered(r) /\ notify'[r] = notify[r] /\ seen'[r] = seen[r]
    BY <1>4 DEF Registered
  <2>2. notify[r].protocol \in Protocols
    BY <2>1 DEF Inv, RegsOK
  <2>3. PICK n \in Nat : Stands(r, byProtocol[notify[r].protocol], n)
    BY <2>1 DEF Inv, RegsOK
  <2>4. CASE notify[r].protocol = p
    <3>1. n \in 0 .. Len(s) /\ notify[r].position = PosAt(s, n) /\ seen[r] = Given(s, n)
      BY <2>3, <2>4 DEF Stands, s
    <3>2. n \in 0 .. Len(Append(s, i)) /\ Given(Append(s, i), n) = Given(s, n)
          /\ PosAt(Append(s, i), n) = PosAt(s, n)
      <4> HIDE DEF i
      <4> QED
        BY <1>3, <1>9, <3>1, AppendedToList
    <3> QED
      BY <1>11, <2>1, <2>2, <2>4, <3>1, <3>2 DEF Stands
  <2>5. CASE notify[r].protocol # p
    BY <1>11, <2>1, <2>2, <2>3, <2>5 DEF Stands
  <2> QED
    BY <2>4, <2>5
<1>17. Told'
  <2> SUFFICES ASSUME NEW r \in Regs, Registered(r)', ~signalled'[r], ~running'[r],
                      ~Owing(stack', notify'[r].protocol)
               PROVE  CaughtUp(r)'
    BY DEF Told
  <2>1. Registered(r) /\ notify'[r] = notify[r] /\ seen'[r] = seen[r] /\ ~running[r]
    BY <1>4 DEF Registered
  <2>2. ~signalled[r] /\ due'[r] = due[r]
    BY <1>5
  <2>3. ~Owing(stack, notify[r].protocol)
    BY <1>1, <1>4, <2>1, OwingPop
  <2>4. CaughtUp(r)
    BY <2>1, <2>2, <2>3 DEF Inv, Told
  <2> QED
    BY <2>1, <2>2, <2>4 DEF CaughtUp
<1>18. Owed'
  <2> SUFFICES ASSUME NEW r \in Regs, Registered(r)'
               PROVE  due'[r] \subseteq Elems(byProtocol'[notify'[r].protocol])
    BY <1>5 DEF Owed
  <2>1. Registered(r) /\ notify'[r] = notify[r]
    BY <1>4 DEF Registered
  <2>2. notify[r].protocol \in Protocols /\ due[r] \subseteq Elems(byProtocol[notify[r].protocol])
    BY <2>1 DEF Inv, RegsOK, Owed
  <2>3. /\ Elems(byProtocol'[p]) = Elems(byProtocol[p]) \cup {i} /\ s = byProtocol[p]
        /\ \A q \in Protocols \ {p} : byProtocol'[q] = byProtocol[q]
    BY <1>10, <1>11 DEF s
  <2> HIDE DEF i
  <2> QED
    BY <1>5, <2>1, <2>2, <2>3
<1> QED
  BY <1>12, <1>13, <1>14, <1>15, <1>16, <1>17, <1>18 DEF Inv, Types

\* Opening and closing: the open list of one interface, or of those of the
\* handle whose driver stops.
LEMMA OpenCloseStep ==
  ASSUME Inv, NEW i \in live, NEW o \in Opens,
         OpenProtocol(i, o) \/ OpenExclusive(i, o) \/ CloseProtocol(i, o[1], o[3])
  PROVE  Inv'
<1>0. i \in 1 .. Len(openList) /\ openList[i] \subseteq Opens
  BY TypeFacts
<1>1. ASSUME NEW S \in SUBSET Opens, openList' = [openList EXCEPT ![i] = S],
             UNCHANGED <<prots, live, byProtocol, regs, stack>>
      PROVE  Inv'
  <2>1. openList' \in Seq(SUBSET Opens) /\ Len(openList') = Len(prots)
    BY <1>0, <1>1, TypeFacts, ExceptSeq
  <2>2. UNCHANGED <<prots, live, byProtocol, notify, running, seen, due>> /\ signalled' = signalled
        /\ stack' = stack
    BY <1>1 DEF regs
  <2> QED
    BY <2>1, <2>2, TypeFacts, ListsAlone
<1>2. CASE OpenProtocol(i, o)
  <2>1. openList' = [openList EXCEPT ![i] = openList[i] \cup {o}]
        /\ UNCHANGED <<prots, live, byProtocol, regs, stack>>
    BY <1>2 DEF OpenProtocol
  <2>2. openList[i] \cup {o} \in SUBSET Opens
    BY <1>0
  <2> QED
    BY <1>1, <2>1, <2>2
<1>3. CASE CloseProtocol(i, o[1], o[3])
  <2> DEFINE S == {q \in openList[i] : q[1] # o[1] \/ q[3] # o[3]}
  <2>1. openList' = [openList EXCEPT ![i] = S]
        /\ UNCHANGED <<prots, live, byProtocol, regs, stack>>
    BY <1>3 DEF CloseProtocol
  <2>2. S \in SUBSET Opens
    BY <1>0
  <2> HIDE DEF S
  <2> QED
    BY <1>1, <2>1, <2>2
<1>4. CASE OpenExclusive(i, o)
  <2>1. PICK q \in Drivers(i) : Push(Stopping("open", i, prots[i].interface, q, o))
    BY <1>4 DEF OpenExclusive
  <2> DEFINE f == Stopping("open", i, prots[i].interface, q, o)
  <2>2. UNCHANGED <<db, regs>> /\ stack' = Append(stack, f) /\ Exclusive(o)
    BY <1>4, <2>1 DEF OpenExclusive, Push
  <2>3. q \in Opens /\ i \in Nat /\ i \in 1 .. Len(prots) /\ prots[i].interface \in Interfaces
    BY <1>0, <2>1, TypeFacts DEF Drivers
  <2>4. f \in Frames
    BY <2>3, StoppingFrame
  <2>5. FrameOK(f, Len(prots))
    BY <2>2, <2>3 DEF FrameOK, Stopping, InStop
  <2> HIDE DEF f
  <2> QED
    BY <2>2, <2>4, <2>5, TypeFacts, StackPush, OwingPush, OnlyStack
<1> QED
  BY <1>2, <1>3, <1>4

\* The interface that the core finds by its pointer, of those on the handle.
LEMMA FoundInterface ==
  ASSUME Inv, NEW i, NEW ptr, Matching(i, ptr) # {}
  PROVE  /\ FindProtocolInterface(i, ptr) \in live
         /\ FindProtocolInterface(i, ptr) \in Matching(i, ptr)
         /\ prots[FindProtocolInterface(i, ptr)].protocol = prots[i].protocol
<1>1. Len(prots) \in Nat /\ live \subseteq 1 .. Len(prots)
  BY TypeFacts
<1>2. Matching(i, ptr) \subseteq live
  BY DEF Matching, OnHandle
<1>3. Matching(i, ptr) \subseteq 0 .. Len(prots)
  <2>1. 1 .. Len(prots) \subseteq 0 .. Len(prots)
    BY <1>1
  <2> QED
    BY <1>1, <1>2, <2>1
<1>4. Max(Matching(i, ptr)) \in Matching(i, ptr)
  BY <1>1, <1>3, MaxOfSet
<1> QED
  BY <1>2, <1>4 DEF FindProtocolInterface, Matching, OnHandle

\* The end of CoreDisconnectControllersUsingProtocolInterface and what its
\* caller does then.
LEMMA NoDriverLeftStep ==
  ASSUME Inv, NEW op \in {"uninstall", "reinstall"}, NEW i \in 1 .. Len(prots), NEW ptr,
         NEW want \in Interfaces, NEW under, StackOK(under, Len(prots)),
         \A p \in Protocols \cup {"none"} : Owing(stack, p) => Owing(under, p),
         NoDriverLeft(op, i, ptr, want, under)
  PROVE  Inv'
<1> DEFINE rest == StillOpen(i)
           open0 == [openList EXCEPT ![i] = rest]
           p == prots[i].protocol
           found == FindProtocolInterface(i, ptr)
<1>1. /\ Len(prots) \in Nat /\ p \in Protocols \cup {"none"} /\ openList[i] \subseteq Opens
      /\ under \in Seq(Frames)
  BY TypeFacts DEF StackOK
<1>2. open0 \in Seq(SUBSET Opens) /\ Len(open0) = Len(prots)
  <2>1. rest \in SUBSET Opens /\ i \in 1 .. Len(openList)
    BY <1>1, TypeFacts DEF StillOpen
  <2> HIDE DEF rest
  <2> QED
    BY <2>1, TypeFacts, ExceptSeq
<1>3. \A r \in Regs : notify[r].protocol \in Protocols \cup {"none"}
  BY DEF Inv, Types, RegTypes
<1>4. ASSUME NEW o \in {"denied", "reinstall"}, Connect(under, o, p)
      PROVE  /\ StackOK(stack', Len(prots))
             /\ \A q \in Protocols \cup {"none"} : Owing(under, q) => Owing(stack', q)
             /\ o = "reinstall" => Owing(stack', p)
  <2>1. stack' = Append(under, Connecting(o, p))
    BY <1>4 DEF Connect
  <2>2. Connecting(o, p) \in Frames /\ FrameOK(Connecting(o, p), Len(prots))
    BY <1>1, ConnectingFrame DEF FrameOK
  <2> HIDE DEF p
  <2> QED
    BY <1>1, <2>1, <2>2, StackPush, OwingPush
<1>5. ASSUME openList' = open0, UNCHANGED <<prots, live, byProtocol, regs>>,
             StackOK(stack', Len(prots)),
             \A q \in Protocols \cup {"none"} : Owing(under, q) => Owing(stack', q)
      PROVE  Inv'
  <2>1. UNCHANGED <<prots, live, byProtocol, notify, running, seen, due>> /\ signalled' = signalled
    BY <1>5 DEF regs
  <2> HIDE DEF open0
  <2> QED
    BY <1>2, <1>3, <1>5, <2>1, TypeFacts, ListsAlone
<1>6. CASE /\ openList' = open0 /\ Connect(under, "denied", p)
           /\ UNCHANGED <<prots, live, byProtocol, regs>>
  BY <1>4, <1>5, <1>6
<1>7. CASE openList' = open0 /\ stack' = under /\ UNCHANGED <<prots, live, byProtocol, regs>>
  BY <1>5, <1>7
<1>8. CASE Matching(i, ptr) # {} /\ Remove(found, open0) /\ stack' = under
  <2>1. found \in live
    BY <1>8, FoundInterface
  <2> HIDE DEF found, open0
  <2>2. /\ DbTypes' /\ RegTypes' /\ ListsOK' /\ RegsOK' /\ Owed' /\ Len(prots') = Len(prots)
        /\ \A r \in Regs : Registered(r)' =>
             /\ Registered(r) /\ notify'[r].protocol = notify[r].protocol
             /\ CaughtUp(r) => CaughtUp(r)'
    BY <1>2, <1>8, <2>1, RemoveKeepsLists DEF Inv
  <2>3. Types'
    BY <1>8, <2>2 DEF Types
  <2>4. signalled' = signalled /\ running' = running
    BY <1>8 DEF Remove
  <2>5. Told'
    BY <1>3, <1>8, <2>2, <2>4 DEF Inv, Told
  <2> QED
    BY <2>2, <2>3, <2>5 DEF Inv
<1>9. CASE /\ Matching(i, ptr) # {} /\ MoveToTail(found, want, open0)
           /\ Connect(under, "reinstall", p)
  <2>1. found \in live /\ prots[found].protocol = p
    BY <1>9, FoundInterface
  <2> HIDE DEF found, open0
  <2>2. /\ DbTypes' /\ RegTypes' /\ ListsOK' /\ RegsOK' /\ Owed' /\ Len(prots') = Len(prots)
        /\ \A r \in Regs : Registered(r)' =>
             /\ Registered(r) /\ notify'[r].protocol = notify[r].protocol
             /\ CaughtUp(r) /\ notify[r].protocol # prots[found].protocol => CaughtUp(r)'
    BY <1>2, <1>9, <2>1, MoveKeepsLists DEF Inv
  <2>3. /\ StackOK(stack', Len(prots)) /\ Owing(stack', p)
        /\ \A q \in Protocols \cup {"none"} : Owing(under, q) => Owing(stack', q)
    BY <1>4, <1>9
  <2> HIDE DEF p
  <2>4. Types'
    BY <2>2, <2>3 DEF Types
  <2>5. signalled' = signalled /\ running' = running
    BY <1>9 DEF MoveToTail
  <2>6. Told'
    BY <1>3, <2>1, <2>2, <2>3, <2>5 DEF Inv, Told
  <2> QED
    BY <2>2, <2>4, <2>6 DEF Inv
<1> QED
  BY <1>6, <1>7, <1>8, <1>9 DEF NoDriverLeft

\* CoreUninstallProtocolInterface and CoreReinstallProtocolInterface begin.
LEMMA StartStep ==
  ASSUME Inv, NEW op \in {"uninstall", "reinstall"}, NEW i \in live, NEW want \in Interfaces,
         Start(op, i, want)
  PROVE  Inv'
<1>1. /\ i \in 1 .. Len(prots) /\ i \in Nat /\ openList[i] \subseteq Opens
      /\ prots[i].interface \in Interfaces /\ StackOK(stack, Len(prots))
  BY TypeFacts
<1>2. CASE Drivers(i) = {}
  BY <1>1, <1>2, NoDriverLeftStep DEF Start
<1>3. CASE Drivers(i) # {}
  <2>1. PICK o \in Drivers(i) : Push(Stopping(op, i, prots[i].interface, o, want))
    BY <1>3 DEF Start
  <2> DEFINE f == Stopping(op, i, prots[i].interface, o, want)
  <2>2. UNCHANGED <<db, regs>> /\ stack' = Append(stack, f)
    BY <1>3, <2>1 DEF Start, Push
  <2>3. o \in Opens
    BY <1>1, <2>1 DEF Drivers
  <2>4. f \in Frames
    BY <1>1, <2>3, StoppingFrame
  <2>5. FrameOK(f, Len(prots))
    BY <1>1 DEF FrameOK, Stopping, InStop
  <2> HIDE DEF f
  <2> QED
    BY <2>2, <2>4, <2>5, TypeFacts, StackPush, OwingPush, OnlyStack
<1> QED
  BY <1>2, <1>3

\* The frame of a driver being stopped.
LEMMA StopFrame ==
  ASSUME Inv, stack # <<>>, InStop(Top)
  PROVE  /\ Top \in Stops /\ FrameOK(Top, Len(prots)) /\ Top.phase = "stop"
         /\ Top.prot \in 1 .. Len(prots) /\ Top.driver \in Opens
         /\ Top.op = "open" => Top.want \in Opens /\ Exclusive(Top.want)
         /\ Top.op # "open" => Top.op \in {"uninstall", "reinstall"} /\ Top.want \in Interfaces
         /\ openList[Top.prot] \subseteq Opens
         /\ StackOK(Under, Len(prots))
         /\ \A p \in Protocols \cup {"none"} : Owing(stack, p) => Owing(Under, p)
<1>1. Len(prots) \in Nat /\ StackOK(stack, Len(prots))
  BY TypeFacts
<1>2. Top \in Stops /\ FrameOK(Top, Len(prots)) /\ StackOK(Under, Len(prots))
  BY <1>1, StackPop, FrameKinds DEF InStop
<1>3. Top.phase = "stop" /\ Top.driver \in Opens /\ Top.op \in {"open", "uninstall", "reinstall"}
  BY <1>2 DEF Stops
<1>4. /\ Top.prot \in 1 .. Len(prots)
      /\ Top.op = "open" => Top.want \in Opens /\ Exclusive(Top.want)
      /\ Top.op # "open" => Top.want \in Interfaces
  BY <1>2 DEF FrameOK
<1>5. \A p \in Protocols \cup {"none"} : Owing(stack, p) => Owing(Under, p)
  BY <1>1, <1>3, OwingPop
<1> QED
  BY <1>2, <1>3, <1>4, <1>5, TypeFacts

\* The call goes on to another driver or notes that one has stopped; open lists
\* change at most.
LEMMA StopGoesOnStep ==
  ASSUME Inv, stack # <<>>, InStop(Top), NEW f \in Frames, FrameOK(f, Len(prots)),
         Replace(f), UNCHANGED <<prots, live, byProtocol, regs>>,
         openList' \in Seq(SUBSET Opens), Len(openList') = Len(prots)
  PROVE  Inv'
<1>1. Len(prots) \in Nat /\ StackOK(stack, Len(prots)) /\ Top.phase # "connect"
  BY TypeFacts DEF InStop
<1>2. stack' = [stack EXCEPT ![Len(stack)] = f]
  BY DEF Replace
<1>3. StackOK(stack', Len(prots))
  BY <1>1, <1>2, StackReplace
<1>4. \A p \in Protocols \cup {"none"} : Owing(stack, p) => Owing(stack', p)
  BY <1>1, <1>2, OwingReplace
<1>5. UNCHANGED <<prots, live, byProtocol, notify, running, seen, due>> /\ signalled' = signalled
  BY DEF regs
<1>6. \A r \in Regs : notify[r].protocol \in Protocols \cup {"none"}
  BY DEF Inv, Types, RegTypes
<1> QED
  BY <1>3, <1>4, <1>5, <1>6, TypeFacts, ListsAlone

\* CoreDisconnectController, from the driver's Stop to its return.
LEMMA StopStep ==
  ASSUME Inv, DriverStops \/ StopSucceeds \/ StopFails
  PROVE  Inv'
<1>1. stack # <<>> /\ InStop(Top)
  BY DEF DriverStops, StopSucceeds, StopFails
<1>2. /\ Top \in Stops /\ FrameOK(Top, Len(prots)) /\ Top.phase = "stop"
      /\ Top.prot \in 1 .. Len(prots) /\ Top.driver \in Opens
      /\ Top.op = "open" => Top.want \in Opens /\ Exclusive(Top.want)
      /\ Top.op # "open" => Top.op \in {"uninstall", "reinstall"} /\ Top.want \in Interfaces
      /\ openList[Top.prot] \subseteq Opens
      /\ StackOK(Under, Len(prots))
      /\ \A p \in Protocols \cup {"none"} : Owing(stack, p) => Owing(Under, p)
  BY <1>1, StopFrame
<1>3. /\ Len(prots) \in Nat /\ openList \in Seq(SUBSET Opens) /\ Len(openList) = Len(prots)
      /\ DOMAIN openList = 1 .. Len(prots) /\ signalled \in [Regs -> BOOLEAN]
      /\ \A i \in 1 .. Len(prots) : openList[i] \subseteq Opens
  BY TypeFacts
<1>4. \A r \in Regs : notify[r].protocol \in Protocols \cup {"none"}
  BY DEF Inv, Types, RegTypes
<1>5. ASSUME NEW o \in Drivers(Top.prot), Replace([Top EXCEPT !.driver = o, !.stopped = FALSE]),
             UNCHANGED <<db, regs>>
      PROVE  Inv'
  <2> DEFINE f == [Top EXCEPT !.driver = o, !.stopped = FALSE]
  <2>1. o \in Opens
    BY <1>2 DEF Drivers
  <2>2. f \in Frames /\ FrameOK(f, Len(prots))
    BY <1>2, <1>3, <2>1, StopGoesOn
  <2>3. UNCHANGED <<prots, live, byProtocol, regs>> /\ openList' = openList
    BY <1>5 DEF db
  <2>4. Replace(f)
    BY <1>5
  <2> HIDE DEF f
  <2> QED
    BY <1>1, <1>3, <2>2, <2>3, <2>4, StopGoesOnStep
<1>6. CASE DriverStops
  <2> DEFINE f == [Top EXCEPT !.stopped = TRUE]
  <2>1. f \in Frames /\ FrameOK(f, Len(prots))
    BY <1>2, <1>3, StopGoesOn
  <2>2. /\ Replace(f) /\ UNCHANGED <<prots, live, byProtocol, regs>>
        /\ DOMAIN openList' = DOMAIN openList
        /\ \A i \in DOMAIN openList : openList'[i] \subseteq openList[i]
        /\ openList' = [i \in DOMAIN openList |-> openList'[i]]
    BY <1>6 DEF DriverStops
  <2> HIDE DEF f
  <2>3. openList' \in [1 .. Len(prots) -> SUBSET Opens]
    BY <1>3, <2>2
  <2>4. openList' \in Seq(SUBSET Opens) /\ Len(openList') = Len(prots)
    BY <1>3, <2>3
  <2> QED
    BY <1>1, <2>1, <2>2, <2>4, StopGoesOnStep
<1>7. CASE StopSucceeds /\ Top.op = "open"
  <2>1. OpenStopped
    BY <1>7 DEF StopSucceeds
  <2>2. CASE Drivers(Top.prot) = {}
    <3> DEFINE S == openList[Top.prot] \cup {Top.want}
    <3>1. /\ openList' = [openList EXCEPT ![Top.prot] = S] /\ stack' = Under
          /\ UNCHANGED <<prots, live, byProtocol, regs>>
      BY <2>1, <2>2 DEF OpenStopped, Pop
    <3>2. S \in SUBSET Opens /\ Top.prot \in 1 .. Len(openList)
      BY <1>2, <1>3, <1>7
    <3> HIDE DEF S
    <3>3. openList' \in Seq(SUBSET Opens) /\ Len(openList') = Len(prots)
      BY <1>3, <3>1, <3>2, ExceptSeq
    <3>4. UNCHANGED <<prots, live, byProtocol, notify, running, seen, due>> /\ signalled' = signalled
      BY <3>1 DEF regs
    <3> QED
      BY <1>2, <1>3, <1>4, <3>1, <3>3, <3>4, ListsAlone
  <2>3. CASE Drivers(Top.prot) # {}
    BY <1>5, <2>1, <2>3 DEF OpenStopped, db
  <2> QED
    BY <2>2, <2>3
<1>8. CASE StopSucceeds /\ Top.op # "open"
  <2>1. RemovalStopped
    BY <1>8 DEF StopSucceeds
  <2>2. CASE Drivers(Top.prot) = {}
    <3>1. NoDriverLeft(Top.op, Top.prot, Top.interface, Top.want, Under)
      BY <2>1, <2>2 DEF RemovalStopped
    <3> QED
      BY <1>2, <1>8, <3>1, NoDriverLeftStep
  <2>3. CASE Drivers(Top.prot) # {}
    BY <1>5, <2>1, <2>3 DEF RemovalStopped
  <2> QED
    BY <2>2, <2>3
<1>9. CASE StopFails
  <2>1. UNCHANGED <<db, regs>>
    BY <1>9 DEF StopFails
  <2>2. CASE Top.op = "open"
    <3>1. stack' = Under
      BY <1>9, <2>2 DEF StopFails, Pop
    <3> QED
      BY <1>2, <2>1, <3>1, OnlyStack
  <2>3. CASE Top.op # "open"
    <3> DEFINE f == Connecting("denied", prots[Top.prot].protocol)
    <3>1. Replace(f)
      BY <1>9, <2>3 DEF StopFails
    <3>2. prots[Top.prot].protocol \in Protocols \cup {"none"}
      BY <1>2, TypeFacts
    <3>3. f \in Frames /\ FrameOK(f, Len(prots))
      BY <3>2, ConnectingFrame DEF FrameOK
    <3>4. UNCHANGED <<prots, live, byProtocol, regs>> /\ openList' = openList
      BY <2>1 DEF db
    <3> HIDE DEF f
    <3> QED
      BY <1>1, <1>3, <3>1, <3>3, <3>4, StopGoesOnStep
  <2> QED
    BY <2>2, <2>3
<1> QED
  BY <1>6, <1>7, <1>8, <1>9

\* CoreConnectController returns; a reinstallation pays what it owes.
LEMMA ConnectStep ==
  ASSUME Inv, ConnectReturns
  PROVE  Inv'
<1>1. /\ Len(prots) \in Nat /\ StackOK(stack, Len(prots)) /\ stack # <<>>
      /\ openList \in Seq(SUBSET Opens) /\ Len(openList) = Len(prots)
      /\ signalled \in [Regs -> BOOLEAN]
  BY TypeFacts DEF ConnectReturns
<1>2. /\ UNCHANGED <<prots, live, byProtocol, openList, notify, running, seen, due>>
      /\ stack' = Under
  BY DEF ConnectReturns, db, Pop
<1>3. StackOK(stack', Len(prots))
  BY <1>1, <1>2, StackPop
<1>4. /\ signalled' \in [Regs -> BOOLEAN]
      /\ \A r \in Regs : signalled[r] => signalled'[r]
      /\ Top.op = "reinstall" =>
           \A r \in Regs : notify[r].protocol = Top.protocol => signalled'[r]
  <2>1. CASE Top.op = "reinstall"
    <3>1. signalled' = [r \in Regs |-> signalled[r] \/ notify[r].protocol = Top.protocol]
      BY <2>1 DEF ConnectReturns, Signal
    <3> HIDE DEF Top
    <3> QED
      BY <1>1, <3>1
  <2>2. CASE Top.op # "reinstall"
    BY <1>1, <2>2 DEF ConnectReturns
  <2> QED
    BY <2>1, <2>2
<1>5. ASSUME NEW r \in Regs, Owing(stack, notify[r].protocol)
      PROVE  Owing(stack', notify[r].protocol) \/ signalled'[r]
  BY <1>1, <1>2, <1>4, <1>5, OwingPop
<1> QED
  BY <1>1, <1>2, <1>3, <1>4, <1>5, ListsAlone

\* Every step keeps the invariant.
LEMMA InvStep ==
  ASSUME Inv, [Next]_vars
  PROVE  Inv'
<1>1. CASE \E r \in Regs, p \in Protocols : RegisterProtocolNotify(r, p)
  BY <1>1, RegistrationStep
<1>2. CASE \E r \in Regs : \/ SignalEvent(r) \/ UnregisterProtocolNotify(r) \/ NotifyStarts(r)
                           \/ LocateByRegisterNotify(r)
  BY <1>2, RegistrationStep
<1>3. CASE \/ \E h \in Handles, p \in Protocols : InstallCheck(h, p)
           \/ InstallFails
  BY <1>3, InstallStep
<1>4. CASE \E ptr \in Interfaces, Notify \in BOOLEAN : InstallProtocolInterface(ptr, Notify)
  BY <1>4, InstallInterface
<1>5. CASE \E i \in live : \E o \in Opens :
             OpenProtocol(i, o) \/ OpenExclusive(i, o) \/ CloseProtocol(i, o[1], o[3])
  BY <1>5, OpenCloseStep
<1>6. CASE \E i \in live : UninstallProtocolInterface(i)
  BY <1>6, StartStep, TypeFacts DEF UninstallProtocolInterface
<1>7. CASE \E i \in live : \E ptr \in Interfaces : ReinstallProtocolInterface(i, ptr)
  BY <1>7, StartStep DEF ReinstallProtocolInterface
<1>8. CASE DriverStops \/ StopSucceeds \/ StopFails
  BY <1>8, StopStep
<1>9. CASE ConnectReturns
  BY <1>9, ConnectStep
<1>10. CASE UNCHANGED vars
  <2>1. UNCHANGED <<db, regs>> /\ stack' = stack
    BY <1>10 DEF vars
  <2> QED
    BY <2>1, TypeFacts, OnlyStack
<1> QED
  BY <1>1, <1>2, <1>3, <1>4, <1>5, <1>6, <1>7, <1>8, <1>9, <1>10 DEF Next

LEMMA InvInit == Init => Inv
<1> SUFFICES ASSUME Init PROVE Inv
  OBVIOUS
<1>1. /\ prots = <<>> /\ live = {} /\ byProtocol = [p \in Protocols |-> <<>>] /\ openList = <<>>
      /\ notify = [r \in Regs |-> None] /\ signalled = [r \in Regs |-> FALSE]
      /\ running = [r \in Regs |-> FALSE] /\ seen = [r \in Regs |-> {}]
      /\ due = [r \in Regs |-> {}] /\ stack = <<>>
  BY DEF Init
<1>2. DbTypes
  BY <1>1 DEF DbTypes
<1>3. RegTypes
  BY <1>1 DEF RegTypes, None, Head0
<1>4. StackOK(stack, Len(prots))
  BY <1>1 DEF StackOK
<1>5. ListsOK
  BY <1>1 DEF ListsOK, Elems, Injective
<1>6. RegsOK /\ Owed /\ Told
  BY <1>1 DEF RegsOK, Owed, Told, Registered
<1> QED
  BY <1>2, <1>3, <1>4, <1>5, <1>6 DEF Inv, Types

\* A registration's Position is found where the registration stands.
LEMMA StandsAtPosition ==
  ASSUME Inv, NEW r \in Regs, Registered(r)
  PROVE  /\ seen[r] = UpTo(notify[r].protocol, notify[r].position)
         /\ notify[r].position \in Members(notify[r].protocol) \cup {Head0}
<1> DEFINE p == notify[r].protocol
           s == byProtocol[p]
<1>1. p \in Protocols /\ s \in Seq(Nat \ {0}) /\ Injective(s)
  BY DEF Inv, RegsOK, ListsOK, Types, DbTypes
<1>2. PICK n \in Nat : Stands(r, s, n)
  BY DEF Inv, RegsOK
<1>3. n \in 0 .. Len(s) /\ notify[r].position = PosAt(s, n) /\ seen[r] = Given(s, n)
  BY <1>2 DEF Stands
<1>4. PlaceOf(p, notify[r].position) = n /\ notify[r].position \in Members(p) \cup {Head0}
  <2>1. CASE n = 0
    BY <1>3, <2>1 DEF PlaceOf, PosAt
  <2>2. CASE n # 0
    <3>1. n \in DOMAIN s /\ notify[r].position = s[n] /\ s[n] # 0
      BY <1>1, <1>3, <2>2 DEF PosAt
    <3>2. IndexOf(s, s[n]) = n
      BY <1>1, <3>1, PlaceInList
    <3> QED
      BY <3>1, <3>2 DEF PlaceOf, Head0, Members
  <2> QED
    BY <2>1, <2>2
<1> QED
  BY <1>3, <1>4 DEF UpTo, Given

\* The calls under way stay within the bound.
LEMMA DepthStep ==
  ASSUME Inv, Len(stack) <= MaxDepth, [Next]_vars
  PROVE  Len(stack') <= MaxDepth
<1>0. MaxDepth \in Nat /\ Len(prots) \in Nat /\ StackOK(stack, Len(prots)) /\ stack \in Seq(Frames)
      /\ Len(stack) \in Nat
  BY HandleDbAssumption, TypeFacts
<1>1. ASSUME NEW f, Push(f) PROVE Len(stack') <= MaxDepth
  <2>1. stack' = Append(stack, f) /\ Len(stack) < MaxDepth
    BY <1>1 DEF Push
  <2>2. Len(stack') = Len(stack) + 1
    BY <1>0, <2>1
  <2> QED
    BY <1>0, <2>1, <2>2
<1>2. ASSUME stack # <<>> PROVE Len(Under) <= MaxDepth /\ Len(Under) \in Nat /\ Under \in Seq(Frames)
  BY <1>0, <1>2, StackPop DEF StackOK
<1>3. ASSUME NEW f, Replace(f) PROVE Len(stack') <= MaxDepth
  <2>1. Len(stack') = Len(stack)
    BY <1>0, <1>3 DEF Replace
  <2> QED
    BY <2>1
<1>4. ASSUME NEW op, NEW i, NEW ptr, NEW want, NEW under \in Seq(Frames), Len(under) <= MaxDepth,
             NoDriverLeft(op, i, ptr, want, under)
      PROVE  Len(stack') <= MaxDepth
  <2>1. \/ stack' = under
        \/ \E o, p : Len(under) < MaxDepth /\ stack' = Append(under, Connecting(o, p))
    BY <1>4 DEF NoDriverLeft, Connect
  <2>2. ASSUME NEW o, NEW p, Len(under) < MaxDepth, stack' = Append(under, Connecting(o, p))
        PROVE  Len(stack') <= MaxDepth
    <3>1. Len(stack') = Len(under) + 1 /\ Len(under) \in Nat
      BY <1>4, <2>2
    <3> QED
      BY <1>0, <2>2, <3>1
  <2> QED
    BY <1>4, <2>1, <2>2
<1>5. ASSUME NEW op, NEW i, NEW want, Start(op, i, want) PROVE Len(stack') <= MaxDepth
  BY <1>0, <1>1, <1>4, <1>5 DEF Start
<1>6. CASE \/ \E r \in Regs, p \in Protocols : RegisterProtocolNotify(r, p)
           \/ \E r \in Regs : \/ SignalEvent(r) \/ UnregisterProtocolNotify(r) \/ NotifyStarts(r)
                              \/ LocateByRegisterNotify(r)
           \/ \E i \in live : \E o \in Opens : OpenProtocol(i, o) \/ CloseProtocol(i, o[1], o[3])
           \/ UNCHANGED vars
  BY <1>6 DEF RegisterProtocolNotify, SignalEvent, UnregisterProtocolNotify, NotifyStarts,
     LocateByRegisterNotify, OpenProtocol, CloseProtocol, vars
<1>7. CASE \/ \E h \in Handles, p \in Protocols : InstallCheck(h, p)
           \/ \E i \in live : \E o \in Opens : OpenExclusive(i, o)
  BY <1>1, <1>7 DEF InstallCheck, OpenExclusive
<1>8. CASE \/ \E ptr \in Interfaces, Notify \in BOOLEAN : InstallProtocolInterface(ptr, Notify)
           \/ InstallFails \/ ConnectReturns
  BY <1>2, <1>8 DEF InstallProtocolInterface, InstallFails, ConnectReturns, Pop
<1>9. CASE \/ \E i \in live : UninstallProtocolInterface(i)
           \/ \E i \in live : \E ptr \in Interfaces : ReinstallProtocolInterface(i, ptr)
  BY <1>5, <1>9 DEF UninstallProtocolInterface, ReinstallProtocolInterface
<1>10. CASE DriverStops \/ StopFails
  BY <1>2, <1>3, <1>10 DEF DriverStops, StopFails, Pop
<1>11. CASE StopSucceeds
  <2>1. stack # <<>> /\ (OpenStopped \/ RemovalStopped)
    BY <1>11 DEF StopSucceeds
  <2>2. CASE OpenStopped
    BY <1>2, <1>3, <2>1, <2>2 DEF OpenStopped, Pop
  <2>3. CASE RemovalStopped
    BY <1>2, <1>3, <1>4, <2>1, <2>3 DEF RemovalStopped
  <2> QED
    BY <2>1, <2>2, <2>3
<1> QED
  BY <1>6, <1>7, <1>8, <1>9, <1>10, <1>11 DEF Next

----------------------------------------------------------------------------
(* The theorems about lists and registrations.                             *)

\* Every interface in the database is once in the list of its protocol and
\* every Position is in the list it walks, whatever drivers and notification
\* functions do while the protocol lock is released.
THEOREM DatabaseConsistent == Spec => []TypeOK
<1> DEFINE IInv == Inv /\ Len(stack) <= MaxDepth
<1>1. Init => IInv
  BY InvInit, HandleDbAssumption DEF Init
<1>2. IInv /\ [Next]_vars => IInv'
  BY InvStep, DepthStep
<1>3. IInv => TypeOK
  <2> SUFFICES ASSUME IInv PROVE TypeOK
    OBVIOUS
  <2>1. /\ DOMAIN prots = 1 .. Len(prots) /\ DOMAIN openList = 1 .. Len(prots)
        /\ live \subseteq 1 .. Len(prots)
    BY TypeFacts DEF Inv, Types, DbTypes
  <2>2. \A p \in Protocols : Members(p) = {i \in live : prots[i].protocol = p}
                             /\ Injective(byProtocol[p])
    BY DEF Inv, ListsOK, Members, Elems
  <2>3. \A i \in live : openList[i] \subseteq Opens
    BY TypeFacts
  <2>4. \A r \in Regs :
          Registered(r) => notify[r].position \in Members(notify[r].protocol) \cup {Head0}
    BY StandsAtPosition
  <2>5. \A i \in live : /\ prots[i].handle \in Handles
                        /\ prots[i].protocol \in Protocols
                        /\ prots[i].interface \in Interfaces
    BY DEF Inv, Types, DbTypes
  <2> QED
    BY <2>1, <2>2, <2>3, <2>4, <2>5 DEF TypeOK
<1> QED
  BY <1>1, <1>2, <1>3, PTL DEF Spec

\* However interfaces are removed, replaced and installed between two calls of
\* CoreLocateHandle or CoreLocateProtocol, a registration has been given what
\* lies up to its Position and nothing else.
THEOREM NothingSkipped == Spec => []NoneSkipped
<1>1. Inv => NoneSkipped
  BY StandsAtPosition DEF NoneSkipped
<1>2. Inv /\ [Next]_vars => Inv'
  BY InvStep
<1> QED
  BY <1>1, <1>2, InvInit, PTL DEF Spec

\* A registration that is neither signalled nor running has been given every
\* interface there was when one was last installed with Notify or reinstalled,
\* or its event signalled by EfiCreateProtocolNotifyEvent, since it registered,
\* unless CoreReinstallProtocolInterface has still to notify.
THEOREM EveryoneNotified == Spec => []NotifiedOfAll
<1>1. Inv => NotifiedOfAll
  <2> SUFFICES ASSUME Inv, NEW r \in Regs, Registered(r), ~signalled[r], ~running[r],
                      ~Owing(stack, notify[r].protocol)
               PROVE  due[r] \subseteq seen[r]
    BY DEF NotifiedOfAll, Owing
  <2> QED
    BY DEF Inv, Told, CaughtUp
<1>2. Inv /\ [Next]_vars => Inv'
  BY InvStep
<1> QED
  BY <1>1, <1>2, InvInit, PTL DEF Spec

----------------------------------------------------------------------------
(* Who has an interface open.                                              *)

\* The open list has one managing driver, and no sharing one beside an agent
\* with exclusive access.
Managed(S) ==
  /\ \A o, q \in S : ByDriver(o) /\ ByDriver(q) => o = q
  /\ (\E o \in S : Exclusive(o)) => \A o \in S : o[2] # "driver"
AllManaged == \A i \in 1 .. Len(openList) : Managed(openList[i])

\* What CoreOpenProtocol has seen of the open list when it adds o.
Permitted(S, o) ==
  /\ ByDriver(o) \/ Exclusive(o) => \A q \in S : ~ByDriver(q)
  /\ o[2] = "driver" => \A q \in S : ~Exclusive(q)

\* Closing keeps an open list managed, and so does an opening that is permitted.
LEMMA ManagedLess ==
  ASSUME NEW S, NEW T, T \subseteq S, Managed(S)
  PROVE  Managed(T)
BY DEF Managed

LEMMA ManagedMore ==
  ASSUME NEW S, NEW o, Managed(S), Permitted(S, o)
  PROVE  Managed(S \cup {o})
<1>1. ASSUME NEW a \in S \cup {o}, NEW b \in S \cup {o}, ByDriver(a), ByDriver(b)
      PROVE  a = b
  BY <1>1 DEF Managed, Permitted
<1>2. ASSUME NEW a \in S \cup {o}, NEW b \in S \cup {o}, Exclusive(a), b[2] = "driver"
      PROVE  FALSE
  <2>1. ByDriver(b) /\ ~Exclusive(b)
    BY <1>2 DEF ByDriver, Exclusive
  <2> QED
    BY <1>2, <2>1 DEF Managed, Permitted
<1> QED
  BY <1>1, <1>2 DEF Managed

\* An open list after a step: records are closed, or one that is permitted comes.
OpenStep(i) ==
  \/ openList'[i] = {}
  \/ i \in 1 .. Len(openList) /\ openList'[i] \subseteq openList[i]
  \/ /\ i \in 1 .. Len(openList)
     /\ \E o : Permitted(openList[i], o) /\ openList'[i] = openList[i] \cup {o}

\* The end of a removal or replacement only closes.
LEMMA NoDriverLeftCloses ==
  ASSUME Inv, NEW op, NEW i \in 1 .. Len(prots), NEW ptr, NEW want, NEW under,
         NoDriverLeft(op, i, ptr, want, under)
  PROVE  \A j \in 1 .. Len(openList') : OpenStep(j)
<1> DEFINE open0 == [openList EXCEPT ![i] = StillOpen(i)]
           found == FindProtocolInterface(i, ptr)
<1>1. /\ openList \in Seq(SUBSET Opens) /\ i \in DOMAIN openList
      /\ DOMAIN openList = 1 .. Len(openList)
  BY TypeFacts
<1>2. DOMAIN open0 = DOMAIN openList /\ \A j \in DOMAIN openList : open0[j] \subseteq openList[j]
  BY <1>1 DEF StillOpen
<1>3. openList' = open0 \/ openList' = [open0 EXCEPT ![found] = {}]
  BY DEF NoDriverLeft, Remove, MoveToTail
<1> HIDE DEF open0, found
<1>4. /\ DOMAIN openList' = DOMAIN openList
      /\ \A j \in DOMAIN openList : openList'[j] \subseteq openList[j]
  BY <1>2, <1>3
<1>5. open0 \in Seq(SUBSET Opens) /\ Len(open0) = Len(openList)
  <2>1. StillOpen(i) \in SUBSET Opens
    BY TypeFacts DEF StillOpen
  <2> QED
    BY <1>1, <2>1, ExceptSeq DEF open0
<1>6. Len(openList') = Len(openList)
  BY <1>3, <1>5
<1> QED
  BY <1>1, <1>4, <1>6 DEF OpenStep

LEMMA OpenListStep ==
  ASSUME Inv, [Next]_vars
  PROVE  \A j \in 1 .. Len(openList') : OpenStep(j)
<1>0. /\ openList \in Seq(SUBSET Opens) /\ Len(openList) = Len(prots) /\ Len(prots) \in Nat
      /\ DOMAIN openList = 1 .. Len(openList) /\ live \subseteq 1 .. Len(openList)
  BY TypeFacts
<1>1. ASSUME UNCHANGED openList PROVE \A j \in 1 .. Len(openList') : OpenStep(j)
  BY <1>1 DEF OpenStep
<1>2. ASSUME NEW i \in 1 .. Len(openList), NEW S, openList' = [openList EXCEPT ![i] = S],
             \/ S \subseteq openList[i]
             \/ \E o : Permitted(openList[i], o) /\ S = openList[i] \cup {o}
      PROVE  \A j \in 1 .. Len(openList') : OpenStep(j)
  <2>1. /\ Len(openList') = Len(openList) /\ openList'[i] = S
        /\ \A j \in 1 .. Len(openList) : j # i => openList'[j] = openList[j]
    BY <1>0, <1>2
  <2> QED
    BY <1>2, <2>1 DEF OpenStep
<1>3. CASE \/ \E r \in Regs, p \in Protocols : RegisterProtocolNotify(r, p)
           \/ \E r \in Regs : \/ SignalEvent(r) \/ UnregisterProtocolNotify(r) \/ NotifyStarts(r)
                              \/ LocateByRegisterNotify(r)
           \/ \E h \in Handles, p \in Protocols : InstallCheck(h, p)
           \/ InstallFails \/ ConnectReturns \/ StopFails
           \/ \E i \in live : \E o \in Opens : OpenExclusive(i, o)
           \/ UNCHANGED vars
  BY <1>1, <1>3 DEF RegisterProtocolNotify, SignalEvent, UnregisterProtocolNotify, NotifyStarts,
     LocateByRegisterNotify, InstallCheck, InstallFails, ConnectReturns, StopFails,
     OpenExclusive, vars, db
<1>4. CASE \E ptr \in Interfaces, Notify \in BOOLEAN : InstallProtocolInterface(ptr, Notify)
  <2>1. openList' = Append(openList, {})
    BY <1>4 DEF InstallProtocolInterface
  <2>2. /\ Len(openList') = Len(openList) + 1 /\ openList'[Len(openList) + 1] = {}
        /\ \A j \in 1 .. Len(openList) : openList'[j] = openList[j]
    BY <1>0, <2>1
  <2> QED
    BY <1>0, <2>2 DEF OpenStep
<1>5. CASE \E i \in live : \E o \in Opens : OpenProtocol(i, o)
  <2>1. PICK i \in live, o \in Opens : OpenProtocol(i, o)
    BY <1>5
  <2>2. openList' = [openList EXCEPT ![i] = openList[i] \cup {o}] /\ MayOpen(i, o)
    BY <2>1 DEF OpenProtocol
  <2>3. Permitted(openList[i], o)
    <3>1. CASE o[2] = "driver" \/ Exclusive(o)
      BY <2>2, <3>1 DEF MayOpen, Permitted
    <3>2. CASE ~(o[2] = "driver" \/ Exclusive(o))
      BY <3>2 DEF Permitted, ByDriver, Exclusive
    <3> QED
      BY <3>1, <3>2
  <2> QED
    BY <1>0, <1>2, <2>2, <2>3
<1>6. CASE \E i \in live : \E o \in Opens : CloseProtocol(i, o[1], o[3])
  <2>1. PICK i \in live, o \in Opens : CloseProtocol(i, o[1], o[3])
    BY <1>6
  <2> DEFINE S == {q \in openList[i] : q[1] # o[1] \/ q[3] # o[3]}
  <2>2. openList' = [openList EXCEPT ![i] = S] /\ S \subseteq openList[i]
    BY <2>1 DEF CloseProtocol
  <2> HIDE DEF S
  <2> QED
    BY <1>0, <1>2, <2>2
<1>7. ASSUME NEW op, NEW i \in live, NEW want, Start(op, i, want)
      PROVE  \A j \in 1 .. Len(openList') : OpenStep(j)
  BY <1>0, <1>1, <1>7, NoDriverLeftCloses DEF Start, db
<1>8. CASE \/ \E i \in live : UninstallProtocolInterface(i)
           \/ \E i \in live : \E ptr \in Interfaces : ReinstallProtocolInterface(i, ptr)
  BY <1>7, <1>8 DEF UninstallProtocolInterface, ReinstallProtocolInterface
<1>9. CASE DriverStops
  <2>1. /\ DOMAIN openList' = DOMAIN openList
        /\ \A j \in DOMAIN openList : openList'[j] \subseteq openList[j]
        /\ openList' = [j \in DOMAIN openList |-> openList'[j]]
    BY <1>9 DEF DriverStops
  <2>2. Len(openList') = Len(openList)
    BY <1>0, <2>1
  <2> QED
    BY <1>0, <2>1, <2>2 DEF OpenStep
<1>10. CASE StopSucceeds
  <2>1. stack # <<>> /\ InStop(Top)
    BY <1>10 DEF StopSucceeds
  <2>2. Top.prot \in 1 .. Len(prots) /\ (Top.op = "open" => Exclusive(Top.want))
    BY <2>1, StopFrame
  <2>3. CASE Top.op = "open"
    <3>1. OpenStopped
      BY <1>10, <2>3 DEF StopSucceeds
    <3>2. CASE Drivers(Top.prot) = {}
      <4>1. openList' = [openList EXCEPT ![Top.prot] = openList[Top.prot] \cup {Top.want}]
        BY <3>1, <3>2 DEF OpenStopped
      <4>2. Permitted(openList[Top.prot], Top.want)
        BY <2>2, <2>3, <3>2 DEF Permitted, Drivers, Exclusive
      <4> QED
        BY <1>0, <1>2, <2>2, <4>1, <4>2
    <3>3. CASE Drivers(Top.prot) # {}
      BY <1>1, <3>1, <3>3 DEF OpenStopped
    <3> QED
      BY <3>2, <3>3
  <2>4. CASE Top.op # "open"
    <3>1. RemovalStopped
      BY <1>10, <2>4 DEF StopSucceeds
    <3>2. CASE Drivers(Top.prot) = {}
      BY <2>2, <3>1, <3>2, NoDriverLeftCloses DEF RemovalStopped
    <3>3. CASE Drivers(Top.prot) # {}
      BY <1>1, <3>1, <3>3 DEF RemovalStopped, db
    <3> QED
      BY <3>2, <3>3
  <2> QED
    BY <2>3, <2>4
<1> QED
  BY <1>3, <1>4, <1>5, <1>6, <1>8, <1>9, <1>10 DEF Next

\* Whatever is opened and closed while CoreOpenProtocol has a driver stopped,
\* an interface has one managing driver at most, and none that shares it
\* beside an agent with exclusive access.
THEOREM SingleManager == Spec => []OneManager
<1> DEFINE IInv == Inv /\ AllManaged
<1>1. Init => IInv
  BY InvInit DEF Init, AllManaged
<1>2. IInv /\ [Next]_vars => IInv'
  <2> SUFFICES ASSUME Inv, AllManaged, [Next]_vars PROVE IInv'
    OBVIOUS
  <2>1. ASSUME NEW j \in 1 .. Len(openList') PROVE Managed(openList'[j])
    <3>1. OpenStep(j)
      BY OpenListStep
    <3>2. CASE openList'[j] = {}
      BY <3>2 DEF Managed
    <3>3. CASE j \in 1 .. Len(openList) /\ openList'[j] \subseteq openList[j]
      BY <3>3, ManagedLess DEF AllManaged
    <3>4. CASE /\ j \in 1 .. Len(openList)
               /\ \E o : Permitted(openList[j], o) /\ openList'[j] = openList[j] \cup {o}
      BY <3>4, ManagedMore DEF AllManaged
    <3> QED
      BY <3>1, <3>2, <3>3, <3>4 DEF OpenStep
  <2>2. AllManaged'
    BY <2>1 DEF AllManaged
  <2> QED
    BY <2>2, InvStep
<1>3. IInv => OneManager
  <2> SUFFICES ASSUME Inv, AllManaged, NEW i \in live
               PROVE  /\ Cardinality(Drivers(i)) <= 1
                      /\ (\E o \in openList[i] : Exclusive(o))
                           => \A o \in openList[i] : o[2] # "driver"
    BY DEF OneManager
  <2>1. Managed(openList[i])
    BY TypeFacts DEF AllManaged
  <2>2. Cardinality(Drivers(i)) <= 1
    <3>1. CASE Drivers(i) = {}
      BY <3>1, FS_EmptySet
    <3>2. CASE Drivers(i) # {}
      <4>1. PICK o \in Drivers(i) : TRUE
        BY <3>2
      <4>2. Drivers(i) = {o}
        BY <2>1, <4>1 DEF Managed, Drivers
      <4> QED
        BY <4>2, FS_Singleton
    <3> QED
      BY <3>1, <3>2
  <2> QED
    BY <2>1, <2>2 DEF Managed
<1> QED
  BY <1>1, <1>2, <1>3, PTL DEF Spec

----------------------------------------------------------------------------
(* What is removed or replaced.                                            *)

\* The memory of an interface that has left the database is freed.
FreedGone == \A i \in 1 .. Len(prots) : i \notin live => prots[i] = Freed
EntryKept(i) == i \in live' /\ prots'[i].interface = prots[i].interface

\* The end of a removal or replacement changes the interface it was called for
\* and nothing else, if the handle has one of the protocol, and leaves only
\* what it may of its open list.
LEMMA NoDriverLeftRemoves ==
  ASSUME Inv, FreedGone, NEW op, NEW i \in 1 .. Len(prots), NEW ptr, NEW want, NEW under,
         NoDriverLeft(op, i, ptr, want, under)
  PROVE  /\ FreedGone'
         /\ InstalledOnce => \A j \in live :
              EntryKept(j) \/ \A o \in openList[j] : o[2] = "get"
<1> DEFINE found == FindProtocolInterface(i, ptr)
           open0 == [openList EXCEPT ![i] = StillOpen(i)]
<1>1. prots \in Seq(Entries) /\ live \subseteq 1 .. Len(prots) /\ Len(prots) \in Nat
  BY TypeFacts DEF Inv, Types, DbTypes
<1>2. CASE UNCHANGED <<prots, live>>
  BY <1>2 DEF FreedGone, EntryKept
<1>3. CASE ~UNCHANGED <<prots, live>>
  <2>1. /\ StillOpen(i) = {} /\ Matching(i, ptr) # {}
        /\ Remove(found, open0) \/ MoveToTail(found, want, open0)
    BY <1>3 DEF NoDriverLeft
  <2>2. found \in live /\ found \in Matching(i, ptr)
    BY <2>1, FoundInterface
  <2> HIDE DEF found, open0
  <2>3. /\ Len(prots') = Len(prots)
        /\ \A j \in 1 .. Len(prots) : j # found => prots'[j] = prots[j] /\ (j \in live' <=> j \in live)
        /\ found \notin live' => prots'[found] = Freed
    <3>1. CASE Remove(found, open0)
      <4>1. prots' = [prots EXCEPT ![found] = Freed] /\ live' = live \ {found}
        BY <3>1 DEF Remove
      <4> QED
        BY <1>1, <2>2, <4>1
    <3>2. CASE MoveToTail(found, want, open0)
      <4>1. prots' = [prots EXCEPT ![found].interface = want] /\ live' = live
        BY <3>2 DEF MoveToTail
      <4> QED
        BY <1>1, <2>2, <4>1
    <3> QED
      BY <2>1, <3>1, <3>2
  <2>4. FreedGone'
    BY <2>3 DEF FreedGone
  <2>5. \A j \in live : EntryKept(j) \/ j = found
    BY <1>1, <2>3 DEF EntryKept
  <2>6. prots[found].handle = prots[i].handle /\ prots[found].protocol = prots[i].protocol
    BY <2>2 DEF Matching, OnHandle
  <2>7. i \in live
    <3>1. prots[found].handle \in Handles
      BY <2>2 DEF Inv, Types, DbTypes
    <3> QED
      BY <2>6, <3>1, HandleDbAssumption DEF FreedGone, Freed
  <2>8. InstalledOnce => found = i
    BY <2>2, <2>6, <2>7 DEF InstalledOnce
  <2>9. \A o \in openList[i] : o[2] = "get"
    BY <2>1 DEF StillOpen
  <2> QED
    BY <2>4, <2>5, <2>8, <2>9
<1> QED
  BY <1>2, <1>3

LEMMA EntryStep ==
  ASSUME Inv, FreedGone, [Next]_vars
  PROVE  /\ FreedGone'
         /\ InstalledOnce => \A j \in live :
              EntryKept(j) \/ \A o \in openList[j] : o[2] = "get"
<1> DEFINE Goal == /\ FreedGone'
                   /\ InstalledOnce => \A j \in live :
                        EntryKept(j) \/ \A o \in openList[j] : o[2] = "get"
<1> SUFFICES Goal
  OBVIOUS
<1>0. prots \in Seq(Entries) /\ live \subseteq 1 .. Len(prots) /\ Len(prots) \in Nat
  BY TypeFacts DEF Inv, Types, DbTypes
<1>1. ASSUME UNCHANGED <<prots, live>> PROVE Goal
  BY <1>1 DEF FreedGone, EntryKept
<1>2. ASSUME NEW op, NEW i \in 1 .. Len(prots), NEW ptr, NEW want, NEW under,
             NoDriverLeft(op, i, ptr, want, under)
      PROVE  Goal
  BY <1>2, NoDriverLeftRemoves
<1> HIDE DEF Goal
<1>3. CASE \/ \E r \in Regs, p \in Protocols : RegisterProtocolNotify(r, p)
           \/ \E r \in Regs : \/ SignalEvent(r) \/ UnregisterProtocolNotify(r) \/ NotifyStarts(r)
                              \/ LocateByRegisterNotify(r)
           \/ \E h \in Handles, p \in Protocols : InstallCheck(h, p)
           \/ InstallFails \/ ConnectReturns \/ StopFails \/ DriverStops
           \/ UNCHANGED vars
  BY <1>1, <1>3 DEF RegisterProtocolNotify, SignalEvent, UnregisterProtocolNotify, NotifyStarts,
     LocateByRegisterNotify, InstallCheck, InstallFails, ConnectReturns, StopFails,
     DriverStops, vars, db
<1>4. CASE \E i \in live : \E o \in Opens :
             OpenProtocol(i, o) \/ OpenExclusive(i, o) \/ CloseProtocol(i, o[1], o[3])
  BY <1>1, <1>4 DEF OpenProtocol, OpenExclusive, CloseProtocol, db
<1>5. CASE \E ptr \in Interfaces, Notify \in BOOLEAN : InstallProtocolInterface(ptr, Notify)
  <2>1. PICK e : prots' = Append(prots, e) /\ live' = live \cup {Len(prots) + 1}
    BY <1>5 DEF InstallProtocolInterface
  <2>2. /\ Len(prots') = Len(prots) + 1
        /\ \A j \in 1 .. Len(prots) : prots'[j] = prots[j]
    BY <1>0, <2>1
  <2>3. FreedGone'
    BY <1>0, <2>1, <2>2 DEF FreedGone
  <2>4. \A j \in live : EntryKept(j)
    BY <1>0, <2>1, <2>2 DEF EntryKept
  <2> QED
    BY <2>3, <2>4 DEF Goal
<1>6. ASSUME NEW op, NEW i \in live, NEW want, Start(op, i, want) PROVE Goal
  <2>1. i \in 1 .. Len(prots)
    BY <1>0
  <2> QED
    BY <1>1, <1>2, <1>6, <2>1 DEF Start, db
<1>7. CASE \/ \E i \in live : UninstallProtocolInterface(i)
           \/ \E i \in live : \E ptr \in Interfaces : ReinstallProtocolInterface(i, ptr)
  BY <1>6, <1>7 DEF UninstallProtocolInterface, ReinstallProtocolInterface
<1>8. CASE StopSucceeds
  <2>1. Top.prot \in 1 .. Len(prots)
    BY <1>8, StopFrame DEF StopSucceeds
  <2>2. CASE OpenStopped
    BY <1>1, <2>2 DEF OpenStopped
  <2>3. CASE RemovalStopped
    BY <1>1, <1>2, <2>1, <2>3 DEF RemovalStopped, db
  <2> QED
    BY <1>8, <2>2, <2>3 DEF StopSucceeds
<1> QED
  BY <1>3, <1>4, <1>5, <1>7, <1>8 DEF Next

\* CoreUninstallProtocolInterface and CoreReinstallProtocolInterface take an
\* interface away from no driver, child controller or exclusive user, however
\* long its drivers took to stop and whatever was opened meanwhile.
THEOREM RemovalsAreClosed == Spec => RemovedIsClosed
<1> DEFINE IInv == Inv /\ FreedGone
           Closed == \A i \in live :
             (i \notin live' \/ prots'[i].interface # prots[i].interface) /\ InstalledOnce
               => \A o \in openList[i] : o[2] = "get"
<1>1. Init => IInv
  BY InvInit DEF Init, FreedGone
<1>2. IInv /\ [Next]_vars => IInv'
  BY InvStep, EntryStep
<1>3. IInv /\ [Next]_vars => [Closed]_vars
  BY EntryStep DEF EntryKept
<1> QED
  BY <1>1, <1>2, <1>3, PTL DEF Spec, RemovedIsClosed
=============================================================================
