-------------------------- MODULE FilterPipeProofs --------------------------
(***************************************************************************)
(* Proofs that TypeOK and StarvesOnlyWhenSlow hold of every pipe, file and *)
(* speed, and Delivers of every file that is cut well for the filters.     *)
(*                                                                         *)
(* The first part is what LineFilter computes, for all texts and buffers:  *)
(* the reference functions Joined, Kept and Scan, and where a filter       *)
(* stands, which buffers it has read and written and what its locals have  *)
(* to do with that (Stands).  Every step of do_filter leads from there to  *)
(* where it stands next, and what it writes is what the reference has at   *)
(* that place (WritesNext).                                                *)
(*                                                                         *)
(* For StarvesOnlyWhenSlow the invariant IInv says how long the first of   *)
(* two filters may still take while the second one sleeps: it has to read  *)
(* and to write once, each within delay ticks, and 2 * delay is less than  *)
(* the sleep.                                                              *)
(*                                                                         *)
(* For Delivers the invariant FlowInv counts the buffers each filter has   *)
(* read and written.  Each stands where these numbers say (Stands), and    *)
(* the connector behind it holds what it has written and the next one has  *)
(* not read yet (Holds).                                                   *)
(***************************************************************************)
EXTENDS FilterPipe, SequenceTheorems, WellFoundedInduction, TLAPS

-----------------------------------------------------------------------------
\* Induction and recursive functions.  The induction rules of the library are about predicates, and
\* a recursive function f[x \in S] == e is the choice of some f that equals [x \in S |-> e]: that
\* there is one must be shown.  Here both are stated of sets and functions, so that they can be
\* cited like other facts.

\* A set of natural numbers that is not empty has a smallest element.
LEMMA SmallestOf ==
    ASSUME NEW T, T \subseteq Nat, T # {}
    PROVE  \E x \in T : \A y \in T : x <= y
<1> DEFINE R == {ss \in Nat \X Nat : ss[1] < ss[2]}
<1>1. \A y, x \in Nat : y < x => <<y, x>> \in R
  OBVIOUS
<1>2. PICK x \in T : \A y \in T : ~ (<<y, x>> \in R)
  <2>1. IsWellFoundedOn(R, Nat)
    BY NatLessThanWellFounded DEF OpToRel
  <2> HIDE DEF R
  <2> QED  BY <2>1, WFMin
<1> HIDE DEF R
<1>3. ASSUME NEW y \in T PROVE x <= y
  <2>1. x \in Nat /\ y \in Nat
    OBVIOUS
  <2>2. ~(y < x)
    BY <1>1, <1>2, <2>1
  <2> QED BY <2>1, <2>2
<1> QED BY <1>3

\* What holds at 0, and at i when it holds at i - 1, holds up to n.
LEMMA Induction ==
    ASSUME NEW n \in Nat, NEW T, 0 \in T, \A i \in 1 .. n : i - 1 \in T => i \in T
    PROVE  \A i \in 0 .. n : i \in T
<1> DEFINE U == {i \in 0 .. n : i \notin T}
<1>1. U \subseteq Nat
  OBVIOUS
<1> SUFFICES ASSUME U # {} PROVE FALSE
  OBVIOUS
<1>2. PICK k \in U : \A j \in U : k <= j
  <2> HIDE DEF U
  <2> QED BY <1>1, SmallestOf
<1>3. k \in 1 .. n /\ k - 1 \in 0 .. n
  OBVIOUS
<1>4. k - 1 \in T
  BY <1>2, <1>3
<1> QED BY <1>3, <1>4

\* f begins with x, and next[i] gives its i-th value from the one before.
Iterates(f, n, X, x, next) ==
    /\ f \in [0 .. n -> X]
    /\ f[0] = x
    /\ \A i \in 1 .. n : f[i] = next[i][f[i - 1]]

\* There is such a function.
LEMMA IterateExists ==
    ASSUME NEW X, NEW n \in Nat, NEW x \in X, NEW next \in [1 .. n -> [X -> X]]
    PROVE  \E f : Iterates(f, n, X, x, next)
<1> USE DEF Iterates
<1> DEFINE Good(k) == \E f \in [0 .. k -> X] : f[0] = x /\ \A i \in 1 .. k : f[i] = next[i][f[i - 1]]
           T == {k \in 0 .. n : ~Good(k)}
<1>0. T \subseteq Nat
  OBVIOUS
<1> SUFFICES ASSUME T # {} PROVE FALSE
  <2>1. n \notin T => Good(n) OBVIOUS
  <2> QED BY <2>1
<1>1. PICK k \in T : \A j \in T : k <= j
  <2> HIDE DEF T
  <2> QED BY <1>0, SmallestOf
<1>2. Good(0)
  <2> DEFINE f == [i \in 0 .. 0 |-> x]
  <2>1. f \in [0 .. 0 -> X] /\ f[0] = x /\ \A i \in 1 .. 0 : FALSE
    OBVIOUS
  <2> HIDE DEF f
  <2> QED BY <2>1
<1>3. k # 0 /\ k \in 1 .. n
  <2>1. k \in 0 .. n /\ ~Good(k)
    OBVIOUS
  <2> HIDE DEF Good
  <2> QED BY <1>2, <2>1
<1>4. Good(k - 1)
  <2> HIDE DEF Good
  <2> QED BY <1>1, <1>3
<1>5. PICK f \in [0 .. k - 1 -> X] : f[0] = x /\ \A i \in 1 .. k - 1 : f[i] = next[i][f[i - 1]]
  BY <1>4
<1> DEFINE v == next[k][f[k - 1]]
           g == [i \in 0 .. k |-> IF i = k THEN v ELSE f[i]]
<1>6. f[k - 1] \in X /\ v \in X
  BY <1>3, <1>5
<1>7. g \in [0 .. k -> X]
  BY <1>3, <1>5, <1>6
<1>8. g[0] = x /\ \A i \in 1 .. k : g[i] = next[i][g[i - 1]]
  <2>1. g[0] = x /\ g[k] = v /\ \A i \in 0 .. k - 1 : g[i] = f[i]
    <3> HIDE DEF v
    <3> QED BY <1>3, <1>5
  <2> HIDE DEF g
  <2>2. ASSUME NEW i \in 1 .. k PROVE g[i] = next[i][g[i - 1]]
    <3>1. CASE i = k
      BY <1>3, <2>1, <3>1
    <3>2. CASE i # k
      <4>1. i \in 1 .. k - 1 /\ i \in 0 .. k - 1 /\ i - 1 \in 0 .. k - 1
        BY <1>3, <3>2
      <4> QED BY <1>5, <2>1, <4>1
    <3> QED BY <3>1, <3>2
  <2> QED BY <2>1, <2>2
<1>9. Good(k)
  <2> HIDE DEF g
  <2> QED BY <1>7, <1>8
<1> QED BY <1>9, <1>1

-----------------------------------------------------------------------------
\* Texts and files.

\* t begins with s
Extends(t, s) == Len(s) <= Len(t) /\ \A p \in 1 .. Len(s) : t[p] = s[p]

\* Sequences each of which begins with the one before begin with all before.
LEMMA Growing ==
    ASSUME NEW S, NEW n \in Nat, NEW f \in [0 .. n -> Seq(S)],
           \A i \in 1 .. n : Extends(f[i], f[i - 1])
    PROVE  \A m \in 0 .. n, k \in 0 .. n : k <= m => Extends(f[m], f[k])
<1> DEFINE T == {m \in 0 .. n : \A k \in 0 .. m : Extends(f[m], f[k])}
<1>1. 0 \in T
  BY DEF Extends
<1>2. ASSUME NEW m \in 1 .. n, m - 1 \in T PROVE m \in T
  <2> SUFFICES ASSUME NEW k \in 0 .. m PROVE Extends(f[m], f[k])
    OBVIOUS
  <2>0. m \in 0 .. n /\ m - 1 \in 0 .. n /\ k \in 0 .. n
    OBVIOUS
  <2>1. Len(f[m]) \in Nat /\ Len(f[m - 1]) \in Nat /\ Len(f[k]) \in Nat
    BY <2>0, LenProperties
  <2>2. CASE k = m
    BY <2>1, <2>2 DEF Extends
  <2>3. CASE k # m
    <3>1. k \in 0 .. m - 1
      BY <2>3
    <3>2. Extends(f[m - 1], f[k]) /\ Extends(f[m], f[m - 1])
      BY <1>2, <3>1
    <3> QED BY <2>1, <3>2 DEF Extends
  <2> QED BY <2>2, <2>3
<1>3. \A m \in 0 .. n : m \in T
  <2> HIDE DEF T
  <2> QED BY <1>1, <1>2, Induction
<1> QED BY <1>3

\* A sequence that begins with another as long as itself is that one.
LEMMA ExtendsEqual ==
    ASSUME NEW S, NEW s \in Seq(S), NEW t \in Seq(S), Extends(t, s), Len(t) <= Len(s)
    PROVE  t = s
BY SeqEqual, LenProperties DEF Extends

\* An index into the second of two sequences, counted from the first.
LEMMA InSum == \A a, b \in Nat : \A p \in 1 .. b : a + p \in 1 .. a + b
OBVIOUS

\* A sequence begins what is made by appending to it.
LEMMA AppendExtends ==
    ASSUME NEW S, NEW s \in Seq(S), NEW e \in S
    PROVE  Append(s, e) \in Seq(S) /\ Extends(Append(s, e), s) /\ Len(Append(s, e)) = Len(s) + 1
           /\ Append(s, e)[Len(s) + 1] = e
BY AppendProperties, LenProperties DEF Extends

\* A sequence begins what is made by putting another behind it.
LEMMA ConcatExtends ==
    ASSUME NEW S, NEW s \in Seq(S), NEW t \in Seq(S)
    PROVE  /\ s \o t \in Seq(S) /\ Extends(s \o t, s) /\ Len(s \o t) = Len(s) + Len(t)
           /\ \A p \in 1 .. Len(t) : (s \o t)[Len(s) + p] = t[p]
<1>1. Len(s) \in Nat /\ Len(t) \in Nat
  BY LenProperties
<1>2. s \o t \in Seq(S) /\ Len(s \o t) = Len(s) + Len(t)
      /\ \A i \in 1 .. Len(s) + Len(t) : (s \o t)[i] = IF i <= Len(s) THEN s[i] ELSE t[i - Len(s)]
  BY ConcatProperties
<1>3. ASSUME NEW p \in 1 .. Len(t) PROVE (s \o t)[Len(s) + p] = t[p]
  <2>1. Len(s) + p \in 1 .. Len(s) + Len(t) /\ ~(Len(s) + p <= Len(s)) /\ Len(s) + p - Len(s) = p
    BY <1>1
  <2> QED BY <1>2, <2>1
<1> QED BY <1>1, <1>2, <1>3 DEF Extends

-----------------------------------------------------------------------------
(* Joined                                                                  *)

\* The equation of Joined has a solution.
LEMMA JoinedIs ==
    ASSUME NEW S, NEW bufs \in Seq(Seq(S))
    PROVE  /\ Joined(bufs) \in [0 .. Len(bufs) -> Seq(S)]
           /\ Joined(bufs)[0] = <<>>
           /\ \A i \in 1 .. Len(bufs) : Joined(bufs)[i] = Joined(bufs)[i - 1] \o bufs[i]
<1> DEFINE n == Len(bufs)
           X == Seq(S)
           J == Joined(bufs)
           next == [i \in 1 .. n |-> [s \in X |-> s \o bufs[i]]]
           empty == <<>>
<1>1. n \in Nat /\ next \in [1 .. n -> [X -> X]] /\ empty \in X
  BY LenProperties, ConcatProperties, ElementOfSeq, EmptySeq
<1>2. \A i \in 1 .. n, s \in X : next[i][s] = s \o bufs[i]
  OBVIOUS
<1>3. J = CHOOSE f : f = [i \in 0 .. n |-> IF i = 0 THEN empty ELSE f[i - 1] \o bufs[i]]
  BY DEF Joined
<1> HIDE DEF n, next, X, empty, J
<1>4. PICK f : Iterates(f, n, X, empty, next)
  BY <1>1, IterateExists
<1>5. f = [i \in 0 .. n |-> IF i = 0 THEN empty ELSE f[i - 1] \o bufs[i]]
  <2>1. ASSUME NEW i \in 0 .. n, i # 0 PROVE f[i] = f[i - 1] \o bufs[i]
    <3>1. i \in 1 .. n /\ i - 1 \in 0 .. n
      BY <1>1, <2>1
    <3> QED BY <1>2, <1>4, <3>1 DEF Iterates
  <2> QED BY <1>4, <2>1 DEF Iterates
<1>6. J = [i \in 0 .. n |-> IF i = 0 THEN empty ELSE J[i - 1] \o bufs[i]]
  BY <1>3, <1>5, Zenon
<1>7. J[0] = empty /\ \A i \in 1 .. n : J[i] = J[i - 1] \o bufs[i]
  <2>1. \A i \in 0 .. n : J[i] = IF i = 0 THEN empty ELSE J[i - 1] \o bufs[i]
    BY <1>6, Zenon
  <2>2. 0 \in 0 .. n /\ \A i \in 1 .. n : i \in 0 .. n /\ i # 0
    BY <1>1
  <2> QED BY <2>1, <2>2, Zenon
<1>8. \A i \in 0 .. n : J[i] \in X
  <2> DEFINE T == {j \in 0 .. n : J[j] \in X}
  <2>1. 0 \in T
    BY <1>1, <1>7
  <2>2. ASSUME NEW i \in 1 .. n, i - 1 \in T PROVE i \in T
    <3>1. bufs[i] \in Seq(S) /\ J[i - 1] \in Seq(S)
      BY <2>2, ElementOfSeq DEF n, X
    <3>2. J[i] \in X
      BY <1>7, <3>1, ConcatProperties DEF X
    <3> QED BY <1>1, <3>2
  <2>3. \A i \in 0 .. n : i \in T
    <3> HIDE DEF T
    <3> QED BY <1>1, <2>1, <2>2, Induction
  <2> QED BY <2>3
<1> QED BY <1>6, <1>7, <1>8 DEF n, X, J, empty

\* The text of the first k buffers begins the whole text, and the next buffer
\* follows it there.
LEMMA JoinedAt ==
    ASSUME NEW S, NEW bufs \in Seq(Seq(S)), NEW k \in 1 .. Len(bufs)
    PROVE  LET J == Joined(bufs)
               text == J[Len(bufs)]
           IN  /\ text \in Seq(S) /\ J[k - 1] \in Seq(S) /\ J[k] \in Seq(S) /\ bufs[k] \in Seq(S)
               /\ Len(J[k]) = Len(J[k - 1]) + Len(bufs[k])
               /\ Len(J[k]) <= Len(text)
               /\ \A p \in 1 .. Len(bufs[k]) : text[Len(J[k - 1]) + p] = bufs[k][p]
<1> DEFINE n == Len(bufs)
           J == Joined(bufs)
<1>1. n \in Nat /\ \A i \in 1 .. n : bufs[i] \in Seq(S)
  BY LenProperties, ElementOfSeq
<1>2. J \in [0 .. n -> Seq(S)] /\ \A i \in 1 .. n : J[i] = J[i - 1] \o bufs[i]
  BY JoinedIs
<1> HIDE DEF n, J
<1>3. \A i \in 1 .. n : Extends(J[i], J[i - 1])
  <2> SUFFICES ASSUME NEW i \in 1 .. n PROVE Extends(J[i], J[i - 1])
    OBVIOUS
  <2>1. J[i - 1] \in Seq(S)
    BY <1>1, <1>2
  <2>2. bufs[i] \in Seq(S) /\ J[i] = J[i - 1] \o bufs[i]
    BY <1>1, <1>2
  <2>3. Extends(J[i - 1] \o bufs[i], J[i - 1])
    BY <2>1, <2>2, ConcatExtends
  <2> QED BY <2>2, <2>3, Zenon
<1>4. \A m \in 0 .. n, i \in 0 .. n : i <= m => Extends(J[m], J[i])
  BY <1>1, <1>2, <1>3, Growing
<1>5. k \in 1 .. n /\ k \in 0 .. n /\ k - 1 \in 0 .. n /\ n \in 0 .. n /\ k <= n
  BY <1>1 DEF n
<1>6. J[n] \in Seq(S) /\ J[k - 1] \in Seq(S) /\ J[k] \in Seq(S) /\ bufs[k] \in Seq(S)
  BY <1>1, <1>2, <1>5
<1>7. Extends(J[n], J[k])
  BY <1>4, <1>5
<1>8. J[k] = J[k - 1] \o bufs[k]
  BY <1>2, <1>5
<1>9. Len(J[k]) = Len(J[k - 1]) + Len(bufs[k])
      /\ \A p \in 1 .. Len(bufs[k]) : J[k][Len(J[k - 1]) + p] = bufs[k][p]
  <2> DEFINE a == J[k - 1]
             b == bufs[k]
  <2> HIDE DEF a, b
  <2>1. a \in Seq(S) /\ b \in Seq(S) /\ J[k] = a \o b
    BY <1>6, <1>8 DEF a, b
  <2>2. Len(a \o b) = Len(a) + Len(b) /\ \A p \in 1 .. Len(b) : (a \o b)[Len(a) + p] = b[p]
    BY <2>1, ConcatExtends
  <2> QED BY <2>1, <2>2, Zenon DEF a, b
<1>10. Len(J[k]) \in Nat /\ Len(J[k - 1]) \in Nat /\ Len(bufs[k]) \in Nat /\ Len(J[n]) \in Nat
  BY <1>6, LenProperties
<1>11. \A p \in 1 .. Len(bufs[k]) : J[n][Len(J[k - 1]) + p] = bufs[k][p]
  <2> SUFFICES ASSUME NEW p \in 1 .. Len(bufs[k]) PROVE J[n][Len(J[k - 1]) + p] = bufs[k][p]
    OBVIOUS
  <2>1. Len(J[k - 1]) + p \in 1 .. Len(J[k])
    <3>1. Len(J[k]) = Len(J[k - 1]) + Len(bufs[k])
      BY <1>9
    <3> QED BY <1>10, <3>1, InSum
  <2> QED BY <1>7, <1>9, <2>1 DEF Extends
<1> QED BY <1>6, <1>7, <1>9, <1>11 DEF Extends, n, J

-----------------------------------------------------------------------------
(* Kept                                                                    *)

\* The equation of Kept has a solution.
LEMMA KeptIs ==
    ASSUME NEW S, NEW bufs \in Seq(Seq(S))
    PROVE  /\ Kept(bufs) \in [0 .. Len(bufs) -> Seq(Seq(S))]
           /\ Kept(bufs)[0] = <<>>
           /\ \A i \in 1 .. Len(bufs) :
                 Kept(bufs)[i] = IF bufs[i] = <<>> THEN Kept(bufs)[i - 1]
                                 ELSE Append(Kept(bufs)[i - 1], bufs[i])
<1> DEFINE n == Len(bufs)
           X == Seq(Seq(S))
           K == Kept(bufs)
           next == [i \in 1 .. n |-> [s \in X |-> IF bufs[i] = <<>> THEN s ELSE Append(s, bufs[i])]]
           empty == <<>>
<1>1. n \in Nat /\ next \in [1 .. n -> [X -> X]] /\ empty \in X
  BY LenProperties, AppendProperties, ElementOfSeq, EmptySeq
<1>2. \A i \in 1 .. n, s \in X : next[i][s] = IF bufs[i] = empty THEN s ELSE Append(s, bufs[i])
  OBVIOUS
<1>3. K = CHOOSE f : f = [i \in 0 .. n |->
            IF i = 0 THEN empty ELSE IF bufs[i] = empty THEN f[i - 1] ELSE Append(f[i - 1], bufs[i])]
  BY DEF Kept
<1> HIDE DEF n, next, X, empty, K
<1>4. PICK f : Iterates(f, n, X, empty, next)
  BY <1>1, IterateExists
<1>5. f = [i \in 0 .. n |->
            IF i = 0 THEN empty ELSE IF bufs[i] = empty THEN f[i - 1] ELSE Append(f[i - 1], bufs[i])]
  <2>1. ASSUME NEW i \in 0 .. n, i # 0
        PROVE f[i] = IF bufs[i] = empty THEN f[i - 1] ELSE Append(f[i - 1], bufs[i])
    <3>1. i \in 1 .. n /\ i - 1 \in 0 .. n
      BY <1>1, <2>1
    <3> QED BY <1>2, <1>4, <3>1 DEF Iterates
  <2> QED BY <1>4, <2>1 DEF Iterates
<1>6. K = [i \in 0 .. n |->
            IF i = 0 THEN empty ELSE IF bufs[i] = empty THEN K[i - 1] ELSE Append(K[i - 1], bufs[i])]
  BY <1>3, <1>5, Zenon
<1>7. K[0] = empty
      /\ \A i \in 1 .. n : K[i] = IF bufs[i] = empty THEN K[i - 1] ELSE Append(K[i - 1], bufs[i])
  <2>1. \A i \in 0 .. n : K[i] = IF i = 0 THEN empty
                                  ELSE IF bufs[i] = empty THEN K[i - 1] ELSE Append(K[i - 1], bufs[i])
    BY <1>6, Zenon
  <2>2. 0 \in 0 .. n /\ \A i \in 1 .. n : i \in 0 .. n /\ i # 0
    BY <1>1
  <2> QED BY <2>1, <2>2, Zenon
<1>8. \A i \in 0 .. n : K[i] \in X
  <2> DEFINE T == {j \in 0 .. n : K[j] \in X}
  <2>1. 0 \in T
    BY <1>1, <1>7
  <2>2. ASSUME NEW i \in 1 .. n, i - 1 \in T PROVE i \in T
    <3>1. bufs[i] \in Seq(S) /\ K[i - 1] \in Seq(Seq(S))
      BY <2>2, ElementOfSeq DEF n, X
    <3>2. Append(K[i - 1], bufs[i]) \in X
      BY <3>1, AppendProperties DEF X
    <3>3. K[i] \in X
      BY <1>7, <3>1, <3>2 DEF X
    <3> QED BY <1>1, <3>3
  <2>3. \A i \in 0 .. n : i \in T
    <3> HIDE DEF T
    <3> QED BY <1>1, <2>1, <2>2, Induction
  <2> QED BY <2>3
<1> QED BY <1>6, <1>7, <1>8 DEF n, X, K, empty

\* What is kept of the first i buffers begins what is kept of all, and is no
\* empty buffer.
LEMMA KeptAt ==
    ASSUME NEW S, NEW bufs \in Seq(Seq(S)), NEW i \in 0 .. Len(bufs)
    PROVE  /\ NonEmpty(bufs) \in Seq(Seq(S)) /\ Kept(bufs)[i] \in Seq(Seq(S))
           /\ Extends(NonEmpty(bufs), Kept(bufs)[i])
           /\ \A p \in 1 .. Len(NonEmpty(bufs)) : NonEmpty(bufs)[p] # <<>>
<1> DEFINE n == Len(bufs)
           K == Kept(bufs)
           T == {j \in 0 .. n : \A p \in 1 .. Len(K[j]) : K[j][p] # <<>>}
<1>1. n \in Nat /\ \A j \in 1 .. n : bufs[j] \in Seq(S)
  BY LenProperties, ElementOfSeq
<1>2. /\ K \in [0 .. n -> Seq(Seq(S))] /\ K[0] = <<>>
      /\ \A j \in 1 .. n : K[j] = IF bufs[j] = <<>> THEN K[j - 1] ELSE Append(K[j - 1], bufs[j])
  BY KeptIs
<1> HIDE DEF n, K
<1>3. ASSUME NEW j \in 1 .. n
      PROVE  /\ K[j - 1] \in Seq(Seq(S)) /\ Extends(K[j], K[j - 1])
             /\ j - 1 \in T => j \in T
  <2>1. K[j - 1] \in Seq(Seq(S)) /\ K[j] \in Seq(Seq(S)) /\ Len(K[j - 1]) \in Nat /\ j \in 0 .. n
    BY <1>1, <1>2, LenProperties
  <2>2. CASE bufs[j] = <<>>
    <3>1. K[j] = K[j - 1]
      BY <1>2, <2>2
    <3> QED BY <2>1, <3>1 DEF Extends
  <2>3. CASE bufs[j] # <<>>
    <3>1. K[j] = Append(K[j - 1], bufs[j])
      BY <1>2, <2>3
    <3>2. Extends(K[j], K[j - 1]) /\ Len(K[j]) = Len(K[j - 1]) + 1 /\ K[j][Len(K[j - 1]) + 1] = bufs[j]
      BY <1>1, <2>1, <3>1, AppendExtends
    <3>3. ASSUME j - 1 \in T, NEW p \in 1 .. Len(K[j]) PROVE K[j][p] # <<>>
      <4>1. p \in 1 .. Len(K[j - 1]) \/ p = Len(K[j - 1]) + 1
        BY <2>1, <3>2
      <4> QED BY <2>3, <3>2, <3>3, <4>1 DEF Extends
    <3> QED BY <2>1, <3>2, <3>3
  <2> QED BY <2>2, <2>3
<1>4. \A m \in 0 .. n, j \in 0 .. n : j <= m => Extends(K[m], K[j])
  BY <1>1, <1>2, <1>3, Growing
<1>5. \A j \in 0 .. n : j \in T
  <2>1. 0 \in T
    BY <1>1, <1>2
  <2> HIDE DEF T
  <2> QED BY <1>1, <1>3, <2>1, Induction
<1>6. i \in 0 .. n /\ n \in 0 .. n /\ i <= n
  BY <1>1 DEF n
<1>7. \A p \in 1 .. Len(K[n]) : K[n][p] # <<>>
  BY <1>5, <1>6
<1>8. K[n] \in Seq(Seq(S)) /\ K[i] \in Seq(Seq(S)) /\ Extends(K[n], K[i])
  BY <1>2, <1>4, <1>6
<1> QED BY <1>7, <1>8 DEF NonEmpty, n, K
-----------------------------------------------------------------------------
(* Scan                                                                    *)

\* the character that ends a line
Ends(lineEnd) == IF lineEnd = "UnixLineEnd" THEN LF ELSE CR

\* the \n behind a \r
IsSkipped(text, lineEnd, i) == lineEnd = "DosLineEnd" /\ i > 1 /\ text[i] = LF /\ text[i - 1] = CR

Scanned(S) == [lines : Seq(Seq(S)), open : Seq(S)]

ScanStep(text, lineEnd, i, s) ==
    IF text[i] = Ends(lineEnd) THEN [lines |-> Append(s.lines, s.open), open |-> <<>>]
    ELSE IF IsSkipped(text, lineEnd, i) THEN s
    ELSE [s EXCEPT !.open = Append(@, text[i])]

\* A step of Scan keeps the type, and the lines that have ended.
LEMMA ScanStepIs ==
    ASSUME NEW S, NEW text \in Seq(S), NEW lineEnd, NEW i \in 1 .. Len(text), NEW s \in Scanned(S)
    PROVE  /\ ScanStep(text, lineEnd, i, s) \in Scanned(S)
           /\ Extends(ScanStep(text, lineEnd, i, s).lines, s.lines)
<1>1. text[i] \in S /\ s.lines \in Seq(Seq(S)) /\ s.open \in Seq(S) /\ <<>> \in Seq(S)
  BY ElementOfSeq, EmptySeq DEF Scanned
<1>2. /\ Append(s.lines, s.open) \in Seq(Seq(S)) /\ Extends(Append(s.lines, s.open), s.lines)
      /\ Append(s.open, text[i]) \in Seq(S) /\ Extends(s.lines, s.lines)
  <2>1. Append(s.lines, s.open) \in Seq(Seq(S)) /\ Extends(Append(s.lines, s.open), s.lines)
    BY <1>1, AppendExtends
  <2>2. Append(s.open, text[i]) \in Seq(S)
    BY <1>1, AppendProperties
  <2> QED BY <1>1, <2>1, <2>2, LenProperties DEF Extends
<1>3. CASE text[i] = Ends(lineEnd)
  <2>1. ScanStep(text, lineEnd, i, s) = [lines |-> Append(s.lines, s.open), open |-> <<>>]
    BY <1>3 DEF ScanStep
  <2> QED BY <1>1, <1>2, <2>1 DEF Scanned
<1>4. CASE text[i] # Ends(lineEnd) /\ IsSkipped(text, lineEnd, i)
  <2>1. ScanStep(text, lineEnd, i, s) = s
    BY <1>4 DEF ScanStep
  <2> QED BY <1>2, <2>1
<1>5. CASE text[i] # Ends(lineEnd) /\ ~IsSkipped(text, lineEnd, i)
  <2>1. ScanStep(text, lineEnd, i, s) = [s EXCEPT !.open = Append(@, text[i])]
    BY <1>5 DEF ScanStep
  <2> QED BY <1>1, <1>2, <2>1 DEF Scanned
<1> QED BY <1>3, <1>4, <1>5

\* The equation of Scan has a solution.
LEMMA ScanIs ==
    ASSUME NEW S, NEW text \in Seq(S), NEW lineEnd
    PROVE  /\ Scan(text, lineEnd) \in [0 .. Len(text) -> Scanned(S)]
           /\ Scan(text, lineEnd)[0] = [lines |-> <<>>, open |-> <<>>]
           /\ \A i \in 1 .. Len(text) :
                 Scan(text, lineEnd)[i] = ScanStep(text, lineEnd, i, Scan(text, lineEnd)[i - 1])
<1> DEFINE n == Len(text)
           X == Scanned(S)
           K == Scan(text, lineEnd)
           Do(i, s) == ScanStep(text, lineEnd, i, s)
           next == [i \in 1 .. n |-> [s \in X |-> Do(i, s)]]
           start == [lines |-> <<>>, open |-> <<>>]
<1>1. n \in Nat /\ next \in [1 .. n -> [X -> X]] /\ start \in X
  <2>1. n \in Nat /\ start \in X
    BY LenProperties, EmptySeq DEF Scanned
  <2>2. \A i \in 1 .. n, s \in X : Do(i, s) \in X
    BY ScanStepIs
  <2> HIDE DEF Do, X, n
  <2> QED BY <2>1, <2>2
<1>2. \A i \in 1 .. n, s \in X : next[i][s] = Do(i, s)
  <2> HIDE DEF Do, X, n
  <2> QED OBVIOUS
<1>3. K = CHOOSE f : f = [i \in 0 .. n |-> IF i = 0 THEN start ELSE Do(i, f[i - 1])]
  BY Zenon DEF Scan, ScanStep, Ends, IsSkipped
<1> HIDE DEF n, next, X, start, K, Do
<1>4. PICK f : Iterates(f, n, X, start, next)
  BY <1>1, IterateExists
<1>5. f = [i \in 0 .. n |-> IF i = 0 THEN start ELSE Do(i, f[i - 1])]
  <2>1. ASSUME NEW i \in 0 .. n, i # 0 PROVE f[i] = Do(i, f[i - 1])
    <3>1. i \in 1 .. n /\ i - 1 \in 0 .. n
      BY <1>1, <2>1
    <3> QED BY <1>2, <1>4, <3>1 DEF Iterates
  <2> QED BY <1>4, <2>1 DEF Iterates
<1>6. K = [i \in 0 .. n |-> IF i = 0 THEN start ELSE Do(i, K[i - 1])]
  BY <1>3, <1>5, Zenon
<1>7. K[0] = start /\ \A i \in 1 .. n : K[i] = Do(i, K[i - 1])
  <2>1. \A i \in 0 .. n : K[i] = IF i = 0 THEN start ELSE Do(i, K[i - 1])
    BY <1>6, Zenon
  <2>2. 0 \in 0 .. n /\ \A i \in 1 .. n : i \in 0 .. n /\ i # 0
    BY <1>1
  <2> QED BY <2>1, <2>2, Zenon
<1>8. \A i \in 0 .. n : K[i] \in X
  <2> DEFINE T == {j \in 0 .. n : K[j] \in X}
  <2>1. 0 \in T
    BY <1>1, <1>7
  <2>2. ASSUME NEW i \in 1 .. n, i - 1 \in T PROVE i \in T
    <3>1. Do(i, K[i - 1]) \in X
      BY <2>2, ScanStepIs DEF n, X, Do
    <3> QED BY <1>1, <1>7, <3>1
  <2>3. \A i \in 0 .. n : i \in T
    <3> HIDE DEF T
    <3> QED BY <1>1, <2>1, <2>2, Induction
  <2> QED BY <2>3
<1> QED BY <1>6, <1>7, <1>8 DEF n, X, K, start, Do

\* The lines that have ended do so for good.
LEMMA ScanGrows ==
    ASSUME NEW S, NEW text \in Seq(S), NEW lineEnd, NEW i \in 0 .. Len(text), NEW k \in 0 .. i
    PROVE  /\ Scan(text, lineEnd)[i] \in Scanned(S) /\ Scan(text, lineEnd)[k] \in Scanned(S)
           /\ Extends(Scan(text, lineEnd)[i].lines, Scan(text, lineEnd)[k].lines)
<1> DEFINE n == Len(text)
           K == Scan(text, lineEnd)
           f == [j \in 0 .. n |-> K[j].lines]
<1>1. n \in Nat /\ K \in [0 .. n -> Scanned(S)]
  BY LenProperties, ScanIs
<1>2. \A j \in 1 .. n : K[j] = ScanStep(text, lineEnd, j, K[j - 1])
  BY ScanIs
<1>3. \A j \in 1 .. n : j \in 0 .. n /\ j - 1 \in 0 .. n
  BY <1>1
<1>4. \A j \in 1 .. n : Extends(K[j].lines, K[j - 1].lines)
  <2> SUFFICES ASSUME NEW j \in 1 .. n PROVE Extends(K[j].lines, K[j - 1].lines)
    OBVIOUS
  <2> HIDE DEF K
  <2>1. K[j - 1] \in Scanned(S) /\ K[j] = ScanStep(text, lineEnd, j, K[j - 1])
    BY <1>1, <1>2, <1>3
  <2> QED BY <2>1, ScanStepIs
<1> HIDE DEF K, n
<1>5. f \in [0 .. n -> Seq(Seq(S))]
  BY <1>1 DEF Scanned
<1>6. \A j \in 1 .. n : Extends(f[j], f[j - 1])
  BY <1>3, <1>4
<1>7. i \in 0 .. n /\ k \in 0 .. n /\ k <= i
  BY <1>1 DEF n
<1>8. Extends(f[i], f[k])
  <2> HIDE DEF f
  <2> QED BY <1>1, <1>5, <1>6, <1>7, Growing
<1> QED BY <1>1, <1>7, <1>8 DEF K

\* A line that has ended is a line of the text.
LEMMA ScanLines ==
    ASSUME NEW S, NEW text \in Seq(S), NEW lineEnd, NEW i \in 0 .. Len(text)
    PROVE  /\ LinesOf(text, lineEnd) \in Seq(Seq(S))
           /\ Extends(LinesOf(text, lineEnd), Scan(text, lineEnd)[i].lines)
<1> DEFINE K == Scan(text, lineEnd)
           n == Len(text)
<1>1. n \in Nat
  BY LenProperties
<1>2. K[n] \in Scanned(S) /\ K[i] \in Scanned(S) /\ Extends(K[n].lines, K[i].lines)
  BY <1>1, ScanGrows
<1> HIDE DEF K
<1>3. /\ K[n].lines \in Seq(Seq(S)) /\ K[n].open \in Seq(S) /\ K[i].lines \in Seq(Seq(S))
      /\ Len(K[n].lines) \in Nat /\ Len(K[i].lines) \in Nat
  BY <1>2, LenProperties DEF Scanned
<1>4. /\ Append(K[n].lines, K[n].open) \in Seq(Seq(S))
      /\ Extends(Append(K[n].lines, K[n].open), K[n].lines)
      /\ Len(Append(K[n].lines, K[n].open)) = Len(K[n].lines) + 1
  BY <1>3, AppendExtends
<1>5. LinesOf(text, lineEnd) \in {K[n].lines, Append(K[n].lines, K[n].open)}
  BY DEF LinesOf, K
<1>6. Extends(Append(K[n].lines, K[n].open), K[i].lines)
  <2> DEFINE a == Append(K[n].lines, K[n].open)
  <2> HIDE DEF a
  <2> QED BY <1>2, <1>3, <1>4 DEF Extends, a
<1> QED BY <1>2, <1>3, <1>4, <1>5, <1>6 DEF K
\* Characters that neither end a line nor are skipped go to the open line.
LEMMA ScanRun ==
    ASSUME NEW S, NEW text \in Seq(S), NEW lineEnd, NEW i \in 0 .. Len(text), NEW e \in i .. Len(text),
           \A p \in i + 1 .. e : text[p] # Ends(lineEnd) /\ ~IsSkipped(text, lineEnd, p)
    PROVE  /\ Scan(text, lineEnd)[e].lines = Scan(text, lineEnd)[i].lines
           /\ Scan(text, lineEnd)[e].open = Scan(text, lineEnd)[i].open \o SubSeq(text, i + 1, e)
<1> DEFINE n == Len(text)
           K == Scan(text, lineEnd)
           T == {j \in 0 .. n : j \in i .. e => /\ K[j].lines = K[i].lines
                                                 /\ K[j].open = K[i].open \o SubSeq(text, i + 1, j)}
<1>1. n \in Nat /\ i \in 0 .. n /\ e \in i .. n /\ K \in [0 .. n -> Scanned(S)]
      /\ \A p \in 1 .. n : text[p] \in S
  BY LenProperties, ScanIs, ElementOfSeq
<1>2. \A j \in 1 .. n : K[j] = ScanStep(text, lineEnd, j, K[j - 1])
  BY ScanIs
<1> HIDE DEF K, n
<1>3. i \in T
  <2>1. K[i].open \in Seq(S) /\ SubSeq(text, i + 1, i) = <<>>
    BY <1>1, SubSeqEmpty DEF Scanned
  <2>2. K[i].open = K[i].open \o SubSeq(text, i + 1, i)
    BY <2>1, ConcatEmptySeq
  <2> QED BY <1>1, <2>2
<1>4. ASSUME NEW j \in 1 .. n, j - 1 \in T PROVE j \in T
  <2> SUFFICES ASSUME j \in i .. e PROVE j \in T
    BY <1>1, SMTT(30)
  <2>1. CASE j = i
    BY <1>3, <2>1
  <2>2. CASE j # i
    <3>1. j \in i + 1 .. e /\ j - 1 \in i .. e /\ j - 1 \in 0 .. n /\ j \in 0 .. n
      BY <1>1, <2>2
    <3>2. K[j - 1].lines = K[i].lines /\ K[j - 1].open = K[i].open \o SubSeq(text, i + 1, j - 1)
      BY <1>4, <3>1
    <3>3. K[j - 1] \in Scanned(S) /\ K[i] \in Scanned(S)
      BY <1>1, <3>1
    <3>4. K[j] = [K[j - 1] EXCEPT !.open = Append(@, text[j])]
      BY <1>2, <3>1 DEF ScanStep
    <3>5. K[j].lines = K[j - 1].lines /\ K[j].open = Append(K[j - 1].open, text[j])
      BY <3>3, <3>4 DEF Scanned
    <3> DEFINE a == K[i].open
               b == SubSeq(text, i + 1, j - 1)
    <3>6. a \in Seq(S) /\ b \in Seq(S) /\ text[j] \in S /\ <<text[j]>> \in Seq(S)
      <4>1. \A q \in i + 1 .. j - 1 : q \in 1 .. n
        BY <1>1, <3>1
      <4>2. i + 1 \in Int /\ j - 1 \in Int
        BY <1>1
      <4>3. b \in Seq(S)
        BY <1>1, <4>1, <4>2, SubSeqProperties
      <4> QED BY <1>1, <3>3, <4>3 DEF Scanned
    <3>7. SubSeq(text, i + 1, j) = b \o <<text[j]>>
      <4>1. i + 1 \in 1 .. Len(text) /\ j \in i + 1 .. Len(text)
        BY <1>1, <3>1 DEF n
      <4> QED BY <4>1, SubSeqRecursiveSecond
    <3> HIDE DEF a, b
    <3>8. Append(a \o b, text[j]) = a \o (b \o <<text[j]>>)
      <4>1. a \o b \in Seq(S)
        BY <3>6, ConcatProperties
      <4>2. Append(a \o b, text[j]) = (a \o b) \o <<text[j]>>
        BY <3>6, <4>1, AppendIsConcat
      <4> DEFINE c == <<text[j]>>
      <4>3. c \in Seq(S)
        BY <3>6
      <4> HIDE DEF c
      <4>4. (a \o b) \o c = a \o (b \o c)
        BY <3>6, <4>3, ConcatAssociative, SMTT(30)
      <4>5. (a \o b) \o <<text[j]>> = a \o (b \o <<text[j]>>)
        BY <4>4 DEF c
      <4> QED BY <4>2, <4>5, Zenon
    <3>9. K[j].open = K[i].open \o SubSeq(text, i + 1, j)
      BY <3>2, <3>5, <3>7, <3>8 DEF a, b
    <3> QED BY <3>1, <3>2, <3>5, <3>9
  <2> QED BY <2>1, <2>2
<1>5. 0 \in T
  <2>1. CASE i = 0
    BY <1>3, <2>1
  <2>2. CASE i # 0
    <3>1. 0 \notin i .. e /\ 0 \in 0 .. n
      BY <1>1, <2>2
    <3> QED BY <3>1, Zenon
  <2> QED BY <2>1, <2>2
<1>6. \A j \in 0 .. n : j \in T
  <2> HIDE DEF T
  <2> QED BY <1>1, <1>4, <1>5, Induction
<1>7. e \in 0 .. n /\ e \in i .. e
  BY <1>1
<1> QED BY <1>6, <1>7 DEF K

\* The character e of the text ends its line j + 1.
LineAt(S, text, lineEnd, j, e, line) ==
    LET O == LinesOf(text, lineEnd) IN
    /\ line \in Seq(S)
    /\ j + 1 \in 1 .. Len(O) /\ O[j + 1] = line
    /\ Len(Scan(text, lineEnd)[e].lines) = j + 1 /\ Scan(text, lineEnd)[e].open = <<>>

\* And the character behind them that ends a line makes it one.
LEMMA ScanLine ==
    ASSUME NEW S, NEW text \in Seq(S), NEW lineEnd, NEW i \in 0 .. Len(text), NEW e \in i + 1 .. Len(text),
           \A p \in i + 1 .. e - 1 : text[p] # Ends(lineEnd) /\ ~IsSkipped(text, lineEnd, p),
           text[e] = Ends(lineEnd)
    PROVE  LineAt(S, text, lineEnd, Len(Scan(text, lineEnd)[i].lines), e,
                  Scan(text, lineEnd)[i].open \o SubSeq(text, i + 1, e - 1))
<1> DEFINE n == Len(text)
           K == Scan(text, lineEnd)
           line == K[i].open \o SubSeq(text, i + 1, e - 1)
           O == LinesOf(text, lineEnd)
<1>1. n \in Nat /\ K \in [0 .. n -> Scanned(S)]
  BY LenProperties, ScanIs
<1>2. i \in 0 .. n /\ e \in 1 .. n /\ e \in 0 .. n /\ e - 1 \in i .. n /\ e - 1 \in 0 .. n
  BY <1>1 DEF n
<1>3. K[e] = ScanStep(text, lineEnd, e, K[e - 1])
  BY <1>2, ScanIs
<1>4. K[e - 1].lines = K[i].lines /\ K[e - 1].open = line
  <2> DEFINE y == e - 1
  <2>1. y \in i .. Len(text) /\ \A p \in i + 1 .. y : text[p] # Ends(lineEnd) /\ ~IsSkipped(text, lineEnd, p)
    BY <1>2
  <2> HIDE DEF y, K, line, O, n
  <2>2. /\ Scan(text, lineEnd)[y].lines = Scan(text, lineEnd)[i].lines
        /\ Scan(text, lineEnd)[y].open = Scan(text, lineEnd)[i].open \o SubSeq(text, i + 1, y)
    BY <2>1, ScanRun, ZenonT(60)
  <2> QED BY <2>2 DEF y, K, line
<1>5. O \in Seq(Seq(S)) /\ Extends(O, K[e].lines)
  BY <1>2, ScanLines
<1> HIDE DEF K, O
<1>6. K[i] \in Scanned(S) /\ K[e - 1] \in Scanned(S)
  BY <1>1, <1>2
<1>7. K[e] = [lines |-> Append(K[i].lines, line), open |-> <<>>]
  <2> HIDE DEF line
  <2> QED BY <1>3, <1>4 DEF ScanStep
<1>8. line \in Seq(S) /\ K[i].lines \in Seq(Seq(S))
  BY <1>4, <1>6 DEF Scanned
<1> HIDE DEF line
<1>9. LET a == Append(K[i].lines, line) IN
      Len(a) = Len(K[i].lines) + 1 /\ a[Len(K[i].lines) + 1] = line
  BY <1>8, AppendExtends
<1>10. Len(K[i].lines) \in Nat /\ Len(O) \in Nat
  BY <1>5, <1>8, LenProperties
<1> DEFINE a == Append(K[i].lines, line)
<1> HIDE DEF a
<1>11. K[e].lines = a /\ Len(a) = Len(K[i].lines) + 1 /\ a[Len(K[i].lines) + 1] = line
       /\ K[e].open = <<>>
  BY <1>7, <1>9 DEF a
<1>12. Len(K[i].lines) + 1 \in 1 .. Len(O) /\ O[Len(K[i].lines) + 1] = line
  <2> DEFINE m == Len(K[i].lines)
  <2> HIDE DEF m
  <2>1. m \in Nat /\ Len(O) \in Nat /\ Len(a) = m + 1 /\ a[m + 1] = line /\ Extends(O, a)
    BY <1>5, <1>10, <1>11 DEF m
  <2>2. m + 1 \in 1 .. Len(a) /\ m + 1 <= Len(O)
    BY <2>1 DEF Extends
  <2>3. O[m + 1] = line
    BY <2>1, <2>2 DEF Extends
  <2> QED BY <2>1, <2>2, <2>3 DEF m
<1> QED BY <1>8, <1>11, <1>12 DEF line, K, O, LineAt

\* A \n behind a \r changes nothing.
LEMMA ScanSkips ==
    ASSUME NEW S, NEW text \in Seq(S), NEW lineEnd, NEW i \in 1 .. Len(text),
           IsSkipped(text, lineEnd, i), CR # LF
    PROVE  Scan(text, lineEnd)[i] = Scan(text, lineEnd)[i - 1]
<1>1. Scan(text, lineEnd)[i] = ScanStep(text, lineEnd, i, Scan(text, lineEnd)[i - 1])
  BY ScanIs
<1>2. text[i] # Ends(lineEnd)
  BY DEF IsSkipped, Ends
<1> QED BY <1>1, <1>2 DEF ScanStep

-----------------------------------------------------------------------------
(* The filter that reads lines                                             *)

\* find_Char finds the first one, if any.
LEMMA FindCharIs ==
    ASSUME NEW S, NEW s, s.buf \in Seq(S), s.pos \in Nat, NEW c
    PROVE  \/ /\ FindChar(s, c) = 0
              /\ \A p \in s.pos + 1 .. Len(s.buf) : s.buf[p] # c
           \/ /\ FindChar(s, c) \in s.pos + 1 .. Len(s.buf) /\ s.buf[FindChar(s, c)] = c
              /\ \A p \in s.pos + 1 .. FindChar(s, c) - 1 : s.buf[p] # c
<1> DEFINE at == {i \in s.pos + 1 .. Len(s.buf) : s.buf[i] = c}
<1>1. Len(s.buf) \in Nat
  BY LenProperties
<1>2. CASE at = {}
  BY <1>2 DEF FindChar
<1>3. CASE at # {}
  <2>1. at \subseteq Nat
    BY <1>1
  <2>2. \E x \in at : \A y \in at : x <= y
    <3> HIDE DEF at
    <3> QED BY <1>3, <2>1, SmallestOf
  <2>3. Min(at) \in at /\ \A y \in at : Min(at) <= y
    <3> HIDE DEF at
    <3> QED BY <2>2 DEF Min
  <2>4. FindChar(s, c) = Min(at)
    BY <1>3 DEF FindChar
  <2>5. ASSUME NEW p \in s.pos + 1 .. FindChar(s, c) - 1 PROVE s.buf[p] # c
    BY <1>1, <2>3, <2>4
  <2> QED BY <2>3, <2>4, <2>5
<1> QED BY <1>2, <1>3

-----------------------------------------------------------------------------
(* Where the buffers lie in the text, and where a filter is in them       *)

TextOf(I) == Joined(I)[Len(I)]

\* where the k-th buffer ends in the text
EndOf(I, k) == Len(Joined(I)[k])

\* The first \r of the text does not end a buffer.
CutWell(I) ==
    \A k \in 1 .. Len(I) : TextOf(I)[EndOf(I, k)] = CR => \E q \in 1 .. EndOf(I, k) - 1 : TextOf(I)[q] = CR

\* fposoff has been set if a \r has been seen
OffSet(I, le, s, i) ==
    le = "DosLineEnd" => s.off \in {1, 2} \/ \A p \in 1 .. i : TextOf(I)[p] # CR

IsAfterCR(I, le, i) == le = "DosLineEnd" /\ i > 0 /\ TextOf(I)[i] = CR

\* the first i characters of the text have been seen, j lines are written
Seen(I, le, s, i, j) ==
    /\ j = Len(Scan(TextOf(I), le)[i].lines)
    /\ Scan(TextOf(I), le)[i].open = s.sub \o s.old
    /\ OffSet(I, le, s, i)

\* the filter wants its next buffer after the k-th
WantsBuffer(I, le, s, k, j) ==
    /\ k \in 0 .. Len(I)
    /\ Seen(I, le, s, EndOf(I, k), j)
    /\ s.old = <<>> => s.sub = <<>>
    /\ s.test <=> IsAfterCR(I, le, EndOf(I, k))
    /\ s.test => s.old = <<>>

\* the filter is at pos of the k-th buffer
InBuffer(I, le, s, k, j) ==
    LET i == EndOf(I, k - 1) + s.pos IN
    /\ k \in 1 .. Len(I) /\ s.buf = I[k] /\ s.pos \in 0 .. Len(s.buf)
    /\ Seen(I, le, s, i, j)
    /\ s.pos > 0 \/ s.test => s.sub = <<>> /\ s.old = <<>>
    /\ s.test => s.pos = 0 /\ IsAfterCR(I, le, i)
    /\ ~s.test /\ IsAfterCR(I, le, i) => s.pos < Len(s.buf) /\ s.buf[s.pos + 1] # LF

InputBuffers(I) == I \in Seq(Seq(STRING)) /\ \A k \in 1 .. Len(I) : I[k] # <<>>

-----------------------------------------------------------------------------
\* Where the k-th buffer lies in the text.
LEMMA BufferInText ==
    ASSUME NEW I, InputBuffers(I), NEW k \in 1 .. Len(I)
    PROVE  /\ TextOf(I) \in Seq(STRING) /\ I[k] \in Seq(STRING) /\ Len(I[k]) \in Nat \ {0}
           /\ EndOf(I, k - 1) \in Nat /\ EndOf(I, k) = EndOf(I, k - 1) + Len(I[k])
           /\ Len(TextOf(I)) \in Nat /\ EndOf(I, k) <= Len(TextOf(I))
           /\ \A p \in 1 .. Len(I[k]) : TextOf(I)[EndOf(I, k - 1) + p] = I[k][p]
<1> DEFINE J == Joined(I)
<1>1. I \in Seq(Seq(STRING))
  BY DEF InputBuffers
<1>2. /\ J[Len(I)] \in Seq(STRING) /\ J[k - 1] \in Seq(STRING) /\ I[k] \in Seq(STRING)
      /\ Len(J[k]) = Len(J[k - 1]) + Len(I[k]) /\ Len(J[k]) <= Len(J[Len(I)])
      /\ \A p \in 1 .. Len(I[k]) : J[Len(I)][Len(J[k - 1]) + p] = I[k][p]
  <2>1. LET M == Joined(I)
            text == M[Len(I)]
        IN  /\ text \in Seq(STRING) /\ M[k - 1] \in Seq(STRING) /\ M[k] \in Seq(STRING) /\ I[k] \in Seq(STRING)
            /\ Len(M[k]) = Len(M[k - 1]) + Len(I[k])
            /\ Len(M[k]) <= Len(text)
            /\ \A p \in 1 .. Len(I[k]) : text[Len(M[k - 1]) + p] = I[k][p]
    <3> HIDE DEF J
    <3> QED BY <1>1, JoinedAt, ZenonT(60)
  <2> QED BY <2>1, Zenon DEF J
<1> HIDE DEF J
<1>3. Len(J[Len(I)]) \in Nat /\ Len(J[k - 1]) \in Nat /\ Len(I[k]) \in Nat
  BY <1>2, LenProperties
<1>4. I[k] # <<>>
  BY DEF InputBuffers
<1>5. Len(I[k]) # 0
  BY <1>2, <1>4, EmptySeq
<1> QED BY <1>2, <1>3, <1>5 DEF TextOf, EndOf, J

\* What SubSeq takes from behind the first a elements.
LEMMA PartIs ==
    ASSUME NEW S, NEW s \in Seq(S), NEW a \in 0 .. Len(s), NEW b \in a .. Len(s)
    PROVE  /\ SubSeq(s, a + 1, b) \in Seq(S) /\ Len(SubSeq(s, a + 1, b)) = b - a
           /\ \A i \in 1 .. b - a : SubSeq(s, a + 1, b)[i] = s[a + i]
<1> DEFINE m == a + 1
           x == SubSeq(s, m, b)
<1>1. Len(s) \in Nat /\ a \in Nat /\ b \in Nat /\ m \in Int /\ b \in Int /\ a <= b /\ b <= Len(s)
  BY LenProperties
<1>2. m = a + 1
  OBVIOUS
<1>3. \A i \in m .. b : s[i] \in S
  <2> SUFFICES ASSUME NEW i \in m .. b PROVE s[i] \in S
    OBVIOUS
  <2>1. i \in 1 .. Len(s)
    BY <1>1
  <2> QED BY <2>1, ElementOfSeq
<1> HIDE DEF m
<1>4. /\ x \in Seq(S) /\ Len(x) = IF m <= b THEN b - m + 1 ELSE 0
      /\ \A i \in 1 .. b - m + 1 : x[i] = s[m + i - 1]
  BY <1>1, <1>3, SubSeqProperties
<1> HIDE DEF x
<1>5. Len(x) = b - a
  BY <1>1, <1>2, <1>4
<1>6. ASSUME NEW i \in 1 .. b - a PROVE x[i] = s[a + i]
  <2>1. i \in 1 .. b - m + 1 /\ m + i - 1 = a + i
    BY <1>1, <1>2
  <2> QED BY <1>4, <2>1
<1>7. SubSeq(s, a + 1, b) = x
  BY <1>2 DEF x
<1> QED BY <1>4, <1>5, <1>6, <1>7

\* A part of a buffer is a part of the text.
LEMMA PartOfText ==
    ASSUME NEW I, InputBuffers(I), NEW k \in 1 .. Len(I), NEW a \in 0 .. Len(I[k]), NEW b \in a .. Len(I[k])
    PROVE  SubSeq(TextOf(I), EndOf(I, k - 1) + a + 1, EndOf(I, k - 1) + b) = SubSeq(I[k], a + 1, b)
<1> DEFINE t == TextOf(I)
           u == I[k]
           z == EndOf(I, k - 1)
<1>1. /\ t \in Seq(STRING) /\ u \in Seq(STRING) /\ Len(u) \in Nat /\ z \in Nat /\ Len(t) \in Nat
      /\ z + Len(u) <= Len(t)
      /\ \A p \in 1 .. Len(u) : t[z + p] = u[p]
  BY BufferInText
<1> HIDE DEF t, u, z
<1>2. a \in Nat /\ b \in Nat /\ a <= b /\ b <= Len(u)
  BY <1>1 DEF u
<1> DEFINE x == SubSeq(t, z + a + 1, z + b)
           y == SubSeq(u, a + 1, b)
<1>3. x \in Seq(STRING) /\ Len(x) = b - a /\ \A i \in 1 .. b - a : x[i] = t[z + a + i]
  <2> DEFINE c == z + a
             d == z + b
  <2>1. c \in 0 .. Len(t) /\ d \in c .. Len(t) /\ d - c = b - a
    BY <1>1, <1>2
  <2> HIDE DEF c, d
  <2>2. /\ SubSeq(t, c + 1, d) \in Seq(STRING) /\ Len(SubSeq(t, c + 1, d)) = d - c
        /\ \A i \in 1 .. d - c : SubSeq(t, c + 1, d)[i] = t[c + i]
    BY <1>1, <2>1, PartIs, SMTT(30)
  <2> QED BY <2>1, <2>2 DEF c, d
<1>4. y \in Seq(STRING) /\ Len(y) = b - a /\ \A i \in 1 .. b - a : y[i] = u[a + i]
  <2>1. a \in 0 .. Len(u) /\ b \in a .. Len(u)
    BY <1>2
  <2> QED BY <1>1, <2>1, PartIs
<1> HIDE DEF x, y
<1>5. ASSUME NEW i \in 1 .. Len(x) PROVE x[i] = y[i]
  <2>1. i \in 1 .. b - a
    BY <1>3
  <2>2. a + i \in 1 .. Len(u) /\ z + a + i = z + (a + i)
    BY <1>1, <1>2, <2>1
  <2> QED BY <1>1, <1>3, <1>4, <2>1, <2>2
<1>6. x = y
  BY <1>3, <1>4, <1>5, SeqEqual
<1> QED BY <1>6 DEF x, y, t, u, z

-----------------------------------------------------------------------------
LineStates == [buf : Seq(STRING), pos : Nat, old : Seq(STRING), sub : Seq(STRING), test : BOOLEAN, off : 0 .. 2]

\* at the head of the inner loop, what is left of the buffer before taken over
Settled(I, le, t, k, j) ==
    LET i == EndOf(I, k - 1) + t.pos IN
    /\ k \in 1 .. Len(I) /\ t.buf = I[k] /\ t.pos \in 0 .. Len(t.buf)
    /\ Seen(I, le, t, i, j)
    /\ t.old = <<>> /\ ~t.test
    /\ t.pos > 0 => t.sub = <<>>
    /\ IsAfterCR(I, le, i) => t.pos < Len(t.buf) /\ t.buf[t.pos + 1] # LF

-----------------------------------------------------------------------------
\* The filter that wanted a buffer is at the beginning of the one it gets.
LEMMA TakesBuffer ==
    ASSUME NEW I, NEW le, NEW s \in LineStates, NEW k \in Nat, NEW j, NEW b,
           WantsBuffer(I, le, s, k, j), k < Len(I), InputBuffers(I), b = I[k + 1]
    PROVE  InBuffer(I, le, NewBuffer(s, b), k + 1, j)
<1> DEFINE t == NewBuffer(s, b)
<1>1. /\ t.buf = b /\ t.pos = 0 /\ t.old = s.old /\ t.sub = s.sub /\ t.test = s.test /\ t.off = s.off
  BY DEF NewBuffer, LineStates
<1>2. k + 1 \in 1 .. Len(I) /\ k + 1 - 1 = k
  <2>1. Len(I) \in Nat
    BY LenProperties DEF InputBuffers
  <2> QED BY <2>1
<1>3. EndOf(I, k) \in Nat /\ Len(b) \in Nat
  BY <1>2, BufferInText
<1> HIDE DEF t
<1>4. EndOf(I, k + 1 - 1) + t.pos = EndOf(I, k) /\ t.pos \in 0 .. Len(t.buf)
  BY <1>1, <1>2, <1>3
<1>5. Seen(I, le, t, EndOf(I, k), j)
  BY <1>1 DEF WantsBuffer, Seen, OffSet
<1>6. /\ t.pos > 0 \/ t.test => t.sub = <<>> /\ t.old = <<>>
      /\ t.test => t.pos = 0 /\ IsAfterCR(I, le, EndOf(I, k))
      /\ ~t.test /\ IsAfterCR(I, le, EndOf(I, k)) => FALSE
  BY <1>1 DEF WantsBuffer
<1>7. InBuffer(I, le, t, k + 1, j)
  BY <1>1, <1>2, <1>4, <1>5, <1>6 DEF InBuffer
<1> QED BY <1>7 DEF t

\* The head of the inner loop.
LEMMA Settles ==
    ASSUME NEW I, NEW le, NEW s \in LineStates, NEW k, NEW j,
           InBuffer(I, le, s, k, j), InputBuffers(I), CR # LF
    PROVE  Settle(s) \in LineStates /\ Settled(I, le, Settle(s), k, j)
<1> DEFINE t == Settle(s)
           z == EndOf(I, k - 1)
           text == TextOf(I)
           K == Scan(text, le)
           i == z + s.pos
<1>1. /\ k \in 1 .. Len(I) /\ s.buf = I[k] /\ s.pos \in 0 .. Len(s.buf)
      /\ Seen(I, le, s, i, j)
      /\ s.pos > 0 \/ s.test => s.sub = <<>> /\ s.old = <<>>
      /\ s.test => s.pos = 0 /\ IsAfterCR(I, le, i)
      /\ ~s.test /\ IsAfterCR(I, le, i) => s.pos < Len(s.buf) /\ s.buf[s.pos + 1] # LF
  BY DEF InBuffer
<1>2. /\ text \in Seq(STRING) /\ I[k] \in Seq(STRING) /\ Len(I[k]) \in Nat \ {0}
      /\ z \in Nat /\ EndOf(I, k) = z + Len(I[k])
      /\ Len(text) \in Nat /\ EndOf(I, k) <= Len(text)
      /\ \A p \in 1 .. Len(I[k]) : text[z + p] = I[k][p]
  BY <1>1, BufferInText
<1>3. /\ s.sub \in Seq(STRING) /\ s.old \in Seq(STRING) /\ s.sub \o s.old \in Seq(STRING)
      /\ s.pos \in Nat /\ s.off \in 0 .. 2 /\ s.test \in BOOLEAN /\ s.buf \in Seq(STRING)
      /\ <<>> \in Seq(STRING)
  <2>1. s.sub \in Seq(STRING) /\ s.old \in Seq(STRING)
    BY DEF LineStates
  <2>2. s.sub \o s.old \in Seq(STRING)
    BY <2>1, ConcatProperties
  <2> QED BY <2>1, <2>2, EmptySeq DEF LineStates
<1> DEFINE skips == s.test /\ s.buf[s.pos + 1] = LF
<1>4. /\ t \in LineStates
      /\ t.buf = s.buf /\ t.pos = (IF skips THEN s.pos + 1 ELSE s.pos) /\ t.test = FALSE
      /\ t.sub = s.sub \o s.old /\ t.old = <<>> /\ t.off = s.off
  <2> DEFINE w == s.sub \o s.old
             q == IF skips THEN s.pos + 1 ELSE s.pos
  <2>1. t = [s EXCEPT !.pos = q, !.test = FALSE, !.sub = w, !.old = <<>>]
    BY DEF Settle
  <2>2. q \in Nat /\ w \in Seq(STRING)
    BY <1>3
  <2> HIDE DEF w, q, t
  <2>3. t \in LineStates /\ t.buf = s.buf /\ t.pos = q /\ t.test = FALSE
        /\ t.sub = w /\ t.old = <<>> /\ t.off = s.off
    BY <1>3, <2>1, <2>2 DEF LineStates
  <2> QED BY <2>3 DEF w, q
<1>5. t.sub \o t.old = s.sub \o s.old
  BY <1>3, <1>4, ConcatEmptySeq
<1>6. j = Len(K[i].lines) /\ K[i].open = s.sub \o s.old /\ OffSet(I, le, s, i)
  BY <1>1 DEF Seen
<1> HIDE DEF z, text, K, t
<1>7. CASE ~skips
  <2>1. t.pos = s.pos /\ z + t.pos = i
    BY <1>4, <1>7
  <2>2. Seen(I, le, t, z + t.pos, j)
    <3> HIDE DEF i
    <3> QED BY <1>4, <1>5, <1>6, <2>1 DEF Seen, OffSet, K, text
  <2>3. t.pos > 0 => t.sub = <<>>
    BY <1>1, <1>3, <1>4, <2>1, ConcatEmptySeq
  <2>4. IsAfterCR(I, le, z + t.pos) => t.pos < Len(t.buf) /\ t.buf[t.pos + 1] # LF
    <3>1. 0 < Len(I[k])
      BY <1>2
    <3> QED BY <1>1, <1>4, <1>7, <2>1, <3>1
  <2> QED BY <1>1, <1>4, <2>1, <2>2, <2>3, <2>4 DEF Settled, t, z
<1>8. CASE skips
  <2>1. /\ s.pos = 0 /\ i = z /\ z \in Nat /\ z > 0 /\ t.pos = 1 /\ z + t.pos = z + 1
        /\ text[z] = CR /\ le = "DosLineEnd" /\ s.sub = <<>> /\ s.old = <<>>
    BY <1>1, <1>2, <1>4, <1>8 DEF IsAfterCR, text
  <2>2. 1 \in 1 .. Len(I[k]) /\ text[z + 1] = LF
    BY <1>1, <1>2, <1>8, <2>1
  <2>3. z + 1 \in 1 .. Len(text) /\ z + 1 - 1 = z /\ z + 1 > 1
    BY <1>2, <2>1
  <2>4. IsSkipped(text, le, z + 1)
    BY <2>1, <2>2, <2>3 DEF IsSkipped
  <2>5. K[z + 1] = K[z]
    BY <1>2, <2>3, <2>4, ScanSkips DEF K
  <2>6. s.off \in {1, 2}
    <3>1. z \in 1 .. z
      BY <2>1
    <3> QED BY <1>6, <2>1, <3>1 DEF OffSet, text
  <2>7. Seen(I, le, t, z + t.pos, j)
    BY <1>4, <1>5, <1>6, <2>1, <2>5, <2>6 DEF Seen, OffSet, K, text
  <2>8. ~IsAfterCR(I, le, z + t.pos)
    BY <2>1, <2>2 DEF IsAfterCR, text
  <2>9. t.sub = <<>>
    BY <1>3, <1>4, <2>1, ConcatEmptySeq
  <2>10. t.pos \in 0 .. Len(t.buf)
    BY <1>1, <1>2, <1>4, <2>1
  <2> QED BY <1>1, <1>4, <2>7, <2>8, <2>9, <2>10 DEF Settled, t, z
<1> QED BY <1>7, <1>8

-----------------------------------------------------------------------------
\* The buffer of t lies in the text behind the first z characters.
LiesAt(text, z, t) ==
    /\ text \in Seq(STRING) /\ t.buf \in Seq(STRING)
    /\ Len(t.buf) \in Nat \ {0} /\ Len(text) \in Nat /\ z \in Nat
    /\ t.pos \in 0 .. Len(t.buf) /\ z + Len(t.buf) <= Len(text)
    /\ \A p \in 1 .. Len(t.buf) : text[z + p] = t.buf[p]
    /\ \A b \in t.pos .. Len(t.buf) : SubSeq(text, z + t.pos + 1, z + b) = SubSeq(t.buf, t.pos + 1, b)

\* That of a settled filter does.
LEMMA SettledIn ==
    ASSUME NEW I, NEW le, NEW t, NEW k, NEW j, Settled(I, le, t, k, j), InputBuffers(I)
    PROVE  LiesAt(TextOf(I), EndOf(I, k - 1), t) /\ EndOf(I, k) = EndOf(I, k - 1) + Len(t.buf)
<1> DEFINE z == EndOf(I, k - 1)
           text == TextOf(I)
           n == Len(t.buf)
<1>1. k \in 1 .. Len(I) /\ t.buf = I[k] /\ t.pos \in 0 .. n
  BY DEF Settled
<1>2. /\ text \in Seq(STRING) /\ I[k] \in Seq(STRING) /\ Len(I[k]) \in Nat \ {0}
      /\ z \in Nat /\ EndOf(I, k) = z + Len(I[k])
      /\ Len(text) \in Nat /\ EndOf(I, k) <= Len(text)
      /\ \A p \in 1 .. Len(I[k]) : text[z + p] = I[k][p]
  BY <1>1, BufferInText
<1>3. ASSUME NEW b \in t.pos .. n PROVE SubSeq(text, z + t.pos + 1, z + b) = SubSeq(t.buf, t.pos + 1, b)
  <2>1. t.pos \in 0 .. Len(I[k]) /\ b \in t.pos .. Len(I[k])
    BY <1>1
  <2>2. SubSeq(TextOf(I), EndOf(I, k - 1) + t.pos + 1, EndOf(I, k - 1) + b) = SubSeq(I[k], t.pos + 1, b)
    BY <1>1, <2>1, PartOfText
  <2> QED BY <1>1, <2>2
<1> HIDE DEF z, text
<1> QED BY <1>1, <1>2, <1>3 DEF z, text, LiesAt

\* What QuietRun says: no line has ended in the part from pos to e.
OpenTo(text, le, z, t, e) ==
    /\ \A q \in z + t.pos + 1 .. z + e : text[q] # Ends(le) /\ ~IsSkipped(text, le, q)
    /\ Scan(text, le)[z + e].lines = Scan(text, le)[z + t.pos].lines
    /\ Scan(text, le)[z + e].open = t.sub \o SubSeq(t.buf, t.pos + 1, e)

\* Without the character that ends a line there is nothing that is skipped,
\* and the characters are added to the line that is open.
LEMMA QuietRun ==
    ASSUME NEW I, NEW le, NEW t, NEW k, NEW j, Settled(I, le, t, k, j), InputBuffers(I),
           NEW e \in t.pos .. Len(t.buf), \A p \in t.pos + 1 .. e : t.buf[p] # Ends(le)
    PROVE  OpenTo(TextOf(I), le, EndOf(I, k - 1), t, e)
<1> DEFINE z == EndOf(I, k - 1)
           text == TextOf(I)
           n == Len(t.buf)
           i == z + t.pos
           K == Scan(text, le)
<1>0. LiesAt(text, z, t)
  BY SettledIn
<1>1. /\ text \in Seq(STRING) /\ n \in Nat \ {0} /\ z \in Nat /\ t.pos \in 0 .. n
      /\ Len(text) \in Nat /\ z + n <= Len(text)
      /\ \A p \in 1 .. n : text[z + p] = t.buf[p]
      /\ \A b \in t.pos .. n : SubSeq(text, z + t.pos + 1, z + b) = SubSeq(t.buf, t.pos + 1, b)
  <2> HIDE DEF z, text
  <2> QED BY <1>0 DEF LiesAt
<1>2. IsAfterCR(I, le, i) => t.pos < n /\ t.buf[t.pos + 1] # LF
  BY DEF Settled
<1>3. K[i].open = t.sub
  <2>1. K[i].open = t.sub \o t.old /\ t.old = <<>>
    BY DEF Settled, Seen
  <2>2. K[i] \in Scanned(STRING)
    <3>1. i \in 0 .. Len(text)
      BY <1>1
    <3> QED BY <1>1, <3>1, ScanIs
  <2>3. CASE t.sub \in Seq(STRING)
    BY <2>1, <2>3, ConcatEmptySeq
  <2> QED BY <2>1, <2>2
<1> HIDE DEF z, text, n, i, K
<1>4. e \in Nat /\ t.pos \in Nat /\ t.pos <= e /\ e <= n /\ n \in Nat /\ z \in Nat
  BY <1>1 DEF n
<1>5. ASSUME NEW q \in z + t.pos + 1 .. z + e PROVE text[q] # Ends(le) /\ ~IsSkipped(text, le, q)
  <2> DEFINE p == q - z
  <2>1. p \in t.pos + 1 .. e /\ p \in 1 .. n /\ z + p = q /\ q \in Nat
    BY <1>4
  <2> HIDE DEF p
  <2>2. text[q] = t.buf[p] /\ t.buf[p] # Ends(le)
    BY <1>1, <2>1
  <2>3. ASSUME IsSkipped(text, le, q) PROVE FALSE
    <3>1. le = "DosLineEnd" /\ q > 1 /\ text[q] = LF /\ text[q - 1] = CR /\ Ends(le) = CR
      BY <2>3 DEF IsSkipped, Ends
    <3>2. CASE p = t.pos + 1
      <4>1. q - 1 = i /\ i > 0
        BY <1>4, <2>1, <3>1, <3>2, SMTT(30) DEF i
      <4>2. IsAfterCR(I, le, i)
        BY <3>1, <4>1 DEF IsAfterCR, text
      <4> QED BY <1>2, <2>2, <3>1, <3>2, <4>2
    <3>3. CASE p # t.pos + 1
      <4>1. p - 1 \in t.pos + 1 .. e /\ p - 1 \in 1 .. n /\ z + (p - 1) = q - 1
        BY <1>4, <2>1, <3>3
      <4>2. text[q - 1] = t.buf[p - 1] /\ t.buf[p - 1] # Ends(le)
        BY <1>1, <4>1
      <4> QED BY <3>1, <4>2
    <3> QED BY <3>2, <3>3
  <2> QED BY <2>2, <2>3
<1>6. z + e \in i .. Len(text) /\ i \in 0 .. Len(text) /\ z + t.pos = i
  <2> DEFINE m == Len(text)
  <2>1. m \in Nat /\ z + n <= m
    BY <1>1
  <2> HIDE DEF m
  <2>2. z + e \in z + t.pos .. m /\ z + t.pos \in 0 .. m
    BY <1>4, <2>1
  <2> QED BY <2>2 DEF i, m
<1>7. /\ K[z + e].lines = K[i].lines
      /\ K[z + e].open = K[i].open \o SubSeq(text, i + 1, z + e)
  <2>1. \A q \in i + 1 .. z + e : text[q] # Ends(le) /\ ~IsSkipped(text, le, q)
    BY <1>5 DEF i
  <2> DEFINE y == z + e
  <2>2. y \in i .. Len(text) /\ \A q \in i + 1 .. y : text[q] # Ends(le) /\ ~IsSkipped(text, le, q)
    BY <1>6, <2>1
  <2> HIDE DEF y
  <2>3. /\ Scan(text, le)[y].lines = Scan(text, le)[i].lines
        /\ Scan(text, le)[y].open = Scan(text, le)[i].open \o SubSeq(text, i + 1, y)
    <3>1. text \in Seq(STRING) /\ i \in 0 .. Len(text)
      BY <1>1, <1>6
    <3> QED BY <2>2, <3>1, ScanRun, ZenonT(60)
  <2> QED BY <2>3 DEF K, y
<1>8. SubSeq(text, i + 1, z + e) = SubSeq(t.buf, t.pos + 1, e)
  <2>1. e \in t.pos .. n
    BY DEF n
  <2> QED BY <1>1, <2>1 DEF i
<1>9. K[z + e].open = t.sub \o SubSeq(t.buf, t.pos + 1, e)
  BY <1>3, <1>7, <1>8
<1> QED BY <1>5, <1>7, <1>9 DEF z, text, i, K, OpenTo

\* No line ends in the buffer: the next one is wanted.
LEMMA KeepsRest ==
    ASSUME NEW I, NEW le, NEW t \in LineStates, NEW k, NEW j, Settled(I, le, t, k, j), InputBuffers(I),
           EndOfLine(t, le) = 0
    PROVE  SwapBuffers(t) \in LineStates /\ WantsBuffer(I, le, SwapBuffers(t), k, j)
<1> DEFINE z == EndOf(I, k - 1)
           text == TextOf(I)
           n == Len(t.buf)
           K == Scan(text, le)
           w == SwapBuffers(t)
           r == Rest(t)
<1>0. LiesAt(text, z, t) /\ EndOf(I, k) = z + n
  BY SettledIn
<1>1. /\ text \in Seq(STRING) /\ t.buf \in Seq(STRING) /\ n \in Nat \ {0}
      /\ z \in Nat /\ t.pos \in 0 .. n /\ Len(text) \in Nat /\ z + n <= Len(text) /\ EndOf(I, k) = z + n
      /\ \A p \in 1 .. n : text[z + p] = t.buf[p]
  <2> HIDE DEF z, text
  <2> QED BY <1>0 DEF LiesAt
<1>2. \A p \in t.pos + 1 .. n : t.buf[p] # Ends(le)
  <2>1. EndOfLine(t, le) = FindChar(t, Ends(le))
    BY DEF EndOfLine, Ends
  <2>2. FindChar(t, Ends(le)) = 0
    BY <2>1
  <2>3. ~(0 \in t.pos + 1 .. Len(t.buf)) /\ t.pos \in Nat
    BY <1>1
  <2> QED BY <1>1, <2>2, <2>3, FindCharIs
<1>3. n \in t.pos .. n
  BY <1>1
<1>4. /\ \A q \in z + t.pos + 1 .. z + n : text[q] # Ends(le)
      /\ K[z + n].lines = K[z + t.pos].lines /\ K[z + n].open = t.sub \o SubSeq(t.buf, t.pos + 1, n)
  <2>1. OpenTo(text, le, z, t, n)
    BY <1>2, <1>3, QuietRun
  <2> QED BY <2>1 DEF OpenTo
<1>5. /\ j = Len(K[z + t.pos].lines) /\ OffSet(I, le, t, z + t.pos) /\ t.old = <<>> /\ ~t.test
      /\ t.pos > 0 => t.sub = <<>>
      /\ IsAfterCR(I, le, z + t.pos) => t.pos < n /\ t.buf[t.pos + 1] # LF
      /\ k \in 1 .. Len(I)
  BY DEF Settled, Seen
<1>6. r \in Seq(STRING) /\ Len(r) = n - t.pos /\ r = SubSeq(t.buf, t.pos + 1, n)
  BY <1>1, <1>3, PartIs, SMTT(30) DEF Rest
<1> HIDE DEF z, text, K, n, r
<1>7. /\ w \in LineStates /\ w.old = r /\ w.buf = <<>> /\ w.sub = t.sub /\ w.off = t.off /\ w.test = FALSE
  <2>1. w = [t EXCEPT !.old = r, !.buf = <<>>, !.pos = 0] /\ <<>> \in Seq(STRING)
    BY EmptySeq DEF SwapBuffers, r
  <2> HIDE DEF w
  <2>2. w.old = r /\ w.buf = <<>> /\ w.pos = 0 /\ w.sub = t.sub /\ w.test = t.test /\ w.off = t.off
    BY <2>1 DEF LineStates
  <2>3. w \in LineStates
    BY <1>6, <2>1 DEF LineStates
  <2> QED BY <1>5, <2>2, <2>3
<1> HIDE DEF w
<1>8. OffSet(I, le, w, z + n)
  <2> SUFFICES ASSUME le = "DosLineEnd", t.off \notin {1, 2} PROVE \A p \in 1 .. z + n : text[p] # CR
    BY <1>7 DEF OffSet, text
  <2>1. \A p \in 1 .. z + t.pos : text[p] # CR
    BY <1>5 DEF OffSet, text
  <2>2. \A p \in z + t.pos + 1 .. z + n : text[p] # CR
    BY <1>4 DEF Ends
  <2>3. \A p \in 1 .. z + n : p \in 1 .. z + t.pos \/ p \in z + t.pos + 1 .. z + n
    BY <1>1
  <2> QED BY <2>1, <2>2, <2>3
<1>9. Seen(I, le, w, z + n, j)
  <2>1. K[z + n].open = w.sub \o w.old
    BY <1>4, <1>6, <1>7
  <2> QED BY <1>4, <1>5, <1>8, <2>1 DEF Seen, K, text
<1>10. w.old = <<>> => w.sub = <<>>
  <2> SUFFICES ASSUME r = <<>> PROVE t.sub = <<>>
    BY <1>7
  <2>1. Len(r) = 0
    BY EmptySeq
  <2>2. t.pos > 0
    BY <1>1, <1>6, <2>1
  <2> QED BY <1>5, <2>2
<1>11. ~IsAfterCR(I, le, z + n)
  <2> SUFFICES ASSUME le = "DosLineEnd", text[z + n] = CR PROVE FALSE
    BY DEF IsAfterCR, text
  <2>1. CASE t.pos = n
    BY <1>1, <1>5, <2>1 DEF IsAfterCR, text
  <2>2. CASE t.pos # n
    <3>1. z + n \in z + t.pos + 1 .. z + n
      BY <1>1, <2>2
    <3> QED BY <1>4, <3>1 DEF Ends
  <2> QED BY <2>1, <2>2
<1>12. k \in 0 .. Len(I)
  BY <1>5
<1>13. WantsBuffer(I, le, w, k, j)
  BY <1>1, <1>7, <1>9, <1>10, <1>11, <1>12 DEF WantsBuffer
<1> QED BY <1>7, <1>13 DEF w

-----------------------------------------------------------------------------
\* Where a settled filter finds the end of a line.
LEMMA FindsLine ==
    ASSUME NEW I, NEW le, NEW t \in LineStates, NEW k, NEW j, Settled(I, le, t, k, j), InputBuffers(I),
           EndOfLine(t, le) # 0
    PROVE  LET fpos == EndOfLine(t, le)
               z == EndOf(I, k - 1)
           IN  /\ fpos \in t.pos + 1 .. Len(t.buf) /\ t.buf[fpos] = Ends(le)
               /\ \A p \in t.pos + 1 .. fpos - 1 : t.buf[p] # Ends(le)
               /\ LineAt(STRING, TextOf(I), le, j, z + fpos, t.sub \o SubSeq(t.buf, t.pos + 1, fpos - 1))
<1> DEFINE z == EndOf(I, k - 1)
           text == TextOf(I)
           n == Len(t.buf)
           i == z + t.pos
           K == Scan(text, le)
           fpos == EndOfLine(t, le)
           e == z + fpos
           line == t.sub \o SubSeq(t.buf, t.pos + 1, fpos - 1)
<1>1. LiesAt(text, z, t)
  BY SettledIn
<1>2. j = Len(K[i].lines)
  BY DEF Settled, Seen
<1>3. t.buf \in Seq(STRING) /\ t.pos \in Nat
  BY DEF LineStates
<1> HIDE DEF z, text, fpos
<1>4. n \in Nat /\ Len(text) \in Nat /\ z \in Nat /\ t.pos <= n /\ z + n <= Len(text)
  BY <1>1 DEF LiesAt
<1>5. /\ fpos \in t.pos + 1 .. n /\ t.buf[fpos] = Ends(le)
      /\ \A p \in t.pos + 1 .. fpos - 1 : t.buf[p] # Ends(le)
  <2>1. fpos = FindChar(t, Ends(le)) /\ fpos # 0
    BY DEF EndOfLine, Ends, fpos
  <2> QED BY <1>3, <2>1, FindCharIs
<1>6. fpos \in Nat /\ fpos - 1 \in t.pos .. n /\ z + (fpos - 1) = e - 1 /\ fpos \in 1 .. n
  BY <1>3, <1>4, <1>5
<1>7. OpenTo(text, le, z, t, fpos - 1)
  BY <1>5, <1>6, QuietRun DEF z, text
<1>8. text[e] = Ends(le) /\ text \in Seq(STRING)
  BY <1>1, <1>5, <1>6 DEF LiesAt
<1>9. i \in 0 .. Len(text) /\ e \in i + 1 .. Len(text) /\ e - 1 \in i .. Len(text)
  <2> DEFINE m == Len(text)
             b == t.pos
  <2>1. m \in Nat /\ n \in Nat /\ z + n <= m /\ z \in Nat /\ b \in Nat /\ b <= n /\ fpos \in b + 1 .. n
    BY <1>3, <1>4, <1>5
  <2> HIDE DEF m, b, n
  <2>2. z + b \in 0 .. m /\ z + fpos \in z + b + 1 .. m /\ z + fpos - 1 \in z + b .. m
    BY <2>1
  <2> QED BY <2>2 DEF m, b
<1>10. /\ \A p \in i + 1 .. e - 1 : text[p] # Ends(le) /\ ~IsSkipped(text, le, p)
       /\ K[e - 1].lines = K[i].lines /\ K[e - 1].open = line
  BY <1>6, <1>7 DEF OpenTo
<1>11. K[e - 1].open = K[i].open \o SubSeq(text, i + 1, e - 1)
  <2> HIDE DEF i, e
  <2>1. \A p \in i + 1 .. e - 1 : text[p] # Ends(le) /\ ~IsSkipped(text, le, p)
    BY <1>10
  <2> DEFINE y == e - 1
  <2> HIDE DEF y
  <2>2. y \in i .. Len(text) /\ \A p \in i + 1 .. y : text[p] # Ends(le) /\ ~IsSkipped(text, le, p)
    BY <1>9, <2>1 DEF y
  <2>3. Scan(text, le)[y].open = Scan(text, le)[i].open \o SubSeq(text, i + 1, y)
    BY <1>8, <1>9, <2>2, ScanRun, ZenonT(60)
  <2> QED BY <2>3 DEF y
<1> HIDE DEF i, e, line
<1> DEFINE ln == K[i].open \o SubSeq(text, i + 1, e - 1)
<1>12. LineAt(STRING, text, le, Len(K[i].lines), e, ln)
  <2>1. text \in Seq(STRING) /\ i \in 0 .. Len(text) /\ e \in i + 1 .. Len(text) /\ text[e] = Ends(le)
    BY <1>8, <1>9
  <2>2. \A p \in i + 1 .. e - 1 : text[p] # Ends(le) /\ ~IsSkipped(text, le, p)
    BY <1>10
  <2> QED BY <2>1, <2>2, ScanLine, Zenon
<1>13. ln = line
  BY <1>10, <1>11
<1> HIDE DEF ln, K
<1>14. LineAt(STRING, text, le, j, e, line)
  BY <1>2, <1>12, <1>13
<1> QED BY <1>5, <1>14 DEF z, text, fpos, e, line

\* It has written the line, and is in the buffer behind it, or through with
\* the buffer and at its end.
LEMMA WritesALine ==
    ASSUME NEW I, NEW le, NEW s \in LineStates, NEW k, NEW j, InBuffer(I, le, s, k, j), InputBuffers(I),
           CR # LF, le = "DosLineEnd" => CutWell(I), HasLine(s, le)
    PROVE  LET a == AfterLine(s, le)
           IN  /\ a \in LineStates /\ SwapBuffers(a) \in LineStates
               /\ Line(s, le) \in Seq(STRING)
               /\ j + 1 \in 1 .. Len(LinesOf(TextOf(I), le)) /\ LinesOf(TextOf(I), le)[j + 1] = Line(s, le)
               /\ a.test => WantsBuffer(I, le, SwapBuffers(a), k, j + 1)
               /\ ~a.test => InBuffer(I, le, a, k, j + 1)
<1> DEFINE t == Settle(s)
           z == EndOf(I, k - 1)
           text == TextOf(I)
           n == Len(t.buf)
           K == Scan(text, le)
           fpos == EndOfLine(t, le)
           e == z + fpos
           line == Line(s, le)
           off == LineEndLength(t, le)
           a == AfterLine(s, le)
           w == SwapBuffers(a)
<1>1. t \in LineStates /\ Settled(I, le, t, k, j)
  BY Settles
<1>2. fpos # 0
  BY DEF HasLine
<1>3. LiesAt(text, z, t) /\ EndOf(I, k) = z + n
  BY <1>1, SettledIn
<1> HIDE DEF t
<1>4. /\ fpos \in t.pos + 1 .. n /\ t.buf[fpos] = Ends(le)
      /\ \A p \in t.pos + 1 .. fpos - 1 : t.buf[p] # Ends(le)
      /\ LineAt(STRING, text, le, j, e, t.sub \o SubSeq(t.buf, t.pos + 1, fpos - 1))
  BY <1>1, <1>2, FindsLine
<1>5. line = t.sub \o SubSeq(t.buf, t.pos + 1, fpos - 1)
  BY DEF Line, t
<1>6. k \in 1 .. Len(I) /\ t.buf = I[k] /\ t.pos \in Nat /\ t.off \in 0 .. 2 /\ ~t.test
      /\ OffSet(I, le, t, z + t.pos)
  BY <1>1 DEF Settled, Seen, LineStates
<1> HIDE DEF z, text, fpos, line
<1>7. n \in Nat /\ Len(text) \in Nat /\ z \in Nat /\ t.pos <= n /\ z + n <= Len(text)
      /\ fpos \in Nat /\ fpos >= 1 /\ fpos <= n /\ fpos \in 1 .. n /\ text \in Seq(STRING)
  BY <1>3, <1>4, <1>6 DEF LiesAt
<1>8. text[e] = Ends(le) /\ e \in Nat /\ e > 0
  BY <1>3, <1>4, <1>7 DEF LiesAt
<1>9. /\ off \in 0 .. 2
      /\ EndsInCR(t, le) => off = t.off
      /\ ~EndsInCR(t, le) => off = IF le = "DosLineEnd" /\ t.buf[fpos + 1] = LF THEN 2 ELSE 1
  <2>1. off = IF EndsInCR(t, le) THEN t.off
              ELSE IF le = "DosLineEnd" /\ t.buf[fpos + 1] = LF THEN 2 ELSE 1
    BY DEF LineEndLength, fpos
  <2> HIDE DEF off
  <2> QED BY <1>6, <2>1
<1>10. EndsInCR(t, le) <=> le = "DosLineEnd" /\ fpos = n
  BY DEF EndsInCR, fpos
<1> HIDE DEF off
<1>11. /\ a \in LineStates /\ a.buf = t.buf /\ a.pos = fpos - 1 + off /\ a.old = t.old
       /\ a.sub = <<>> /\ a.off = off /\ a.test = EndsInCR(t, le)
  <2> DEFINE q == fpos - 1 + off
             b == EndsInCR(t, le)
  <2>1. a = [t EXCEPT !.sub = <<>>, !.pos = q, !.off = off, !.test = b]
    BY DEF AfterLine, t, off, fpos
  <2>2. q \in Nat /\ b \in BOOLEAN /\ <<>> \in Seq(STRING)
    BY <1>7, <1>9, EmptySeq DEF EndsInCR
  <2> HIDE DEF q, b, a
  <2>3. a.buf = t.buf /\ a.pos = q /\ a.old = t.old /\ a.sub = <<>> /\ a.off = off /\ a.test = b
    BY <1>1, <2>1 DEF LineStates
  <2>4. a \in LineStates
    BY <1>1, <1>9, <2>1, <2>2 DEF LineStates
  <2> QED BY <2>3, <2>4 DEF q, b
<1>12. t.old = <<>> /\ Ends("DosLineEnd") = CR
  BY <1>1 DEF Settled, Ends
<1>13. <<>> \in Seq(STRING) /\ <<>> \o <<>> = <<>>
  BY EmptySeq, ConcatEmptySeq
<1> HIDE DEF a
<1>14. /\ w = [a EXCEPT !.old = Rest(a), !.buf = <<>>, !.pos = 0]
       /\ Rest(a) = SubSeq(a.buf, a.pos + 1, Len(a.buf))
  BY DEF SwapBuffers, Rest
<1>15. Rest(a) \in Seq(STRING)
  <2>1. a.buf \in Seq(STRING) /\ a.pos \in Nat
    BY <1>11 DEF LineStates
  <2> DEFINE m == a.pos + 1
             l == Len(a.buf)
  <2>2. m \in Int /\ l \in Int /\ \A i \in m .. l : i \in 1 .. l
    BY <2>1, LenProperties
  <2>3. \A i \in m .. l : a.buf[i] \in STRING
    BY <2>1, <2>2, ElementOfSeq
  <2> HIDE DEF m, l
  <2>4. SubSeq(a.buf, m, l) \in Seq(STRING)
    BY <2>2, <2>3, SubSeqProperties
  <2> QED BY <1>14, <2>4 DEF m, l
<1>16. /\ w \in LineStates /\ w.old = Rest(a) /\ w.sub = <<>> /\ w.test = a.test /\ w.off = off
  <2> HIDE DEF w
  <2> DEFINE r == Rest(a)
  <2>1. w = [a EXCEPT !.old = r, !.buf = <<>>, !.pos = 0] /\ r \in Seq(STRING)
    BY <1>14, <1>15
  <2> HIDE DEF r
  <2>2. w \in LineStates
    BY <1>11, <1>13, <2>1 DEF LineStates
  <2>3. w.old = r /\ w.sub = a.sub /\ w.test = a.test /\ w.off = a.off
    BY <1>11, <2>1 DEF LineStates
  <2> QED BY <1>11, <2>2, <2>3 DEF r
<1> HIDE DEF w
<1>17. Len(K[e].lines) = j + 1 /\ K[e].open = <<>>
  BY <1>4 DEF LineAt
<1>18. ASSUME a.test PROVE WantsBuffer(I, le, w, k, j + 1)
  <2>1. le = "DosLineEnd" /\ fpos = n /\ off = t.off /\ e = EndOf(I, k) /\ text[e] = CR
    BY <1>3, <1>8, <1>9, <1>10, <1>11, <1>12, <1>18
  <2>2. t.off \in {1, 2}
    <3> SUFFICES ASSUME \A p \in 1 .. z + t.pos : text[p] # CR PROVE FALSE
      BY <1>6, <2>1 DEF OffSet, text
    <3>1. PICK q \in 1 .. e - 1 : text[q] = CR
      BY <1>6, <2>1 DEF CutWell, text
    <3>2. q \in z + t.pos + 1 .. e - 1
      BY <1>6, <1>7, <1>8, <3>1
    <3> DEFINE p == q - z
    <3>3. p \in t.pos + 1 .. fpos - 1 /\ z + p = q /\ p \in 1 .. n
      BY <1>6, <1>7, <3>2, SMTT(30)
    <3> HIDE DEF p
    <3>4. text[q] = t.buf[p]
      BY <1>3, <3>3 DEF LiesAt
    <3> QED BY <1>4, <1>12, <2>1, <3>1, <3>3, <3>4
  <2>3. Rest(a) = <<>>
    <3>1. Len(a.buf) = n /\ a.pos + 1 > n /\ a.pos + 1 \in Int /\ n \in Int
      BY <1>7, <1>11, <2>1, <2>2
    <3> DEFINE m == a.pos + 1
    <3> HIDE DEF m
    <3>2. SubSeq(a.buf, m, n) = <<>>
      BY <3>1, SubSeqEmpty DEF m
    <3> QED BY <1>14, <3>1, <3>2 DEF m
  <2>4. Seen(I, le, w, e, j + 1)
    BY <1>13, <1>16, <1>17, <2>1, <2>2, <2>3 DEF Seen, OffSet, K, text
  <2>5. IsAfterCR(I, le, e)
    BY <1>8, <2>1 DEF IsAfterCR, text
  <2> QED BY <1>6, <1>16, <1>18, <2>1, <2>3, <2>4, <2>5 DEF WantsBuffer
<1>19. ASSUME ~a.test PROVE InBuffer(I, le, a, k, j + 1)
  <2>1. ~EndsInCR(t, le) /\ off \in {1, 2}
    BY <1>9, <1>11, <1>19
  <2>2. CASE off = 2
    <3>1. le = "DosLineEnd" /\ fpos < n /\ t.buf[fpos + 1] = LF /\ a.pos = fpos + 1
          /\ fpos + 1 \in 1 .. n
      BY <1>7, <1>9, <1>10, <1>11, <2>1, <2>2
    <3>2. text[e + 1] = LF /\ e + 1 \in 1 .. Len(text) /\ e + 1 > 1 /\ e + 1 - 1 = e /\ z + a.pos = e + 1
          /\ z + (fpos + 1) = e + 1
      <4>1. z + (fpos + 1) = e + 1
        BY <1>7
      <4>2. text[e + 1] = LF
        BY <1>3, <3>1, <4>1 DEF LiesAt
      <4> QED BY <1>7, <3>1, <4>1, <4>2
    <3>3. IsSkipped(text, le, e + 1)
      BY <1>8, <1>12, <3>1, <3>2 DEF IsSkipped
    <3>4. K[e + 1] = K[e]
      BY <1>7, <3>2, <3>3, ScanSkips
    <3>5. Seen(I, le, a, e + 1, j + 1)
      BY <1>11, <1>12, <1>13, <1>17, <2>2, <3>4 DEF Seen, OffSet, K, text
    <3>6. ~IsAfterCR(I, le, e + 1)
      BY <3>2 DEF IsAfterCR, text
    <3>7. a.pos \in 0 .. Len(a.buf)
      BY <1>7, <1>11, <3>1
    <3> QED BY <1>6, <1>11, <1>12, <1>19, <3>2, <3>5, <3>6, <3>7 DEF InBuffer, z
  <2>3. CASE off = 1
    <3>1. a.pos = fpos /\ z + a.pos = e /\ a.pos \in 0 .. Len(a.buf)
      BY <1>7, <1>11, <2>3
    <3>2. Seen(I, le, a, e, j + 1)
      BY <1>11, <1>12, <1>13, <1>17, <2>3 DEF Seen, OffSet, K, text
    <3>3. le = "DosLineEnd" => a.pos < Len(a.buf) /\ a.buf[a.pos + 1] # LF
      BY <1>7, <1>9, <1>10, <1>11, <2>1, <2>3, <3>1
    <3>4. IsAfterCR(I, le, e) => le = "DosLineEnd"
      BY DEF IsAfterCR
    <3> QED BY <1>6, <1>11, <1>12, <1>19, <3>1, <3>2, <3>3, <3>4 DEF InBuffer, z
  <2> QED BY <2>1, <2>2, <2>3
<1>20. /\ line \in Seq(STRING) /\ j + 1 \in 1 .. Len(LinesOf(text, le)) /\ LinesOf(text, le)[j + 1] = line
  BY <1>4, <1>5 DEF LineAt
<1> QED BY <1>11, <1>16, <1>18, <1>19, <1>20 DEF a, w, line, text

\* At the end of the input, what is left is the last line.
LEMMA EndsLines ==
    ASSUME NEW I, NEW le, NEW s \in LineStates, NEW j, InputBuffers(I), WantsBuffer(I, le, s, Len(I), j)
    PROVE  LET O == LinesOf(TextOf(I), le)
           IN  /\ s.old = <<>> => j = Len(O)
               /\ s.old # <<>> => j + 1 = Len(O) /\ O[j + 1] = s.sub \o s.old
               /\ s.sub \o s.old \in Seq(STRING)
<1> DEFINE text == TextOf(I)
           n == Len(text)
           K == Scan(text, le)
           O == LinesOf(text, le)
           more == s.sub \o s.old
<1>1. /\ j = Len(K[n].lines) /\ K[n].open = more /\ (s.old = <<>> => s.sub = <<>>)
  BY DEF WantsBuffer, Seen, EndOf, TextOf
<1>2. s.sub \in Seq(STRING) /\ s.old \in Seq(STRING)
  BY DEF LineStates
<1>3. more \in Seq(STRING) /\ (more = <<>> <=> s.sub = <<>> /\ s.old = <<>>)
  BY <1>2, ConcatProperties, ConcatEqualIffEmpty
<1>4. O = IF K[n].open = <<>> THEN K[n].lines ELSE Append(K[n].lines, K[n].open)
  BY DEF LinesOf
<1>5. text \in Seq(STRING) /\ n \in Nat
  <2>1. text \in Seq(STRING)
    <3>1. Joined(I) \in [0 .. Len(I) -> Seq(STRING)] /\ Len(I) \in Nat
      BY JoinedIs, LenProperties DEF InputBuffers
    <3>2. Len(I) \in 0 .. Len(I)
      BY <3>1
    <3> QED BY <3>1, <3>2 DEF TextOf
  <2> QED BY <2>1, LenProperties
<1>6. K[n].lines \in Seq(Seq(STRING))
  <2>1. n \in 0 .. Len(text)
    BY <1>5
  <2>2. K[n] \in Scanned(STRING)
    BY <1>5, <2>1, ScanIs
  <2> QED BY <2>2 DEF Scanned
<1> HIDE DEF K, O, more, text
<1>7. /\ Append(K[n].lines, more)[Len(K[n].lines) + 1] = more
      /\ Len(Append(K[n].lines, more)) = Len(K[n].lines) + 1
  BY <1>3, <1>6, AppendProperties
<1>8. s.old = <<>> => j = Len(O)
  BY <1>1, <1>3, <1>4
<1>9. s.old # <<>> => O = Append(K[n].lines, more)
  BY <1>1, <1>3, <1>4
<1>10. s.old # <<>> => j + 1 = Len(O) /\ O[j + 1] = more
  BY <1>1, <1>7, <1>9
<1> QED BY <1>3, <1>8, <1>10 DEF O, more, text

-----------------------------------------------------------------------------
(* Where a filter stands                                                   *)

CharsOK == CR \in STRING /\ LF \in STRING /\ CR # LF

\* a filter and the buffers it is given
GivenOK(kind, I, le) ==
    kind \in Kinds /\ le \in LineEnds /\ InputBuffers(I)

\* a filter that reads lines that end in \r\n needs its buffers cut well
CutOK(kind, I, le) == kind = "lines" /\ le = "DosLineEnd" => CutWell(I)

Reads(pc) == pc \in {"off", "read", "nap"}

LinesAt(I, le, pc, s, k, j) ==
    /\ Reads(pc) => WantsBuffer(I, le, s, k, j)
    /\ pc = "write" => InBuffer(I, le, s, k, j)
    /\ pc = "last" => k = Len(I) /\ WantsBuffer(I, le, s, k, j) /\ s.old # <<>>

CopiesAt(I, pc, s, k, j) ==
    /\ s.old = <<>> /\ pc # "last"
    /\ Reads(pc) => j = k
    /\ pc = "write" => k > 0 /\ j = k - 1 /\ s.buf = I[k]

\* the buffer read last is held back
SeparatesAt(I, pc, s, k, j) ==
    /\ s.sub = <<>>
    /\ Reads(pc) => \/ k = 0 /\ j = 0 /\ s.old = <<>>
                    \/ k > 0 /\ j = k - 1 /\ s.old = I[k]
    /\ pc = "write" => k > 1 /\ j = k - 2 /\ s.old = I[k - 1] /\ s.buf = I[k]
    /\ pc = "last" => k > 0 /\ k = Len(I) /\ j = k - 1 /\ s.old = I[k]

\* A filter at pc with the locals s has read the first k of the buffers I and
\* written the first j of those it has to make of them.
Stands(kind, I, le, pc, s, k, j) ==
    /\ s \in LineStates /\ k \in 0 .. Len(I) /\ j \in 0 .. Len(Filtered(kind, I, le))
    /\ pc = "done" => k = Len(I) /\ j = Len(Filtered(kind, I, le))
    /\ pc # "done" /\ kind = "lines" => LinesAt(I, le, pc, s, k, j)
    /\ pc # "done" /\ kind \in {"copy", "append"} => CopiesAt(I, pc, s, k, j)
    /\ pc # "done" /\ kind = "separate" => SeparatesAt(I, pc, s, k, j)

\* b is what it has to write next, and then it stands at to with s.
WritesNext(kind, I, le, b, to, s, k, j) ==
    /\ b \in Seq(STRING)
    /\ j + 1 \in 1 .. Len(Filtered(kind, I, le)) /\ Filtered(kind, I, le)[j + 1] = b
    /\ Stands(kind, I, le, to, s, k, j + 1)

-----------------------------------------------------------------------------
\* Sequences of one and two.
LEMMA ShortSeq ==
    ASSUME NEW S, NEW c \in S, NEW d \in S
    PROVE  <<c>> \in Seq(S) /\ <<c, d>> \in Seq(S)
OBVIOUS

\* A line end is a text.
LEMMA NewLineIs ==
    ASSUME NEW le \in LineEnds, CharsOK
    PROVE  NewLine(le) \in Seq(STRING)
<1>1. \A c, d \in STRING : <<c>> \in Seq(STRING) /\ <<c, d>> \in Seq(STRING)
  BY ShortSeq
<1> QED BY <1>1, Zenon DEF CharsOK, NewLine, LineEnds

\* What each kind of filter makes of its buffers.
LEMMA FilteredIs ==
    ASSUME NEW kind, NEW I, NEW le, GivenOK(kind, I, le), CharsOK
    PROVE  LET O == Filtered(kind, I, le) IN
           /\ O \in Seq(Seq(STRING)) /\ Len(O) \in Nat /\ Len(I) \in Nat
           /\ kind = "lines" => O = LinesOf(TextOf(I), le)
           /\ kind # "lines" => Len(O) = Len(I)
           /\ kind = "copy" => O = I
           /\ kind = "append" => \A i \in 1 .. Len(I) : O[i] = I[i] \o NewLine(le)
           /\ kind = "separate" => \A i \in 1 .. Len(I) : O[i] = IF i = Len(I) THEN I[i] ELSE I[i] \o NewLine(le)
<1> DEFINE O == Filtered(kind, I, le)
           n == Len(I)
           nl == NewLine(le)
<1>1. I \in Seq(Seq(STRING)) /\ n \in Nat /\ \A i \in 1 .. n : I[i] \in Seq(STRING)
  BY LenProperties, ElementOfSeq DEF GivenOK, InputBuffers
<1>2. \A i \in 1 .. n : I[i] \o nl \in Seq(STRING)
  BY <1>1, NewLineIs, ConcatProperties DEF GivenOK
<1> HIDE DEF n, nl
<1>3. CASE kind = "copy"
  BY <1>1, <1>3 DEF Filtered, n
<1>4. CASE kind = "lines"
  <2>1. O = LinesOf(TextOf(I), le)
    BY <1>4 DEF Filtered, TextOf
  <2>2. Joined(I) \in [0 .. n -> Seq(STRING)]
    BY <1>1, JoinedIs DEF n
  <2>3. TextOf(I) \in Seq(STRING)
    BY <1>1, <2>2 DEF TextOf, n
  <2> DEFINE text == TextOf(I)
  <2>4. 0 \in 0 .. Len(text) /\ text \in Seq(STRING)
    BY <2>3, LenProperties
  <2> HIDE DEF text
  <2>5. LinesOf(text, le) \in Seq(Seq(STRING))
    BY <2>4, ScanLines
  <2> HIDE DEF O
  <2>6. O \in Seq(Seq(STRING))
    BY <2>1, <2>5 DEF text
  <2> QED BY <1>1, <1>4, <2>1, <2>6, LenProperties DEF O, n
<1>5. CASE kind = "append"
  <2>1. O = [i \in 1 .. n |-> I[i] \o nl]
    BY <1>5, Zenon DEF Filtered, n, nl
  <2> HIDE DEF O
  <2>2. O \in [1 .. n -> Seq(STRING)] /\ \A i \in 1 .. n : O[i] = I[i] \o nl
    BY <1>2, <2>1
  <2>3. O \in Seq(Seq(STRING)) /\ Len(O) = n
    BY <1>1, <2>2
  <2> QED BY <1>1, <1>5, <2>2, <2>3 DEF O, n, nl
<1>6. CASE kind = "separate"
  <2>1. O = [i \in 1 .. n |-> IF i = n THEN I[i] ELSE I[i] \o nl]
    BY <1>6, Zenon DEF Filtered, n, nl
  <2> HIDE DEF O
  <2>2. O \in [1 .. n -> Seq(STRING)] /\ \A i \in 1 .. n : O[i] = IF i = n THEN I[i] ELSE I[i] \o nl
    BY <1>1, <1>2, <2>1
  <2>3. O \in Seq(Seq(STRING)) /\ Len(O) = n
    BY <1>1, <2>2
  <2> QED BY <1>1, <1>6, <2>2, <2>3 DEF O, n, nl
<1> QED BY <1>3, <1>4, <1>5, <1>6 DEF GivenOK, Kinds

\* Before it has read anything.
LEMMA StandsFirst ==
    ASSUME NEW kind, NEW I, NEW le, GivenOK(kind, I, le), CharsOK
    PROVE  Stands(kind, I, le, "off", FilterStart, 0, 0)
<1>1. FilterStart \in LineStates /\ <<>> \in Seq(STRING)
  BY EmptySeq DEF FilterStart, LineStates
<1>2. Len(I) \in Nat /\ Len(Filtered(kind, I, le)) \in Nat
  BY FilteredIs
<1>3. ASSUME kind = "lines" PROVE WantsBuffer(I, le, FilterStart, 0, 0)
  <2>1. Joined(I)[0] = <<>> /\ Joined(I) \in [0 .. Len(I) -> Seq(STRING)]
    BY JoinedIs DEF GivenOK, InputBuffers
  <2>2. EndOf(I, 0) = 0
    BY <2>1, EmptySeq DEF EndOf
  <2>3. TextOf(I) \in Seq(STRING)
    BY <1>2, <2>1 DEF TextOf
  <2> DEFINE text == TextOf(I)
  <2> HIDE DEF text
  <2>4. Scan(text, le)[0] = [lines |-> <<>>, open |-> <<>>]
    BY <2>3, ScanIs DEF text
  <2>5. <<>> \o <<>> = <<>> /\ Len(<<>>) = 0
    BY <1>1, ConcatEmptySeq, EmptySeq
  <2>6. Seen(I, le, FilterStart, 0, 0)
    BY <2>4, <2>5 DEF Seen, FilterStart, OffSet, text
  <2>7. ~IsAfterCR(I, le, 0)
    BY DEF IsAfterCR
  <2> QED BY <1>2, <2>2, <2>6, <2>7 DEF WantsBuffer, FilterStart
<1> QED BY <1>1, <1>2, <1>3 DEF Stands, LinesAt, CopiesAt, SeparatesAt, Reads, FilterStart

\* It reads a buffer.
LEMMA StandsTakes ==
    ASSUME NEW kind, NEW I, NEW le, GivenOK(kind, I, le), CharsOK,
           NEW pc \in {"read", "nap"}, NEW s, NEW k, NEW j, Stands(kind, I, le, pc, s, k, j),
           k < Len(I), NEW b, b = I[k + 1]
    PROVE  LET first == kind = "separate" /\ s.old = <<>>
           IN  /\ b \in Seq(STRING) /\ b # <<>>
               /\ Stands(kind, I, le, IF first THEN "read" ELSE "write",
                         IF first THEN [s EXCEPT !.old = b] ELSE NewBuffer(s, b), k + 1, j)
<1> DEFINE O == Filtered(kind, I, le)
           t == NewBuffer(s, b)
           u == [s EXCEPT !.old = b]
<1>1. s \in LineStates /\ k \in 0 .. Len(I) /\ j \in 0 .. Len(O) /\ Len(I) \in Nat /\ Len(O) \in Nat
  BY FilteredIs DEF Stands
<1>2. k \in Nat /\ k + 1 \in 1 .. Len(I) /\ k + 1 \in 0 .. Len(I) /\ k + 1 > 0 /\ k + 1 - 1 = k
  BY <1>1
<1>3. b \in Seq(STRING) /\ b # <<>> /\ InputBuffers(I)
  BY <1>2, ElementOfSeq DEF GivenOK, InputBuffers
<1>4. t \in LineStates /\ t.buf = b /\ t.old = s.old /\ t.sub = s.sub
  BY <1>1, <1>3 DEF NewBuffer, LineStates
<1>5. u \in LineStates /\ u.old = b /\ u.sub = s.sub
  BY <1>1, <1>3 DEF LineStates
<1> HIDE DEF O, t, u
<1>6. CASE kind = "lines"
  <2>1. WantsBuffer(I, le, s, k, j)
    BY <1>6 DEF Stands, LinesAt, Reads
  <2>2. InBuffer(I, le, t, k + 1, j)
    BY <1>1, <1>2, <1>3, <2>1, TakesBuffer DEF t
  <2>3. Stands(kind, I, le, "write", t, k + 1, j)
    BY <1>1, <1>2, <1>4, <1>6, <2>2 DEF Stands, LinesAt, Reads, O
  <2> QED BY <1>3, <1>6, <2>3 DEF t
<1>7. CASE kind \in {"copy", "append"}
  <2>1. j = k /\ s.old = <<>>
    BY <1>7 DEF Stands, CopiesAt, Reads
  <2>2. Stands(kind, I, le, "write", t, k + 1, j)
    BY <1>1, <1>2, <1>4, <1>7, <2>1 DEF Stands, CopiesAt, Reads, O
  <2> QED BY <1>3, <1>7, <2>2 DEF t
<1>8. CASE kind = "separate"
  <2>1. /\ s.sub = <<>>
        /\ \/ k = 0 /\ j = 0 /\ s.old = <<>>
           \/ k > 0 /\ j = k - 1 /\ s.old = I[k]
    BY <1>8 DEF Stands, SeparatesAt, Reads
  <2>2. k > 0 => I[k] # <<>>
    <3>1. \A i \in 1 .. Len(I) : I[i] # <<>>
      BY <1>3 DEF InputBuffers
    <3>2. k \in Nat /\ Len(I) \in Nat
      BY <1>2, <1>3
    <3>3. k > 0 => k \in 1 .. Len(I)
      BY <3>2
    <3> QED BY <3>1, <3>3
  <2>3. CASE s.old = <<>>
    <3>1. k = 0 /\ j = 0
      BY <2>1, <2>2, <2>3
    <3>2. Stands(kind, I, le, "read", u, k + 1, j)
      BY <1>1, <1>2, <1>5, <1>8, <2>1, <3>1 DEF Stands, SeparatesAt, Reads, O
    <3> QED BY <1>3, <1>8, <2>3, <3>2 DEF u
  <2>4. CASE s.old # <<>>
    <3>1. k > 0 /\ j = k - 1 /\ s.old = I[k] /\ k + 1 > 1 /\ j = k + 1 - 2
      BY <1>2, <2>1, <2>4
    <3>2. Stands(kind, I, le, "write", t, k + 1, j)
      BY <1>1, <1>2, <1>4, <1>8, <2>1, <3>1 DEF Stands, SeparatesAt, Reads, O
    <3> QED BY <1>3, <2>4, <3>2 DEF t
  <2> QED BY <2>3, <2>4
<1> QED BY <1>6, <1>7, <1>8 DEF GivenOK, Kinds

\* It finds the end of the stream when it has read all.
LEMMA StandsAtEnd ==
    ASSUME NEW kind, NEW I, NEW le, GivenOK(kind, I, le), CharsOK,
           NEW pc \in {"read", "nap"}, NEW s, NEW j, Stands(kind, I, le, pc, s, Len(I), j)
    PROVE  Stands(kind, I, le, IF s.old # <<>> THEN "last" ELSE "done", s, Len(I), j)
<1> DEFINE O == Filtered(kind, I, le)
           n == Len(I)
<1>1. s \in LineStates /\ n \in 0 .. n /\ j \in 0 .. Len(O) /\ n \in Nat /\ Len(O) \in Nat /\ InputBuffers(I)
  BY FilteredIs DEF Stands, GivenOK
<1> HIDE DEF O
<1>2. CASE kind = "lines"
  <2>1. WantsBuffer(I, le, s, n, j)
    BY <1>2 DEF Stands, LinesAt, Reads
  <2>2. s.old = <<>> => j = Len(O)
    <3>1. s.old = <<>> => j = Len(LinesOf(TextOf(I), le))
      BY <1>1, <2>1, EndsLines
    <3>2. O = LinesOf(TextOf(I), le)
      BY <1>2, FilteredIs DEF O
    <3> QED BY <3>1, <3>2
  <2>3. CASE s.old = <<>>
    BY <1>1, <1>2, <2>2, <2>3 DEF Stands, O
  <2>4. CASE s.old # <<>>
    BY <1>1, <1>2, <2>1, <2>4 DEF Stands, LinesAt, Reads, O
  <2> QED BY <2>3, <2>4
<1>3. CASE kind \in {"copy", "append"}
  <2>1. j = n /\ s.old = <<>>
    BY <1>3 DEF Stands, CopiesAt, Reads
  <2>2. n = Len(O)
    BY <1>3, FilteredIs DEF O
  <2> QED BY <1>1, <1>3, <2>1, <2>2 DEF Stands, O
<1>4. CASE kind = "separate"
  <2>1. /\ s.sub = <<>>
        /\ \/ n = 0 /\ j = 0 /\ s.old = <<>>
           \/ n > 0 /\ j = n - 1 /\ s.old = I[n]
    BY <1>4 DEF Stands, SeparatesAt, Reads
  <2>2. Len(O) = n
    BY <1>4, FilteredIs DEF O
  <2>3. n > 0 => I[n] # <<>>
    BY <1>1 DEF InputBuffers
  <2>4. CASE s.old = <<>>
    BY <1>1, <1>4, <2>1, <2>2, <2>3, <2>4 DEF Stands, O
  <2>5. CASE s.old # <<>>
    BY <1>1, <1>4, <2>1, <2>5 DEF Stands, SeparatesAt, Reads, O
  <2> QED BY <2>4, <2>5
<1> QED BY <1>2, <1>3, <1>4 DEF GivenOK, Kinds

-----------------------------------------------------------------------------
\* A filter that copies writes the buffer it has read.
LEMMA StandsCopies ==
    ASSUME NEW kind \in {"copy", "append"}, NEW I, NEW le, GivenOK(kind, I, le), CharsOK,
           NEW s, NEW k, NEW j, Stands(kind, I, le, "write", s, k, j)
    PROVE  WritesNext(kind, I, le, IF kind = "copy" THEN s.buf ELSE s.buf \o NewLine(le),
                      "read", NewBuffer(s, <<>>), k, j)
<1> DEFINE O == Filtered(kind, I, le)
           b == IF kind = "copy" THEN s.buf ELSE s.buf \o NewLine(le)
           t == NewBuffer(s, <<>>)
<1>1. s \in LineStates /\ k \in 0 .. Len(I) /\ k \in Nat /\ j \in 0 .. Len(O) /\ Len(I) \in Nat
  BY FilteredIs DEF Stands
<1>2. k > 0 /\ j = k - 1 /\ s.buf = I[k] /\ s.old = <<>>
  BY DEF Stands, CopiesAt
<1>3. O \in Seq(Seq(STRING)) /\ Len(O) = Len(I) /\ O[k] = b
  <2>1. k \in 1 .. Len(I)
    BY <1>1, <1>2
  <2>2. O \in Seq(Seq(STRING)) /\ Len(O) = Len(I)
    BY FilteredIs
  <2>3. CASE kind = "copy"
    <3>1. O = I
      BY <2>3, FilteredIs
    <3> HIDE DEF O
    <3> QED BY <1>2, <2>2, <2>3, <3>1
  <2>4. CASE kind = "append"
    <3>1. \A i \in 1 .. Len(I) : O[i] = I[i] \o NewLine(le)
      BY <2>4, FilteredIs
    <3> HIDE DEF O
    <3> QED BY <1>2, <2>1, <2>2, <2>4, <3>1
  <2> QED BY <2>3, <2>4
<1>4. t \in LineStates /\ t.old = <<>>
  BY <1>1, <1>2, EmptySeq DEF NewBuffer, LineStates
<1> HIDE DEF O, b, t
<1>5. k \in 1 .. Len(O) /\ j + 1 = k
  BY <1>1, <1>2, <1>3
<1>6. b \in Seq(STRING)
  BY <1>3, <1>5, ElementOfSeq
<1>7. Stands(kind, I, le, "read", t, k, k)
  BY <1>1, <1>3, <1>4, <1>5 DEF Stands, CopiesAt, Reads, O
<1>8. WritesNext(kind, I, le, b, "read", t, k, j)
  BY <1>3, <1>5, <1>6, <1>7 DEF WritesNext, O
<1> QED BY <1>8 DEF b, t

\* A filter that separates writes the one before, which is not the last.
LEMMA StandsSeparates ==
    ASSUME NEW I, NEW le, GivenOK("separate", I, le), CharsOK,
           NEW s, NEW k, NEW j, Stands("separate", I, le, "write", s, k, j)
    PROVE  WritesNext("separate", I, le, s.old \o NewLine(le),
                      "read", [s EXCEPT !.old = s.buf, !.buf = <<>>], k, j)
<1> DEFINE O == Filtered("separate", I, le)
           b == s.old \o NewLine(le)
           t == [s EXCEPT !.old = s.buf, !.buf = <<>>]
<1>1. s \in LineStates /\ k \in 0 .. Len(I) /\ k \in Nat /\ j \in 0 .. Len(O) /\ Len(I) \in Nat
  BY FilteredIs DEF Stands
<1>2. k > 1 /\ j = k - 2 /\ s.old = I[k - 1] /\ s.buf = I[k] /\ s.sub = <<>>
  BY DEF Stands, SeparatesAt
<1>3. k - 1 \in 1 .. Len(I) /\ k - 1 # Len(I) /\ j + 1 = k - 1 /\ k > 0
  BY <1>1, <1>2
<1>4. O \in Seq(Seq(STRING)) /\ Len(O) = Len(I) /\ O[k - 1] = b
  <2>1. O \in Seq(Seq(STRING)) /\ Len(O) = Len(I)
    BY FilteredIs
  <2>2. \A i \in 1 .. Len(I) : O[i] = IF i = Len(I) THEN I[i] ELSE I[i] \o NewLine(le)
    BY FilteredIs
  <2> HIDE DEF O
  <2> QED BY <1>2, <1>3, <2>1, <2>2
<1>5. t \in LineStates /\ t.old = I[k] /\ t.sub = <<>>
  BY <1>1, <1>2, EmptySeq DEF LineStates
<1> HIDE DEF O, b, t
<1>6. b \in Seq(STRING)
  BY <1>3, <1>4, ElementOfSeq
<1>7. Stands("separate", I, le, "read", t, k, k - 1)
  <2>1. k - 1 \in 0 .. Len(O)
    BY <1>3, <1>4
  <2> QED BY <1>1, <1>3, <1>5, <2>1 DEF Stands, SeparatesAt, Reads, O
<1>8. WritesNext("separate", I, le, b, "read", t, k, j)
  BY <1>3, <1>4, <1>6, <1>7 DEF WritesNext, O
<1> QED BY <1>8 DEF b, t

\* A filter that reads lines writes the next one,
LEMMA StandsLine ==
    ASSUME NEW I, NEW le, GivenOK("lines", I, le), CutOK("lines", I, le), CharsOK,
           NEW s, NEW k, NEW j, Stands("lines", I, le, "write", s, k, j), HasLine(s, le)
    PROVE  LET a == AfterLine(s, le) IN
           WritesNext("lines", I, le, Line(s, le), IF a.test THEN "read" ELSE "write",
                      IF a.test THEN SwapBuffers(a) ELSE a, k, j)
<1> DEFINE O == Filtered("lines", I, le)
           a == AfterLine(s, le)
           w == SwapBuffers(a)
           b == Line(s, le)
<1>1. s \in LineStates /\ k \in 0 .. Len(I) /\ InBuffer(I, le, s, k, j) /\ InputBuffers(I) /\ CR # LF
      /\ (le = "DosLineEnd" => CutWell(I))
  BY DEF Stands, LinesAt, GivenOK, CutOK, CharsOK
<1>2. O = LinesOf(TextOf(I), le)
  BY FilteredIs
<1>3. /\ a \in LineStates /\ w \in LineStates /\ b \in Seq(STRING)
      /\ j + 1 \in 1 .. Len(O) /\ O[j + 1] = b
      /\ a.test => WantsBuffer(I, le, w, k, j + 1)
      /\ ~a.test => InBuffer(I, le, a, k, j + 1)
  <2> HIDE DEF O
  <2> QED BY <1>1, <1>2, WritesALine
<1>4. a.test \in BOOLEAN
  BY <1>3 DEF LineStates
<1> HIDE DEF O, a, w, b
<1>5. j + 1 \in 0 .. Len(O)
  BY <1>3
<1>6. CASE a.test
  <2>1. Stands("lines", I, le, "read", w, k, j + 1)
    BY <1>1, <1>3, <1>5, <1>6 DEF Stands, LinesAt, Reads, O
  <2>2. WritesNext("lines", I, le, b, "read", w, k, j)
    BY <1>3, <2>1 DEF WritesNext, O
  <2> QED BY <1>6, <2>2 DEF a, b, w
<1>7. CASE ~a.test
  <2>1. Stands("lines", I, le, "write", a, k, j + 1)
    BY <1>1, <1>3, <1>5, <1>7 DEF Stands, LinesAt, Reads, O
  <2>2. WritesNext("lines", I, le, b, "write", a, k, j)
    BY <1>3, <2>1 DEF WritesNext, O
  <2> QED BY <1>7, <2>2 DEF a, b, w
<1> QED BY <1>6, <1>7

\* or keeps what is left of its buffer,
LEMMA StandsNoLine ==
    ASSUME NEW I, NEW le, GivenOK("lines", I, le), CharsOK,
           NEW s, NEW k, NEW j, Stands("lines", I, le, "write", s, k, j), ~HasLine(s, le)
    PROVE  Stands("lines", I, le, "read", SwapBuffers(Settle(s)), k, j)
<1> DEFINE t == Settle(s)
           w == SwapBuffers(t)
<1>1. s \in LineStates /\ k \in 0 .. Len(I) /\ j \in 0 .. Len(Filtered("lines", I, le))
      /\ InBuffer(I, le, s, k, j) /\ InputBuffers(I) /\ CR # LF
  BY DEF Stands, LinesAt, GivenOK, CharsOK
<1>2. t \in LineStates /\ Settled(I, le, t, k, j)
  BY <1>1, Settles
<1>3. EndOfLine(t, le) = 0
  BY DEF HasLine
<1>4. w \in LineStates /\ WantsBuffer(I, le, w, k, j)
  <2> HIDE DEF t
  <2> QED BY <1>1, <1>2, <1>3, KeepsRest
<1> HIDE DEF t, w
<1>5. Stands("lines", I, le, "read", w, k, j)
  BY <1>1, <1>4 DEF Stands, LinesAt, Reads
<1> QED BY <1>5 DEF t, w

\* and what is left at the end is the last that has to be written.
LEMMA StandsLast ==
    ASSUME NEW kind, NEW I, NEW le, GivenOK(kind, I, le), CharsOK,
           NEW s, NEW k, NEW j, Stands(kind, I, le, "last", s, k, j)
    PROVE  WritesNext(kind, I, le, s.sub \o s.old, "done", FilterStart, k, j)
<1> DEFINE O == Filtered(kind, I, le)
           b == s.sub \o s.old
<1>1. s \in LineStates /\ k \in 0 .. Len(I) /\ k \in Nat /\ j \in 0 .. Len(O) /\ j \in Nat /\ Len(I) \in Nat
      /\ Len(O) \in Nat /\ O \in Seq(Seq(STRING)) /\ InputBuffers(I)
  BY FilteredIs DEF Stands, GivenOK
<1>2. FilterStart \in LineStates
  BY EmptySeq DEF FilterStart, LineStates
<1>3. kind \notin {"copy", "append"}
  BY DEF Stands, CopiesAt
<1>4. k = Len(I) /\ j + 1 = Len(O) /\ O[j + 1] = b
  <2>1. CASE kind = "lines"
    <3>1. k = Len(I) /\ WantsBuffer(I, le, s, Len(I), j) /\ s.old # <<>>
      BY <2>1 DEF Stands, LinesAt
    <3>2. O = LinesOf(TextOf(I), le)
      BY <2>1, FilteredIs
    <3> HIDE DEF O
    <3> QED BY <1>1, <3>1, <3>2, EndsLines
  <2>2. CASE kind = "separate"
    <3>1. k > 0 /\ k = Len(I) /\ j = k - 1 /\ s.old = I[k] /\ s.sub = <<>>
      BY <2>2 DEF Stands, SeparatesAt
    <3>2. k \in 1 .. Len(I) /\ j + 1 = k
      BY <1>1, <3>1
    <3>3. Len(O) = Len(I) /\ O[k] = I[k]
      BY <2>2, <3>1, <3>2, FilteredIs
    <3>4. b = I[k]
      <4>1. s.old \in Seq(STRING)
        BY <1>1 DEF LineStates
      <4> QED BY <3>1, <4>1, ConcatEmptySeq
    <3> HIDE DEF b, O
    <3> QED BY <3>1, <3>2, <3>3, <3>4
  <2> QED BY <1>3, <2>1, <2>2 DEF GivenOK, Kinds
<1> HIDE DEF O, b
<1>5. j + 1 \in 1 .. Len(O) /\ j + 1 \in 0 .. Len(O)
  BY <1>1, <1>4
<1>6. b \in Seq(STRING)
  BY <1>1, <1>4, <1>5, ElementOfSeq
<1>7. Stands(kind, I, le, "done", FilterStart, k, j + 1)
  BY <1>1, <1>2, <1>4, <1>5 DEF Stands, O
<1>8. WritesNext(kind, I, le, b, "done", FilterStart, k, j)
  BY <1>4, <1>5, <1>6, <1>7 DEF WritesNext, O
<1> QED BY <1>8 DEF b

-----------------------------------------------------------------------------
\* What a filter that stands somewhere shows of itself.
LEMMA StandsOn ==
    ASSUME NEW kind, NEW I, NEW le, NEW s, NEW k, NEW j, NEW pc,
           \/ Stands(kind, I, le, "off", s, k, j) /\ pc = "read"
           \/ Stands(kind, I, le, "read", s, k, j) /\ pc = "nap"
    PROVE  Stands(kind, I, le, pc, s, k, j)
BY DEF Stands, LinesAt, CopiesAt, SeparatesAt, Reads

-----------------------------------------------------------------------------
\* The locals of do_filter keep their types: at the head of the inner loop,
LEMMA SettleType ==
    ASSUME NEW s \in LineStates
    PROVE  Settle(s) \in LineStates
<1> DEFINE w == s.sub \o s.old
           q == IF s.test /\ s.buf[s.pos + 1] = LF THEN s.pos + 1 ELSE s.pos
<1>1. s.sub \in Seq(STRING) /\ s.old \in Seq(STRING) /\ s.pos \in Nat
  BY DEF LineStates
<1>2. w \in Seq(STRING) /\ q \in Nat /\ <<>> \in Seq(STRING)
  BY <1>1, ConcatProperties, EmptySeq
<1>3. Settle(s) = [s EXCEPT !.pos = q, !.test = FALSE, !.sub = w, !.old = <<>>]
  BY DEF Settle
<1> HIDE DEF w, q
<1> QED BY <1>2, <1>3 DEF LineStates

\* when the buffers are swapped,
LEMMA SwapType ==
    ASSUME NEW s \in LineStates
    PROVE  SwapBuffers(s) \in LineStates
<1> DEFINE r == Rest(s)
           m == s.pos + 1
           l == Len(s.buf)
<1>1. s.buf \in Seq(STRING) /\ s.pos \in Nat
  BY DEF LineStates
<1>2. m \in Int /\ l \in Int /\ \A i \in m .. l : i \in 1 .. l
  BY <1>1, LenProperties
<1>3. \A i \in m .. l : s.buf[i] \in STRING
  BY <1>1, <1>2, ElementOfSeq
<1> HIDE DEF m, l
<1>4. SubSeq(s.buf, m, l) \in Seq(STRING)
  BY <1>2, <1>3, SubSeqProperties
<1>5. r \in Seq(STRING) /\ <<>> \in Seq(STRING)
  BY <1>4, EmptySeq DEF Rest, m, l
<1> DEFINE w == SwapBuffers(s)
<1>6. w = [s EXCEPT !.old = r, !.buf = <<>>, !.pos = 0]
  BY DEF SwapBuffers
<1> HIDE DEF r, w
<1>7. w \in LineStates
  BY <1>5, <1>6 DEF LineStates
<1> QED BY <1>7 DEF w

\* and when a line is written.
LEMMA LineType ==
    ASSUME NEW s \in LineStates, NEW le, HasLine(s, le)
    PROVE  AfterLine(s, le) \in LineStates /\ Line(s, le) \in Seq(STRING)
<1> DEFINE t == Settle(s)
           fpos == EndOfLine(t, le)
           off == LineEndLength(t, le)
           q == fpos - 1 + off
           b == EndsInCR(t, le)
<1>1. t \in LineStates /\ fpos # 0
  BY SettleType DEF HasLine
<1> HIDE DEF t
<1>2. t.buf \in Seq(STRING) /\ t.pos \in Nat /\ t.sub \in Seq(STRING) /\ t.off \in 0 .. 2
      /\ Len(t.buf) \in Nat
  BY <1>1, LenProperties DEF LineStates
<1>3. fpos \in t.pos + 1 .. Len(t.buf)
  <2>1. fpos = FindChar(t, Ends(le))
    BY DEF EndOfLine, Ends
  <2> HIDE DEF fpos
  <2> QED BY <1>1, <1>2, <2>1, FindCharIs
<1>4. off \in 0 .. 2 /\ b \in BOOLEAN
  BY <1>2 DEF LineEndLength, EndsInCR
<1> HIDE DEF fpos, off, b
<1>5. q \in Nat /\ <<>> \in Seq(STRING)
  BY <1>2, <1>3, <1>4, EmptySeq
<1>6. AfterLine(s, le) = [t EXCEPT !.sub = <<>>, !.pos = q, !.off = off, !.test = b]
  BY DEF AfterLine, t, fpos, off, b
<1> HIDE DEF q
<1>7. AfterLine(s, le) \in LineStates
  BY <1>1, <1>4, <1>5, <1>6 DEF LineStates
<1> DEFINE e == fpos - 1
           x == SubSeq(t.buf, t.pos + 1, e)
<1>8. t.pos \in 0 .. Len(t.buf) /\ e \in t.pos .. Len(t.buf)
  BY <1>2, <1>3
<1> HIDE DEF e
<1>9. x \in Seq(STRING)
  BY <1>2, <1>8, PartIs
<1>10. Line(s, le) = t.sub \o x
  BY DEF Line, t, fpos, e
<1> HIDE DEF x
<1>11. Line(s, le) \in Seq(STRING)
  BY <1>2, <1>9, <1>10, ConcatProperties
<1> QED BY <1>7, <1>11

-----------------------------------------------------------------------------

AllFilled(s) == \A i \in 1 .. Len(s) : s[i] # <<>>

SetupInv ==
    /\ m_Pipe \in Seq(Kinds) /\ Len(m_Pipe) \in 2 .. MaxFilters
    /\ m_LineEnd \in LineEnds
    /\ source \in Seq(Text) /\ AllFilled(source)
    /\ threaded \in BOOLEAN
    /\ delay \in Nat \ {0}

Types ==
    /\ fpc \in [AllFilters -> FilterPcs]
    /\ left \in [AllFilters -> Nat]
    /\ DOMAIN st = AllFilters /\ DOMAIN m_buffer = AllFilters

InputOK == rest \in Seq(Text) /\ AllFilled(rest)

InTime == \A f \in AllFilters : fpc[f] # "nap" => left[f] <= delay

\* do_pipe holds the lock: nobody looks into a connector
NoSleepYet == threaded /\ phase = "adding" => \A f \in AllFilters : fpc[f] # "nap"

OneAfterTheOther ==
    ~threaded => \A f \in AllFilters : \A g \in 1 .. f - 1 : fpc[f] # "off" => fpc[g] = "done"

\* the first filter writes each buffer it has read
FirstCopies ==
    m_Pipe[1] \in {"copy", "append"} =>
        /\ fpc[1] \in {"off", "read", "write", "done"}
        /\ st[1] \in [buf : Text, pos : {0}, old : {<<>>}, sub : {<<>>}, test : {FALSE}, off : {0}]
        /\ fpc[1] = "write" => st[1].buf # <<>>
        /\ m_buffer[1] \in Seq(Text)

\* and is done with that before the second wakes
WakesAfter ==
    threaded /\ Prompt /\ fpc[2] = "nap" /\ m_buffer[1] = <<>> /\ fpc[1] # "done" =>
        /\ fpc[1] = "write" => left[1] < left[2]
        /\ fpc[1] # "write" => left[1] + delay < left[2]

IInv ==
    /\ SetupInv /\ Types /\ InputOK /\ InTime /\ NoSleepYet /\ OneAfterTheOther
    /\ FirstCopies /\ WakesAfter /\ StarvesOnlyWhenSlow

-----------------------------------------------------------------------------
(* Helpers                                                                 *)

\* A filter of the pipe is one of the three places.
LEMMA FiltersInRange ==
    ASSUME SetupInv
    PROVE  Filters \subseteq AllFilters
<1> DEFINE n == Len(m_Pipe)
<1>1. n \in 2 .. 3
  BY DEF SetupInv, MaxFilters
<1> HIDE DEF n
<1>2. 1 .. n \subseteq 1 .. 3
  BY <1>1
<1> QED  BY <1>2 DEF Filters, AllFilters, MaxFilters, n

\* What Goto does to a filter's place and time, and to no other's.
LEMMA GotoMoves ==
    ASSUME SetupInv, Types, NEW f \in AllFilters, NEW to \in FilterPcs, Goto(f, to)
    PROVE  /\ fpc' \in [AllFilters -> FilterPcs] /\ left' \in [AllFilters -> Nat]
           /\ fpc'[f] = to
           /\ to # "nap" => left'[f] <= delay
           /\ to = "nap" => left'[f] = Nap
           /\ to \in {"read", "write"} /\ threaded => left'[f] = delay
           /\ \A g \in AllFilters \ {f} : fpc'[g] = fpc[g] /\ left'[g] = left[g]
BY PipeAssumption DEF PipeAssumption, SetupInv, Types, Goto, FilterPcs

\* A chunk and a line end make a text that is not empty.
LEMMA WithLineEnd ==
    ASSUME NEW b \in Text, b # <<>>, m_LineEnd \in LineEnds
    PROVE  b \o NewLine(m_LineEnd) \in Text /\ b \o NewLine(m_LineEnd) # <<>>
<1>1. NewLine(m_LineEnd) \in Seq(STRING)
  BY ShortSeq, PipeAssumption, Zenon DEF PipeAssumption, NewLine, LineEnds
<1>2. Len(b) > 0
  BY EmptySeq DEF Text
<1> QED  BY <1>1, <1>2, ConcatProperties, EmptySeq DEF Text

\* The rest of the input keeps its chunks.
LEMMA TailOfInput ==
    ASSUME InputOK, rest # <<>>
    PROVE  /\ Head(rest) \in Text /\ Head(rest) # <<>>
           /\ Tail(rest) \in Seq(Text) /\ AllFilled(Tail(rest))
<1>1. Len(rest) > 0 /\ Head(rest) = rest[1]
  BY EmptySeq DEF InputOK
<1>2. /\ Tail(rest) \in Seq(Text) /\ Len(Tail(rest)) = Len(rest) - 1
      /\ \A i \in 1 .. Len(Tail(rest)) : Tail(rest)[i] = rest[i + 1]
  BY HeadTailProperties DEF InputOK
<1> QED  BY <1>1, <1>2, LenProperties, ElementOfSeq DEF InputOK, AllFilled

-----------------------------------------------------------------------------
(* Parts of the step                                                       *)

\* Before the first call of do_pipe.
LEMMA InitIInv == Init => IInv
<1> SUFFICES ASSUME Init PROVE IInv
  OBVIOUS
<1>1. SetupInv /\ phase = "new"
  BY PipeAssumption DEF PipeAssumption, Init, SetupOK, SetupInv, AllFilled
<1>2. /\ fpc = [f \in AllFilters |-> "off"] /\ st = [f \in AllFilters |-> FilterStart]
      /\ left = [f \in AllFilters |-> 0] /\ m_buffer = [f \in AllFilters |-> <<>>]
      /\ rest = <<>> /\ starved = FALSE
  BY DEF Init
<1>3. 1 \in AllFilters /\ 2 \in AllFilters
  BY DEF AllFilters, MaxFilters
<1>4. Types /\ InTime /\ NoSleepYet /\ OneAfterTheOther /\ StarvesOnlyWhenSlow
  BY <1>1, <1>2 DEF Types, FilterPcs, SetupInv, InTime, NoSleepYet, OneAfterTheOther, StarvesOnlyWhenSlow
<1>5. InputOK
  BY <1>2, EmptySeq DEF InputOK, AllFilled
<1>6. FirstCopies /\ WakesAfter
  BY <1>2, <1>3, EmptySeq DEF FirstCopies, WakesAfter, FilterStart, Text
<1> QED  BY <1>1, <1>4, <1>5, <1>6 DEF IInv

\* What any step of a filter that is running leaves as it was.
LEMMA FilterMoves ==
    ASSUME IInv, UNCHANGED <<setup, phase>>,
           NEW f \in AllFilters, fpc[f] \notin {"off", "done"},
           NEW to \in FilterPcs, Goto(f, to), to = "nap" => ~Locked
    PROVE  /\ SetupInv' /\ InTime' /\ NoSleepYet' /\ OneAfterTheOther'
           /\ fpc' \in [AllFilters -> FilterPcs] /\ left' \in [AllFilters -> Nat]
<1>1. SetupInv' /\ delay' = delay /\ threaded' = threaded /\ phase' = phase
  BY DEF IInv, SetupInv, setup
<1>2. /\ fpc' \in [AllFilters -> FilterPcs] /\ left' \in [AllFilters -> Nat]
      /\ fpc'[f] = to /\ (to # "nap" => left'[f] <= delay)
      /\ \A g \in AllFilters \ {f} : fpc'[g] = fpc[g] /\ left'[g] = left[g]
  BY GotoMoves DEF IInv
<1>3. InTime'
  BY <1>1, <1>2 DEF IInv, InTime
<1>4. NoSleepYet'
  BY <1>1, <1>2 DEF IInv, NoSleepYet, Locked
<1>5. OneAfterTheOther'
  <2> SUFFICES ASSUME ~threaded, NEW h \in AllFilters, NEW g \in 1 .. h - 1, fpc'[h] # "off"
               PROVE  fpc'[g] = "done"
    BY <1>1 DEF OneAfterTheOther
  <2>1. g \in AllFilters /\ g # h
    BY DEF AllFilters, MaxFilters
  <2>2. fpc[h] # "off" /\ fpc[g] = "done"
    BY <1>2 DEF IInv, OneAfterTheOther
  <2> QED  BY <1>2, <2>1, <2>2
<1> QED  BY <1>1, <1>2, <1>3, <1>4, <1>5

\* Nothing is asked of a first filter of another kind,
LEMMA OtherKinds ==
    ASSUME UNCHANGED setup, m_Pipe[1] \notin {"copy", "append"}
    PROVE  FirstCopies' /\ WakesAfter'
BY DEF setup, FirstCopies, WakesAfter, Prompt

\* and another filter disturbs it only by reading from its connector.
LEMMA FirstUndisturbed ==
    ASSUME IInv, UNCHANGED setup, NEW f \in Filters, f # 1,
           NEW to \in FilterPcs \ {"nap"}, Goto(f, to),
           st'[1] = st[1],
           \/ m_buffer'[1] = m_buffer[1]
           \/ f = 2 /\ m_buffer[1] # <<>> /\ m_buffer'[1] = Tail(m_buffer[1])
    PROVE  FirstCopies' /\ WakesAfter'
<1>1. f \in AllFilters /\ 1 \in AllFilters /\ 2 \in AllFilters
  BY FiltersInRange DEF IInv, AllFilters, MaxFilters
<1>2. /\ fpc'[f] = to
      /\ \A g \in AllFilters \ {f} : fpc'[g] = fpc[g] /\ left'[g] = left[g]
  BY <1>1, GotoMoves DEF IInv
<1>3. FirstCopies'
  <2> SUFFICES ASSUME m_Pipe[1] \in {"copy", "append"}
               PROVE  m_buffer'[1] \in Seq(Text)
    BY <1>1, <1>2 DEF IInv, FirstCopies, setup
  <2>1. m_buffer[1] \in Seq(Text)
    BY DEF IInv, FirstCopies
  <2> QED  BY <2>1, HeadTailProperties
<1>4. WakesAfter'
  <2>1. CASE f = 2
    BY <1>2, <2>1 DEF WakesAfter
  <2>2. CASE f # 2
    BY <1>1, <1>2, <2>2 DEF IInv, WakesAfter, Prompt, setup
  <2> QED  BY <2>1, <2>2
<1> QED  BY <1>3, <1>4

-----------------------------------------------------------------------------
(* One step of do_pipe or of time                                          *)

\* The filters are opened, a task is added, time passes, a filter begins.
LEMMA OpenKeeps == IInv /\ Open => IInv'
<1> SUFFICES ASSUME IInv, Open PROVE IInv'
  OBVIOUS
<1> USE DEF IInv
<1>1. 1 \in AllFilters /\ 2 \in AllFilters
  BY DEF AllFilters, MaxFilters
<1>2. /\ fpc' = [f \in AllFilters |-> "off"] /\ st' = [f \in AllFilters |-> FilterStart]
      /\ left' = [f \in AllFilters |-> 0] /\ m_buffer' = m_buffer
      /\ rest' = source /\ UNCHANGED <<m_Pipe, m_LineEnd, source, threaded, delay, starved>>
  BY DEF Open, setup
<1>3. SetupInv' /\ Types' /\ InputOK' /\ NoSleepYet' /\ OneAfterTheOther'
  BY <1>2 DEF SetupInv, Types, FilterPcs, InputOK, NoSleepYet, OneAfterTheOther
<1>4. InTime' /\ StarvesOnlyWhenSlow'
  BY <1>2 DEF SetupInv, InTime, StarvesOnlyWhenSlow, Prompt
<1>5. FirstCopies' /\ WakesAfter'
  BY <1>1, <1>2, EmptySeq DEF FirstCopies, WakesAfter, FilterStart, Text
<1> QED  BY <1>3, <1>4, <1>5

LEMMA AddTaskKeeps == IInv /\ AddTask => IInv'
<1> SUFFICES ASSUME IInv, AddTask PROVE IInv'
  OBVIOUS
<1> USE DEF IInv
<1>1. 1 \in AllFilters /\ 2 \in AllFilters
  BY DEF AllFilters, MaxFilters
<1>2. /\ threaded /\ phase = "adding" /\ left' = [left EXCEPT ![added'] = delay]
      /\ UNCHANGED <<setup, phase, fpc, st, rest, m_buffer, starved>>
  BY DEF AddTask, dataVars
<1>3. UNCHANGED <<m_Pipe, m_LineEnd, source, threaded, delay>>
  BY <1>2 DEF setup
<1>4. SetupInv' /\ Types' /\ InputOK' /\ NoSleepYet' /\ OneAfterTheOther'
  BY <1>2, <1>3 DEF SetupInv, Types, InputOK, NoSleepYet, OneAfterTheOther
<1>5. InTime' /\ StarvesOnlyWhenSlow'
  BY <1>2, <1>3 DEF SetupInv, Types, InTime, StarvesOnlyWhenSlow, Prompt
<1>6. FirstCopies' /\ WakesAfter'
  BY <1>1, <1>2, <1>3 DEF FirstCopies, WakesAfter, NoSleepYet
<1> QED  BY <1>4, <1>5, <1>6

LEMMA TickKeeps == IInv /\ Tick => IInv'
<1> SUFFICES ASSUME IInv, Tick PROVE IInv'
  OBVIOUS
<1> USE DEF IInv
<1>1. 1 \in AllFilters /\ 2 \in AllFilters
  BY DEF AllFilters, MaxFilters
<1>2. /\ \A f \in Filters : threaded /\ fpc[f] # "done" /\ fpc[f] # "nap" => left[f] > 0
      /\ left' = [f \in AllFilters |-> IF left[f] > 0 THEN left[f] - 1 ELSE 0]
      /\ UNCHANGED <<setup, phase, fpc, st, rest, m_buffer, starved>>
  BY DEF Tick, Running, mainVars, dataVars
<1>3. UNCHANGED <<m_Pipe, m_LineEnd, source, threaded, delay>>
  BY <1>2 DEF setup
<1>4. SetupInv' /\ Types' /\ InputOK' /\ NoSleepYet' /\ OneAfterTheOther'
  BY <1>2, <1>3 DEF SetupInv, Types, InputOK, NoSleepYet, OneAfterTheOther
<1>5. InTime' /\ StarvesOnlyWhenSlow' /\ FirstCopies'
  <2>1. InTime'
    BY <1>2, <1>3 DEF SetupInv, Types, InTime
  <2>2. StarvesOnlyWhenSlow' /\ FirstCopies'
    BY <1>2, <1>3 DEF StarvesOnlyWhenSlow, Prompt, FirstCopies
  <2> QED  BY <2>1, <2>2
<1>6. WakesAfter'
  <2> SUFFICES ASSUME threaded, Prompt, fpc[2] = "nap", m_buffer[1] = <<>>, fpc[1] # "done"
               PROVE  /\ fpc[1] = "write" => left'[1] < left'[2]
                      /\ fpc[1] # "write" => left'[1] + delay < left'[2]
    BY <1>2, <1>3 DEF WakesAfter, Prompt
  <2>1. 1 \in Filters
    BY DEF Prompt, Filters
  <2>2. left[1] > 0
    BY <1>2, <2>1 DEF Prompt, FirstCopies
  <2>3. /\ fpc[1] = "write" => left[1] < left[2]
        /\ fpc[1] # "write" => left[1] + delay < left[2]
    BY DEF WakesAfter
  <2> QED  BY <1>1, <1>2, <2>2, <2>3 DEF Types, SetupInv
<1> QED  BY <1>4, <1>5, <1>6

LEMMA BeginKeeps ==
    ASSUME IInv, NEW f \in Filters, Begin(f)
    PROVE  IInv'
<1> USE DEF IInv
<1>1. 1 \in AllFilters /\ 2 \in AllFilters /\ f \in AllFilters
  BY FiltersInRange DEF AllFilters, MaxFilters
<1>2. /\ fpc[f] = "off" /\ fpc' = [fpc EXCEPT ![f] = "read"]
      /\ ~threaded => \A g \in 1 .. f - 1 : fpc[g] = "done"
      /\ UNCHANGED <<setup, phase, st, left, rest, m_buffer, starved>>
  BY DEF Begin, mainVars, dataVars
<1>3. UNCHANGED <<m_Pipe, m_LineEnd, source, threaded, delay>>
  BY <1>2 DEF setup
<1>4. SetupInv' /\ Types' /\ InputOK' /\ NoSleepYet'
  BY <1>2, <1>3 DEF SetupInv, Types, FilterPcs, InputOK, NoSleepYet
<1>5. OneAfterTheOther'
  <2> SUFFICES ASSUME ~threaded, NEW h \in AllFilters, NEW g \in 1 .. h - 1, fpc'[h] # "off"
               PROVE  fpc'[g] = "done"
    BY <1>3 DEF OneAfterTheOther
  <2>1. fpc[g] = "done"
    BY <1>1, <1>2 DEF OneAfterTheOther, Types
  <2> QED  BY <1>2, <2>1 DEF Types, AllFilters, MaxFilters
<1>6. InTime' /\ StarvesOnlyWhenSlow'
  BY <1>1, <1>2, <1>3 DEF SetupInv, Types, InTime, StarvesOnlyWhenSlow, Prompt
<1>7. FirstCopies'
  BY <1>1, <1>2, <1>3 DEF FirstCopies, Types
<1>8. WakesAfter'
  BY <1>1, <1>2, <1>3 DEF WakesAfter, Prompt, Types
<1> QED  BY <1>4, <1>5, <1>6, <1>7, <1>8

-----------------------------------------------------------------------------
(* One step of a filter                                                    *)

\* The steps of a filter.
LEMMA ReadFileKeeps ==
    ASSUME IInv, NEW f \in Filters, ReadFile(f)
    PROVE  IInv'
<1> USE DEF IInv
<1>1. 1 \in AllFilters /\ 2 \in AllFilters
  BY DEF AllFilters, MaxFilters
<1>2. /\ f = 1 /\ fpc[1] = "read"
      /\ UNCHANGED <<setup, phase, m_buffer, starved>>
  BY DEF ReadFile, mainVars
<1>3. UNCHANGED <<m_Pipe, m_LineEnd, source, threaded, delay>>
  BY <1>2 DEF setup
<1>4. CASE rest # <<>> /\ Take(1, Head(rest)) /\ rest' = Tail(rest)
  <2> DEFINE first == m_Pipe[1] = "separate" /\ st[1].old = <<>>
             to == IF first THEN "read" ELSE "write"
  <2>1. Goto(1, to) /\ to \in FilterPcs /\ to # "nap"
    BY <1>4 DEF Take, Continue, FilterPcs
  <2>2. /\ SetupInv' /\ InTime' /\ NoSleepYet' /\ OneAfterTheOther'
        /\ fpc' \in [AllFilters -> FilterPcs] /\ left' \in [AllFilters -> Nat]
    BY <1>1, <1>2, <2>1, FilterMoves
  <2>3. st' = [st EXCEPT ![1] = IF first THEN [@ EXCEPT !.old = Head(rest)]
                                 ELSE NewBuffer(@, Head(rest))]
    BY <1>4 DEF Take
  <2>4. Types' /\ InputOK'
    BY <1>2, <1>4, <2>2, <2>3, TailOfInput DEF Types, InputOK
  <2>5. /\ fpc'[1] = to
        /\ to \in {"read", "write"} /\ threaded => left'[1] = delay
        /\ \A g \in AllFilters \ {1} : fpc'[g] = fpc[g] /\ left'[g] = left[g]
    BY <1>1, <2>1, GotoMoves
  <2>6. FirstCopies' /\ WakesAfter'
    <3>1. CASE m_Pipe[1] \notin {"copy", "append"}
      BY <1>2, <3>1, OtherKinds
    <3>2. CASE m_Pipe[1] \in {"copy", "append"}
      <4>1. to = "write" /\ st'[1] = NewBuffer(st[1], Head(rest))
        BY <1>1, <2>3, <3>2 DEF Types
      <4>2. Head(rest) \in Text /\ Head(rest) # <<>>
        BY <1>4, TailOfInput
      <4>3. FirstCopies'
        BY <1>2, <1>3, <2>5, <3>2, <4>1, <4>2 DEF FirstCopies, NewBuffer
      <4>4. WakesAfter'
        BY <1>1, <1>2, <1>3, <2>5, <4>1 DEF WakesAfter, Prompt, Types, SetupInv
      <4> QED  BY <4>3, <4>4
    <3> QED  BY <3>1, <3>2
  <2>7. StarvesOnlyWhenSlow'
    BY <1>2, <1>3 DEF StarvesOnlyWhenSlow, Prompt
  <2> QED  BY <2>2, <2>4, <2>6, <2>7
<1>5. CASE rest = <<>> /\ TakeEnd(1) /\ UNCHANGED rest
  <2> DEFINE to == IF st[1].old # <<>> THEN "last" ELSE "done"
  <2>1. Goto(1, to) /\ to \in FilterPcs \ {"nap"} /\ UNCHANGED st
    BY <1>5 DEF TakeEnd, Continue, FilterPcs
  <2>2. /\ SetupInv' /\ InTime' /\ NoSleepYet' /\ OneAfterTheOther'
        /\ fpc' \in [AllFilters -> FilterPcs] /\ left' \in [AllFilters -> Nat]
    BY <1>1, <1>2, <2>1, FilterMoves
  <2>3. Types' /\ InputOK'
    BY <1>2, <1>5, <2>1, <2>2 DEF Types, InputOK
  <2>4. fpc'[1] = to
    BY <1>1, <2>1, GotoMoves
  <2>5. FirstCopies' /\ WakesAfter'
    <3>1. CASE m_Pipe[1] \notin {"copy", "append"}
      BY <1>2, <3>1, OtherKinds
    <3>2. CASE m_Pipe[1] \in {"copy", "append"}
      <4>1. st[1].old = <<>>
        BY <3>2 DEF FirstCopies
      <4>2. fpc'[1] = "done"
        BY <2>4, <4>1
      <4> QED  BY <1>2, <1>3, <2>1, <3>2, <4>2 DEF FirstCopies, WakesAfter
    <3> QED  BY <3>1, <3>2
  <2>6. StarvesOnlyWhenSlow'
    BY <1>2, <1>3 DEF StarvesOnlyWhenSlow, Prompt
  <2> QED  BY <2>2, <2>3, <2>5, <2>6
<1> QED  BY <1>2, <1>4, <1>5 DEF ReadFile

LEMMA ReadSleepsKeeps ==
    ASSUME IInv, NEW f \in Filters, ReadSleeps(f)
    PROVE  IInv'
<1> USE DEF IInv
<1>1. 1 \in AllFilters /\ 2 \in AllFilters /\ f \in AllFilters
  BY FiltersInRange DEF AllFilters, MaxFilters
<1>2. /\ f # 1 /\ ~Locked /\ fpc[f] = "read" /\ Goto(f, "nap")
      /\ UNCHANGED <<setup, phase, st, rest, m_buffer, starved>>
  BY DEF ReadSleeps, Looks, mainVars, dataVars
<1>3. UNCHANGED <<m_Pipe, m_LineEnd, source, threaded, delay>>
  BY <1>2 DEF setup
<1>4. /\ SetupInv' /\ InTime' /\ NoSleepYet' /\ OneAfterTheOther'
      /\ fpc' \in [AllFilters -> FilterPcs] /\ left' \in [AllFilters -> Nat]
  BY <1>1, <1>2, FilterMoves DEF FilterPcs
<1>5. /\ fpc'[f] = "nap" /\ left'[f] = Nap
      /\ \A g \in AllFilters \ {f} : fpc'[g] = fpc[g] /\ left'[g] = left[g]
  BY <1>1, <1>2, GotoMoves DEF FilterPcs
<1>6. Types' /\ InputOK' /\ StarvesOnlyWhenSlow'
  BY <1>2, <1>3, <1>4 DEF Types, InputOK, StarvesOnlyWhenSlow, Prompt
<1>7. FirstCopies'
  BY <1>1, <1>2, <1>3, <1>5 DEF FirstCopies
<1>8. WakesAfter'
  <2>1. CASE f = 2
    <3> SUFFICES ASSUME Prompt, fpc[1] # "done"
                 PROVE  left[1] + delay < Nap
      BY <1>1, <1>2, <1>3, <1>5, <2>1, PipeAssumption
         DEF WakesAfter, Prompt, Types, SetupInv, PipeAssumption
    <3>1. left[1] <= delay
      BY <1>1 DEF Prompt, FirstCopies, InTime
    <3> QED  BY <1>1, <3>1, PipeAssumption DEF Prompt, Types, SetupInv, PipeAssumption
  <2>2. CASE f # 2
    BY <1>1, <1>2, <1>3, <1>5, <2>2 DEF WakesAfter, Prompt
  <2> QED  BY <2>1, <2>2
<1> QED  BY <1>4, <1>6, <1>7, <1>8

\* The step at which a reader takes an empty connector for the end: its writer
\* has ended, or is too slow.
LEMMA ReadNothingKeeps ==
    ASSUME IInv, NEW f \in Filters, ReadNothing(f)
    PROVE  IInv'
<1> USE DEF IInv
<1> DEFINE to == IF st[f].old # <<>> THEN "last" ELSE "done"
<1>1. 1 \in AllFilters /\ 2 \in AllFilters /\ f \in AllFilters
  BY FiltersInRange DEF AllFilters, MaxFilters
<1>2. /\ f # 1 /\ fpc[f] \in {"read", "nap"} /\ Goto(f, to) /\ to \in FilterPcs \ {"nap"}
      /\ UNCHANGED <<setup, phase, st, rest, m_buffer>>
  BY DEF ReadNothing, Looks, TakeEnd, Continue, FilterPcs, mainVars, dataVars
<1>3. UNCHANGED <<m_Pipe, m_LineEnd, source, threaded, delay>>
  BY <1>2 DEF setup
<1>4. /\ SetupInv' /\ InTime' /\ NoSleepYet' /\ OneAfterTheOther'
      /\ fpc' \in [AllFilters -> FilterPcs] /\ left' \in [AllFilters -> Nat]
  BY <1>1, <1>2, FilterMoves
<1>5. Types' /\ InputOK'
  BY <1>2, <1>4 DEF Types, InputOK
<1>6. FirstCopies' /\ WakesAfter'
  BY <1>2, FirstUndisturbed
<1>7. StarvesOnlyWhenSlow'
  <2> SUFFICES ASSUME starved' PROVE threaded /\ ~Prompt
    BY <1>3 DEF StarvesOnlyWhenSlow, Prompt
  <2>1. CASE starved
    BY <2>1 DEF StarvesOnlyWhenSlow
  <2>2. CASE ~starved
    <3>1. fpc[f - 1] # "done"
      BY <2>2 DEF ReadNothing
    <3>2. threaded
      BY <1>1, <1>2, <3>1 DEF OneAfterTheOther, AllFilters, MaxFilters
    <3>3. ~Prompt
      <4> SUFFICES ASSUME Prompt PROVE FALSE
        OBVIOUS
      <4>1. f = 2
        BY <1>2 DEF Prompt, Filters
      <4>2. m_buffer[1] = <<>> /\ fpc[2] = "nap" /\ left[2] = 0 /\ fpc[1] # "done"
        BY <3>1, <3>2, <4>1 DEF ReadNothing, Looks
      <4> QED  BY <1>1, <3>2, <4>2 DEF WakesAfter, Types, SetupInv
    <3> QED  BY <3>2, <3>3
  <2> QED  BY <2>1, <2>2
<1> QED  BY <1>4, <1>5, <1>6, <1>7

LEMMA ReadItemKeeps ==
    ASSUME IInv, NEW f \in Filters, ReadItem(f)
    PROVE  IInv'
<1> USE DEF IInv
<1> DEFINE first == m_Pipe[f] = "separate" /\ st[f].old = <<>>
           to == IF first THEN "read" ELSE "write"
<1>1. 1 \in AllFilters /\ 2 \in AllFilters /\ f \in AllFilters
  BY FiltersInRange DEF AllFilters, MaxFilters
<1>2. /\ f # 1 /\ fpc[f] \in {"read", "nap"} /\ Goto(f, to) /\ to \in FilterPcs \ {"nap"}
      /\ m_buffer[f - 1] # <<>> /\ m_buffer' = [m_buffer EXCEPT ![f - 1] = Tail(@)]
      /\ UNCHANGED <<setup, phase, rest, starved>>
  BY DEF ReadItem, Looks, Take, Continue, FilterPcs, mainVars
<1>3. DOMAIN st' = AllFilters /\ st'[1] = st[1]
  BY <1>1, <1>2 DEF ReadItem, Take, Types
<1>4. /\ SetupInv' /\ InTime' /\ NoSleepYet' /\ OneAfterTheOther'
      /\ fpc' \in [AllFilters -> FilterPcs] /\ left' \in [AllFilters -> Nat]
  BY <1>1, <1>2, FilterMoves
<1>5. Types' /\ InputOK'
  BY <1>2, <1>3, <1>4 DEF Types, InputOK
<1>6. f - 1 \in AllFilters /\ (f - 1 = 1 => f = 2)
  BY <1>1, <1>2 DEF AllFilters, MaxFilters
<1>7. FirstCopies' /\ WakesAfter'
  <2>1. \/ m_buffer'[1] = m_buffer[1]
        \/ f = 2 /\ m_buffer[1] # <<>> /\ m_buffer'[1] = Tail(m_buffer[1])
    BY <1>1, <1>2, <1>6 DEF Types
  <2> QED  BY <1>2, <1>3, <2>1, FirstUndisturbed
<1>8. StarvesOnlyWhenSlow'
  BY <1>2 DEF StarvesOnlyWhenSlow, Prompt, setup
<1> QED  BY <1>4, <1>5, <1>7, <1>8

\* What a filter that writes leaves alone, wherever it goes on.
LEMMA WritesKeeps ==
    ASSUME IInv, NEW f \in Filters, fpc[f] \in {"write", "last"},
           NEW b, NEW s, NEW to \in FilterPcs \ {"nap"}, Writes(f, b, s, to),
           f # 1 \/ (FirstCopies' /\ WakesAfter')
    PROVE  IInv'
<1> USE DEF IInv
<1>1. 1 \in AllFilters /\ 2 \in AllFilters /\ f \in AllFilters
  BY FiltersInRange DEF AllFilters, MaxFilters
<1>2. /\ Goto(f, to) /\ st' = [st EXCEPT ![f] = s]
      /\ UNCHANGED <<setup, phase, rest, starved>>
      /\ m_buffer' = m_buffer \/ m_buffer' = [m_buffer EXCEPT ![f] = Append(@, b)]
  BY DEF Writes, Emit, Continue, mainVars
<1>3. /\ SetupInv' /\ InTime' /\ NoSleepYet' /\ OneAfterTheOther'
      /\ fpc' \in [AllFilters -> FilterPcs] /\ left' \in [AllFilters -> Nat]
  BY <1>1, <1>2, FilterMoves
<1>4. Types' /\ InputOK'
  BY <1>2, <1>3 DEF Types, InputOK
<1>5. FirstCopies' /\ WakesAfter'
  <2> SUFFICES ASSUME f # 1 PROVE FirstCopies' /\ WakesAfter'
    OBVIOUS
  <2>1. st'[1] = st[1] /\ m_buffer'[1] = m_buffer[1]
    BY <1>1, <1>2 DEF Types
  <2> QED  BY <1>2, <2>1, FirstUndisturbed
<1>6. StarvesOnlyWhenSlow'
  BY <1>2 DEF StarvesOnlyWhenSlow, Prompt, setup
<1> QED  BY <1>3, <1>4, <1>5, <1>6

LEMMA WriteBufferKeeps ==
    ASSUME IInv, NEW f \in Filters, WriteBuffer(f)
    PROVE  IInv'
<1> USE DEF IInv
<1> DEFINE b == IF m_Pipe[f] = "copy" THEN st[f].buf ELSE st[f].buf \o NewLine(m_LineEnd)
           s == NewBuffer(st[f], <<>>)
<1>1. 1 \in AllFilters /\ 2 \in AllFilters
  BY DEF AllFilters, MaxFilters
<1>2. fpc[f] = "write" /\ Writes(f, b, s, "read") /\ "read" \in FilterPcs \ {"nap"}
  BY DEF WriteBuffer, FilterPcs
<1>3. ASSUME f = 1 PROVE FirstCopies' /\ WakesAfter'
  <2> DEFINE n == Len(m_Pipe)
  <2>1. n \in 2 .. 3
    BY DEF SetupInv, MaxFilters
  <2> HIDE DEF n
  <2>2. f # n
    BY <1>3, <2>1
  <2>3. m_Pipe[1] \in {"copy", "append"} /\ fpc[1] = "write" /\ st[1].buf \in Text /\ st[1].buf # <<>>
    BY <1>2, <1>3 DEF WriteBuffer, FirstCopies
  <2>4. b \in Text /\ b # <<>>
    <3>1. m_LineEnd \in LineEnds
      BY DEF SetupInv
    <3> QED  BY <1>3, <2>3, <3>1, WithLineEnd
  <2>5. m_buffer'[1] = Append(m_buffer[1], b) /\ st'[1] = s /\ Goto(1, "read")
        /\ UNCHANGED setup
    <3> HIDE DEF b, s
    <3>1. f # Len(m_Pipe)
      BY <2>2 DEF n
    <3>2. Emit(1, b) /\ st' = [st EXCEPT ![1] = s] /\ Goto(1, "read") /\ UNCHANGED setup
      BY <1>2, <1>3 DEF Writes, Continue
    <3>3. m_buffer' = [m_buffer EXCEPT ![1] = Append(@, b)]
      BY <1>3, <2>4, <3>1, <3>2 DEF Emit
    <3> QED  BY <1>1, <3>2, <3>3 DEF Types
  <2>6. m_buffer[1] \in Seq(Text)
    BY <2>3 DEF FirstCopies
  <2>7. m_buffer'[1] \in Seq(Text) /\ m_buffer'[1] # <<>>
    <3> HIDE DEF b
    <3> QED  BY <2>4, <2>5, <2>6, AppendProperties, EmptySeq
  <2>8. fpc'[1] = "read"
    BY <1>1, <2>5, GotoMoves DEF FilterPcs
  <2>9. FirstCopies'
    <3>1. st[1] \in [buf : Text, pos : {0}, old : {<<>>}, sub : {<<>>}, test : {FALSE}, off : {0}]
      BY <2>3 DEF FirstCopies
    <3>2. <<>> \in Text
      BY EmptySeq DEF Text
    <3>3. s \in [buf : Text, pos : {0}, old : {<<>>}, sub : {<<>>}, test : {FALSE}, off : {0}]
      BY <1>3, <3>1, <3>2 DEF NewBuffer
    <3> HIDE DEF s
    <3> QED  BY <2>5, <2>7, <2>8, <3>3 DEF FirstCopies
  <2> QED  BY <2>7, <2>9 DEF WakesAfter
<1> HIDE DEF b, s
<1> QED  BY <1>2, <1>3, WritesKeeps

LEMMA WriteBeforeKeeps ==
    ASSUME IInv, NEW f \in Filters, WriteBefore(f)
    PROVE  IInv'
<1> DEFINE b == st[f].old \o NewLine(m_LineEnd)
           s == [st[f] EXCEPT !.old = st[f].buf, !.buf = <<>>]
<1>1. /\ fpc[f] = "write" /\ m_Pipe[f] = "separate"
      /\ Writes(f, b, s, "read") /\ "read" \in FilterPcs \ {"nap"}
  BY DEF WriteBefore, FilterPcs
<1> HIDE DEF b, s
<1>2. ASSUME f = 1 PROVE FirstCopies' /\ WakesAfter'
  BY <1>1, <1>2, OtherKinds DEF Writes
<1> QED  BY <1>1, <1>2, WritesKeeps

LEMMA WriteLineKeeps ==
    ASSUME IInv, NEW f \in Filters, WriteLine(f)
    PROVE  IInv'
<1> DEFINE b == Line(st[f], m_LineEnd)
           after == AfterLine(st[f], m_LineEnd)
           s == IF after.test THEN SwapBuffers(after) ELSE after
           to == IF after.test THEN "read" ELSE "write"
<1>1. Writes(f, b, s, to) /\ to \in FilterPcs \ {"nap"}
  BY DEF WriteLine, FilterPcs
<1> HIDE DEF b, s, to
<1>2. fpc[f] = "write" /\ m_Pipe[f] = "lines"
  BY DEF WriteLine
<1>3. ASSUME f = 1 PROVE FirstCopies' /\ WakesAfter'
  BY <1>1, <1>2, <1>3, OtherKinds DEF Writes
<1> QED  BY <1>1, <1>2, <1>3, WritesKeeps

LEMMA NoLineKeeps ==
    ASSUME IInv, NEW f \in Filters, NoLine(f)
    PROVE  IInv'
<1> USE DEF IInv
<1>1. f \in AllFilters /\ 1 \in AllFilters
  BY FiltersInRange DEF AllFilters, MaxFilters
<1>2. /\ fpc[f] = "write" /\ m_Pipe[f] = "lines"
      /\ Goto(f, "read") /\ "read" \in FilterPcs \ {"nap"}
      /\ UNCHANGED <<setup, phase, rest, m_buffer, starved>>
      /\ DOMAIN st' = AllFilters /\ (f # 1 => st'[1] = st[1])
  BY <1>1 DEF NoLine, Continue, FilterPcs, mainVars, dataVars, Types
<1>3. /\ SetupInv' /\ InTime' /\ NoSleepYet' /\ OneAfterTheOther'
      /\ fpc' \in [AllFilters -> FilterPcs] /\ left' \in [AllFilters -> Nat]
  BY <1>1, <1>2, FilterMoves
<1>4. Types' /\ InputOK'
  BY <1>2, <1>3 DEF Types, InputOK
<1>5. FirstCopies' /\ WakesAfter'
  <2>1. CASE f = 1
    BY <1>2, <2>1, OtherKinds
  <2>2. CASE f # 1
    BY <1>2, <2>2, FirstUndisturbed
  <2> QED  BY <2>1, <2>2
<1>6. StarvesOnlyWhenSlow'
  BY <1>2 DEF StarvesOnlyWhenSlow, Prompt, setup
<1> QED  BY <1>3, <1>4, <1>5, <1>6

LEMMA WriteLastKeeps ==
    ASSUME IInv, NEW f \in Filters, WriteLast(f)
    PROVE  IInv'
<1> DEFINE b == st[f].sub \o st[f].old
<1>1. fpc[f] = "last" /\ Writes(f, b, FilterStart, "done") /\ "done" \in FilterPcs \ {"nap"}
  BY DEF WriteLast, FilterPcs
<1> HIDE DEF b
<1>2. ASSUME f = 1 PROVE FirstCopies' /\ WakesAfter'
  <2>1. m_Pipe[1] \notin {"copy", "append"}
    BY <1>1, <1>2 DEF IInv, FirstCopies
  <2> QED  BY <1>1, <2>1, OtherKinds DEF Writes
<1> QED  BY <1>1, <1>2, WritesKeeps

\* What the steps that move do_pipe alone leave as it was.
LEMMA OthersKeep ==
    ASSUME IInv, UNCHANGED <<setup, filterVars, rest, m_buffer, starved>>,
           phase' = "adding" => phase = "adding"
    PROVE  IInv'
<1>1. UNCHANGED <<m_Pipe, m_LineEnd, source, threaded, delay, fpc, st, left>>
  BY DEF setup, filterVars
<1>2. SetupInv' /\ Types' /\ InputOK' /\ NoSleepYet' /\ OneAfterTheOther' /\ InTime'
  BY <1>1 DEF IInv, SetupInv, Types, InputOK, NoSleepYet, OneAfterTheOther, InTime
<1>3. FirstCopies' /\ WakesAfter' /\ StarvesOnlyWhenSlow'
  BY <1>1 DEF IInv, FirstCopies, WakesAfter, StarvesOnlyWhenSlow, Prompt
<1> QED  BY <1>2, <1>3 DEF IInv

-----------------------------------------------------------------------------
\* Every step keeps the invariant.
LEMMA NextKeeps == IInv /\ [Next]_vars => IInv'
<1> SUFFICES ASSUME IInv, [Next]_vars PROVE IInv'
  OBVIOUS
<1>1. CASE Open
  BY <1>1, OpenKeeps
<1>2. CASE AddTask
  BY <1>2, AddTaskKeeps
<1>3. CASE Unlock
  BY <1>3, OthersKeep DEF Unlock, dataVars
<1>4. CASE Return
  BY <1>4, OthersKeep DEF Return, dataVars
<1>5. CASE Tick
  BY <1>5, TickKeeps
<1>6. ASSUME NEW f \in Filters, Begin(f) PROVE IInv'
  BY <1>6, BeginKeeps
<1>7. ASSUME NEW f \in Filters, Filtering(f) PROVE IInv'
  BY <1>7, ReadFileKeeps, ReadItemKeeps, ReadSleepsKeeps, ReadNothingKeeps, WriteBufferKeeps,
     WriteBeforeKeeps, WriteLineKeeps, NoLineKeeps, WriteLastKeeps DEF Filtering
<1>8. CASE UNCHANGED vars
  BY <1>8, OthersKeep DEF vars, mainVars, dataVars
<1> QED  BY <1>1, <1>2, <1>3, <1>4, <1>5, <1>6, <1>7, <1>8 DEF Next, Main, Filter

\* The plain pipe never takes a pause of a filter for the end of its stream,
\* and the threaded pipe of two filters does not either as long as the first
\* gives a buffer for each it reads and needs less than the 200 ms of
\* CFilterThreadedPipeConnector::read (FilterPipe.cpp:105) for that: for every
\* file, cut into whatever buffers, every sleep and every number of calls of
\* do_pipe.
THEOREM StarvesOnlyWhenSlowAlways == Spec => []StarvesOnlyWhenSlow
<1>1. IInv => StarvesOnlyWhenSlow
  BY DEF IInv
<1> QED  BY <1>1, InitIInv, NextKeeps, PTL DEF Spec

-----------------------------------------------------------------------------
(* Types                                                                   *)

\* Every filter stands at one of the three places, and setup has its type.
LEMMA PipeIs ==
    ASSUME TypeOK
    PROVE  /\ m_Pipe \in Seq(Kinds) /\ Len(m_Pipe) \in 2 .. 3 /\ m_LineEnd \in LineEnds
           /\ source \in Seq(Text) /\ InputBuffers(source)
           /\ threaded \in BOOLEAN /\ delay \in Nat \ {0}
           /\ Filters \subseteq AllFilters /\ AllFilters = 1 .. 3
           /\ \A f \in Filters : m_Pipe[f] \in Kinds
<1>1. SetupOK([m_Pipe |-> m_Pipe, m_LineEnd |-> m_LineEnd, source |-> source,
               threaded |-> threaded, delay |-> delay])
  BY DEF TypeOK
<1>2. /\ m_Pipe \in Seq(Kinds) /\ Len(m_Pipe) \in 2 .. 3 /\ m_LineEnd \in LineEnds
      /\ source \in Seq(Text) /\ (\A i \in 1 .. Len(source) : source[i] # <<>>)
      /\ threaded \in BOOLEAN /\ delay \in Nat \ {0}
  BY <1>1 DEF SetupOK, MaxFilters
<1>3. InputBuffers(source)
  BY <1>2 DEF InputBuffers, Text
<1> DEFINE n == Len(m_Pipe)
<1>4. \A f \in 1 .. n : m_Pipe[f] \in Kinds
  BY <1>2, ElementOfSeq
<1>5. n \in 2 .. 3 /\ Filters = 1 .. n /\ AllFilters = 1 .. 3
  BY <1>2 DEF Filters, AllFilters, MaxFilters
<1> HIDE DEF n
<1>6. 1 .. n \subseteq 1 .. 3
  BY <1>5
<1> QED BY <1>2, <1>3, <1>4, <1>5, <1>6 DEF n

\* What stays the same about setup.
LEMMA SetupKept ==
    ASSUME TypeOK, UNCHANGED setup
    PROVE  /\ SetupOK([m_Pipe |-> m_Pipe, m_LineEnd |-> m_LineEnd, source |-> source,
                       threaded |-> threaded, delay |-> delay])'
           /\ UNCHANGED <<m_Pipe, m_LineEnd, source, threaded, delay>>
<1>1. UNCHANGED <<m_Pipe, m_LineEnd, source, threaded, delay>>
  BY DEF setup
<1> QED BY <1>1 DEF TypeOK

\* Before the first call of do_pipe.
LEMMA TypeInit == Init => TypeOK
<1> SUFFICES ASSUME Init PROVE TypeOK
  OBVIOUS
<1>1. PICK s \in Setups : /\ m_Pipe = s.m_Pipe /\ m_LineEnd = s.m_LineEnd /\ source = s.source
                          /\ threaded = s.threaded /\ delay = s.delay
  BY DEF Init
<1>2. SetupOK([m_Pipe |-> m_Pipe, m_LineEnd |-> m_LineEnd, source |-> source,
               threaded |-> threaded, delay |-> delay])
  BY <1>1, PipeAssumption DEF PipeAssumption, SetupOK
<1>3. <<>> \in Text /\ <<>> \in Buffers
  BY EmptySeq DEF Text, Buffers
<1>4. FilterStart \in FilterStates
  BY <1>3 DEF FilterStart, FilterStates
<1>5. /\ phase \in Phases /\ round \in 0 .. MaxRounds /\ added \in 0 .. MaxFilters
      /\ fpc \in [AllFilters -> FilterPcs] /\ st \in [AllFilters -> FilterStates]
      /\ left \in [AllFilters -> Nat]
      /\ rest \in Buffers /\ output \in Buffers /\ m_buffer \in [AllFilters -> Buffers]
      /\ starved \in BOOLEAN
  <2>1. phase \in Phases /\ round \in 0 .. MaxRounds /\ added \in 0 .. MaxFilters /\ starved \in BOOLEAN
    <3>1. MaxRounds \in Nat
      BY PipeAssumption DEF PipeAssumption
    <3>2. phase = "new" /\ round = 0 /\ added = 0 /\ starved = FALSE
      BY DEF Init
    <3>3. starved \in BOOLEAN
      BY <3>2, Zenon
    <3>4. phase \in Phases /\ round \in 0 .. MaxRounds /\ added \in 0 .. MaxFilters
      BY <3>1, <3>2 DEF Phases, MaxFilters
    <3> QED BY <3>3, <3>4
  <2>2. /\ fpc \in [AllFilters -> FilterPcs] /\ st \in [AllFilters -> FilterStates]
        /\ left \in [AllFilters -> Nat]
    BY <1>4 DEF Init, FilterPcs
  <2>3. rest \in Buffers /\ output \in Buffers /\ m_buffer \in [AllFilters -> Buffers]
    BY <1>3 DEF Init
  <2> QED BY <2>1, <2>2, <2>3
<1>6. task \in [Rounds \X AllFilters -> Pool!Statuses]
  BY DEF Init, Pool!BoardInit, Pool!Statuses
<1> QED BY <1>2, <1>5, <1>6 DEF TypeOK

\* A step of a filter that goes on at another place.
LEMMA GotoTypes ==
    ASSUME TypeOK, NEW f \in Filters, NEW to \in FilterPcs, Goto(f, to)
    PROVE  /\ fpc' \in [AllFilters -> FilterPcs] /\ left' \in [AllFilters -> Nat]
           /\ fpc'[f] = to /\ \A g \in AllFilters \ {f} : fpc'[g] = fpc[g]
<1>1. f \in AllFilters /\ delay \in Nat
  BY PipeIs
<1>2. fpc \in [AllFilters -> FilterPcs] /\ left \in [AllFilters -> Nat] /\ Nap \in Nat
  BY PipeAssumption DEF TypeOK, PipeAssumption
<1> QED BY <1>1, <1>2 DEF Goto

\* The pool moves a task from one status to the next.
LEMMA MoveTypes ==
    ASSUME TypeOK, NEW k, NEW from \in Pool!Statuses, NEW to \in Pool!Statuses,
           task' = [task EXCEPT ![k] = to]
    PROVE  task' \in [Rounds \X AllFilters -> Pool!Statuses]
           /\ \A r \in Rounds, f \in AllFilters : <<r, f>> # k => task'[<<r, f>>] = task[<<r, f>>]
<1>1. task \in [Rounds \X AllFilters -> Pool!Statuses]
  BY DEF TypeOK
<1> QED BY <1>1

\* A filter goes on; its task changes when it is done.
LEMMA ContinueTypes ==
    ASSUME TypeOK, NEW f \in Filters, NEW to \in FilterPcs, Continue(f, to)
    PROVE  /\ fpc' \in [AllFilters -> FilterPcs] /\ left' \in [AllFilters -> Nat]
           /\ fpc'[f] = to /\ \A g \in AllFilters \ {f} : fpc'[g] = fpc[g]
           /\ task' \in [Rounds \X AllFilters -> Pool!Statuses]
           /\ \A r \in Rounds, g \in AllFilters :
                 \/ task'[<<r, g>>] = task[<<r, g>>]
                 \/ to = "done" /\ r = round /\ g = f
<1>1. /\ fpc' \in [AllFilters -> FilterPcs] /\ left' \in [AllFilters -> Nat]
      /\ fpc'[f] = to /\ \A g \in AllFilters \ {f} : fpc'[g] = fpc[g]
  BY GotoTypes DEF Continue
<1>2. CASE threaded /\ to = "done"
  <2>1. task' = [task EXCEPT ![<<round, f>>] = "finished"]
    BY <1>2 DEF Continue, Pool!Finish, Pool!Move
  <2>2. /\ task' \in [Rounds \X AllFilters -> Pool!Statuses]
        /\ \A r \in Rounds, g \in AllFilters : <<r, g>> # <<round, f>> => task'[<<r, g>>] = task[<<r, g>>]
    BY <2>1, MoveTypes DEF Pool!Statuses
  <2> QED BY <1>1, <1>2, <2>2
<1>3. CASE ~(threaded /\ to = "done")
  <2>1. UNCHANGED task
    BY <1>3 DEF Continue
  <2> QED BY <1>1, <2>1 DEF TypeOK
<1> QED BY <1>2, <1>3

FilterTypes ==
    /\ fpc \in [AllFilters -> FilterPcs] /\ st \in [AllFilters -> FilterStates]
    /\ left \in [AllFilters -> Nat]

DataTypes == rest \in Buffers /\ output \in Buffers /\ m_buffer \in [AllFilters -> Buffers]

TaskTypes == task \in [Rounds \X AllFilters -> Pool!Statuses]

\* The step of a filter leaves do_pipe alone.
LEMMA FilterStepTypes ==
    ASSUME TypeOK, UNCHANGED <<setup, mainVars>>, starved' \in BOOLEAN,
           FilterTypes', DataTypes', TaskTypes'
    PROVE  TypeOK'
<1>1. UNCHANGED mainVars /\ UNCHANGED <<m_Pipe, m_LineEnd, source, threaded, delay>>
      /\ SetupOK([m_Pipe |-> m_Pipe, m_LineEnd |-> m_LineEnd, source |-> source,
                  threaded |-> threaded, delay |-> delay])'
  BY SetupKept
<1>2. phase' \in Phases /\ round' \in 0 .. MaxRounds /\ added' \in 0 .. MaxFilters
  BY <1>1 DEF TypeOK, mainVars
<1> QED BY <1>1, <1>2 DEF TypeOK, FilterTypes, DataTypes, TaskTypes

\* The types of FilterPipe and those of the lemmas about LineFilter.
LEMMA StatesAre == FilterStates = LineStates /\ Text = Seq(STRING) /\ Buffers = Seq(Seq(STRING))
BY DEF FilterStates, LineStates, Buffers, Text

\* A filter reads.
LEMMA TakeTypes ==
    ASSUME TypeOK, NEW f \in Filters, NEW b \in Text, Take(f, b)
    PROVE  FilterTypes' /\ TaskTypes'
<1> DEFINE first == m_Pipe[f] = "separate" /\ st[f].old = <<>>
           to == IF first THEN "read" ELSE "write"
           s == IF first THEN [st[f] EXCEPT !.old = b] ELSE NewBuffer(st[f], b)
<1>1. f \in AllFilters /\ st \in [AllFilters -> FilterStates] /\ st[f] \in FilterStates
  BY PipeIs DEF TypeOK
<1>2. st' = [st EXCEPT ![f] = s] /\ Continue(f, to) /\ to \in FilterPcs
  BY DEF Take, FilterPcs
<1>3. s \in FilterStates
  <2> DEFINE q == st[f]
  <2> HIDE DEF q
  <2>1. q \in FilterStates
    BY <1>1 DEF q
  <2>2. [q EXCEPT !.old = b] \in FilterStates /\ [q EXCEPT !.buf = b, !.pos = 0] \in FilterStates
    BY <2>1 DEF FilterStates
  <2> QED BY <2>2 DEF q, NewBuffer
<1> HIDE DEF s, to
<1>4. st' \in [AllFilters -> FilterStates]
  BY <1>1, <1>2, <1>3
<1> QED BY <1>2, <1>4, ContinueTypes DEF FilterTypes, TaskTypes

\* A filter finds the end of its stream.
LEMMA TakeEndTypes ==
    ASSUME TypeOK, NEW f \in Filters, TakeEnd(f)
    PROVE  FilterTypes' /\ TaskTypes'
<1> DEFINE to == IF st[f].old # <<>> THEN "last" ELSE "done"
<1>1. Continue(f, to) /\ to \in FilterPcs /\ UNCHANGED st
  BY DEF TakeEnd, FilterPcs
<1> HIDE DEF to
<1> QED BY <1>1, ContinueTypes DEF FilterTypes, TaskTypes, TypeOK

\* A filter writes.
LEMMA WritesTypes ==
    ASSUME TypeOK, NEW f \in Filters, NEW b \in Text, NEW s \in FilterStates, NEW to \in FilterPcs,
           Writes(f, b, s, to)
    PROVE  TypeOK'
<1>1. f \in AllFilters
  BY PipeIs
<1>2. /\ Emit(f, b) /\ st' = [st EXCEPT ![f] = s] /\ Continue(f, to)
      /\ UNCHANGED <<setup, mainVars>> /\ UNCHANGED rest /\ UNCHANGED starved
  BY DEF Writes
<1>3. FilterTypes' /\ TaskTypes'
  <2>1. st' \in [AllFilters -> FilterStates]
    BY <1>1, <1>2 DEF TypeOK
  <2> QED BY <1>2, <2>1, ContinueTypes DEF FilterTypes, TaskTypes
<1>4. DataTypes'
  <2>1. output \in Seq(Text) /\ m_buffer \in [AllFilters -> Seq(Text)] /\ m_buffer[f] \in Seq(Text)
    BY <1>1 DEF TypeOK, Buffers
  <2>2. Append(output, b) \in Seq(Text) /\ Append(m_buffer[f], b) \in Seq(Text)
    BY <2>1, AppendProperties
  <2>3. \/ output' = Append(output, b) /\ m_buffer' = m_buffer
        \/ output' = output /\ m_buffer' = m_buffer
        \/ output' = output /\ m_buffer' = [m_buffer EXCEPT ![f] = Append(m_buffer[f], b)]
    BY <1>2 DEF Emit
  <2> DEFINE x == Append(output, b)
             y == Append(m_buffer[f], b)
  <2> HIDE DEF x, y
  <2>4. output' \in Seq(Text) /\ m_buffer' \in [AllFilters -> Seq(Text)]
    BY <2>1, <2>2, <2>3 DEF x, y
  <2> QED BY <1>2, <2>4 DEF DataTypes, Buffers, TypeOK
<1> QED BY <1>2, <1>3, <1>4, FilterStepTypes DEF TypeOK

-----------------------------------------------------------------------------
\* The nine steps of a filter keep the types.
LEMMA ReadFileTypes ==
    ASSUME TypeOK, NEW f \in Filters, ReadFile(f)
    PROVE  TypeOK'
<1>1. UNCHANGED <<setup, mainVars>> /\ UNCHANGED <<m_buffer, output, starved>>
  BY DEF ReadFile
<1>2. m_buffer \in [AllFilters -> Buffers] /\ output \in Buffers /\ rest \in Seq(Text) /\ starved \in BOOLEAN
  BY DEF TypeOK, Buffers
<1>3. CASE rest # <<>> /\ Take(f, Head(rest)) /\ rest' = Tail(rest)
  <2>1. Head(rest) \in Text /\ Tail(rest) \in Seq(Text)
    BY <1>2, <1>3, HeadTailProperties
  <2>2. FilterTypes' /\ TaskTypes'
    BY <1>3, <2>1, TakeTypes
  <2>3. DataTypes'
    BY <1>1, <1>2, <1>3, <2>1 DEF DataTypes, Buffers
  <2> QED BY <1>1, <1>2, <2>2, <2>3, FilterStepTypes
<1>4. CASE TakeEnd(f) /\ UNCHANGED rest
  <2>1. FilterTypes' /\ TaskTypes'
    BY <1>4, TakeEndTypes
  <2>2. DataTypes'
    BY <1>1, <1>2, <1>4 DEF DataTypes, Buffers
  <2> QED BY <1>1, <1>2, <2>1, <2>2, FilterStepTypes
<1> QED BY <1>3, <1>4 DEF ReadFile

LEMMA ReadItemTypes ==
    ASSUME TypeOK, NEW f \in Filters, ReadItem(f)
    PROVE  TypeOK'
<1>1. /\ UNCHANGED <<setup, mainVars>> /\ UNCHANGED <<rest, output, starved>>
      /\ m_buffer[f - 1] # <<>> /\ Take(f, Head(m_buffer[f - 1]))
      /\ m_buffer' = [m_buffer EXCEPT ![f - 1] = Tail(m_buffer[f - 1])]
  BY DEF ReadItem
<1>2. f - 1 \in AllFilters
  <2>1. f # 1 /\ f \in 1 .. 3
    BY PipeIs DEF ReadItem, Looks
  <2>2. f - 1 \in 1 .. 3
    BY <2>1
  <2> QED BY <2>2, PipeIs
<1>3. m_buffer \in [AllFilters -> Seq(Text)] /\ output \in Buffers /\ rest \in Buffers /\ starved \in BOOLEAN
  BY DEF TypeOK, Buffers
<1>4. Head(m_buffer[f - 1]) \in Text /\ Tail(m_buffer[f - 1]) \in Seq(Text)
  BY <1>1, <1>2, <1>3, HeadTailProperties
<1>5. FilterTypes' /\ TaskTypes'
  BY <1>1, <1>4, TakeTypes
<1>6. DataTypes'
  <2> DEFINE y == Tail(m_buffer[f - 1])
  <2> HIDE DEF y
  <2>1. m_buffer' \in [AllFilters -> Seq(Text)]
    BY <1>1, <1>2, <1>3, <1>4 DEF y
  <2> QED BY <1>1, <1>3, <2>1 DEF DataTypes, Buffers
<1> QED BY <1>1, <1>3, <1>5, <1>6, FilterStepTypes

LEMMA ReadSleepsTypes ==
    ASSUME TypeOK, NEW f \in Filters, ReadSleeps(f)
    PROVE  TypeOK'
<1>1. /\ UNCHANGED <<setup, mainVars>> /\ UNCHANGED <<task, st, starved>> /\ UNCHANGED dataVars
      /\ Goto(f, "nap") /\ "nap" \in FilterPcs
  BY DEF ReadSleeps, FilterPcs
<1>2. FilterTypes'
  BY <1>1, GotoTypes DEF FilterTypes, TypeOK
<1>3. DataTypes' /\ TaskTypes' /\ starved' \in BOOLEAN
  BY <1>1 DEF DataTypes, TaskTypes, TypeOK, dataVars
<1> QED BY <1>1, <1>2, <1>3, FilterStepTypes

LEMMA ReadNothingTypes ==
    ASSUME TypeOK, NEW f \in Filters, ReadNothing(f)
    PROVE  TypeOK'
<1>1. /\ UNCHANGED <<setup, mainVars>> /\ UNCHANGED dataVars
      /\ TakeEnd(f) /\ starved' = (starved \/ fpc[f - 1] # "done")
  BY DEF ReadNothing
<1>2. FilterTypes' /\ TaskTypes'
  BY <1>1, TakeEndTypes
<1>3. DataTypes' /\ starved' \in BOOLEAN
  BY <1>1 DEF DataTypes, TypeOK, dataVars
<1> QED BY <1>1, <1>2, <1>3, FilterStepTypes

LEMMA WriteBufferTypes ==
    ASSUME TypeOK, NEW f \in Filters, WriteBuffer(f)
    PROVE  TypeOK'
<1> DEFINE b == IF m_Pipe[f] = "copy" THEN st[f].buf ELSE st[f].buf \o NewLine(m_LineEnd)
           s == NewBuffer(st[f], <<>>)
<1>1. Writes(f, b, s, "read") /\ "read" \in FilterPcs
  BY DEF WriteBuffer, FilterPcs
<1>2. f \in AllFilters /\ st[f] \in LineStates /\ m_LineEnd \in LineEnds /\ CharsOK
  BY PipeIs, StatesAre, PipeAssumption DEF TypeOK, PipeAssumption, CharsOK
<1>3. s \in LineStates
  BY <1>2, EmptySeq DEF NewBuffer, LineStates
<1>4. b \in Seq(STRING)
  <2>1. st[f].buf \in Seq(STRING) /\ NewLine(m_LineEnd) \in Seq(STRING)
    BY <1>2, NewLineIs DEF LineStates
  <2>2. st[f].buf \o NewLine(m_LineEnd) \in Seq(STRING)
    BY <2>1, ConcatProperties
  <2> QED BY <2>1, <2>2
<1> HIDE DEF b, s
<1> QED BY <1>1, <1>3, <1>4, StatesAre, WritesTypes

LEMMA WriteBeforeTypes ==
    ASSUME TypeOK, NEW f \in Filters, WriteBefore(f)
    PROVE  TypeOK'
<1> DEFINE b == st[f].old \o NewLine(m_LineEnd)
           s == [st[f] EXCEPT !.old = st[f].buf, !.buf = <<>>]
<1>1. Writes(f, b, s, "read") /\ "read" \in FilterPcs
  BY DEF WriteBefore, FilterPcs
<1>2. f \in AllFilters /\ st[f] \in LineStates /\ m_LineEnd \in LineEnds /\ CharsOK
  BY PipeIs, StatesAre, PipeAssumption DEF TypeOK, PipeAssumption, CharsOK
<1>3. s \in LineStates
  BY <1>2, EmptySeq DEF LineStates
<1>4. b \in Seq(STRING)
  <2>1. st[f].old \in Seq(STRING) /\ NewLine(m_LineEnd) \in Seq(STRING)
    BY <1>2, NewLineIs DEF LineStates
  <2> QED BY <2>1, ConcatProperties
<1> HIDE DEF b, s
<1> QED BY <1>1, <1>3, <1>4, StatesAre, WritesTypes

LEMMA WriteLineTypes ==
    ASSUME TypeOK, NEW f \in Filters, WriteLine(f)
    PROVE  TypeOK'
<1> DEFINE a == AfterLine(st[f], m_LineEnd)
           b == Line(st[f], m_LineEnd)
           s == IF a.test THEN SwapBuffers(a) ELSE a
           to == IF a.test THEN "read" ELSE "write"
<1>1. Writes(f, b, s, to) /\ to \in FilterPcs /\ HasLine(st[f], m_LineEnd)
  BY DEF WriteLine, FilterPcs
<1>2. st[f] \in LineStates
  BY PipeIs, StatesAre DEF TypeOK
<1>3. a \in LineStates /\ b \in Seq(STRING)
  BY <1>1, <1>2, LineType
<1>4. s \in LineStates
  <2> HIDE DEF a
  <2> QED BY <1>3, SwapType
<1> HIDE DEF b, s, to
<1> QED BY <1>1, <1>3, <1>4, StatesAre, WritesTypes

LEMMA NoLineTypes ==
    ASSUME TypeOK, NEW f \in Filters, NoLine(f)
    PROVE  TypeOK'
<1> DEFINE s == SwapBuffers(Settle(st[f]))
<1>1. /\ UNCHANGED <<setup, mainVars>> /\ UNCHANGED dataVars /\ UNCHANGED starved
      /\ st' = [st EXCEPT ![f] = s] /\ Continue(f, "read") /\ "read" \in FilterPcs
  BY DEF NoLine, FilterPcs
<1>2. f \in AllFilters /\ st \in [AllFilters -> LineStates]
  BY PipeIs, StatesAre DEF TypeOK
<1>3. s \in LineStates
  BY <1>2, SettleType, SwapType
<1> HIDE DEF s
<1>4. st' \in [AllFilters -> FilterStates]
  BY <1>1, <1>2, <1>3, StatesAre
<1>5. FilterTypes' /\ TaskTypes'
  BY <1>1, <1>4, ContinueTypes DEF FilterTypes, TaskTypes
<1>6. DataTypes' /\ starved' \in BOOLEAN
  BY <1>1 DEF DataTypes, TypeOK, dataVars
<1> QED BY <1>1, <1>5, <1>6, FilterStepTypes

LEMMA WriteLastTypes ==
    ASSUME TypeOK, NEW f \in Filters, WriteLast(f)
    PROVE  TypeOK'
<1> DEFINE b == st[f].sub \o st[f].old
<1>1. Writes(f, b, FilterStart, "done") /\ "done" \in FilterPcs
  BY DEF WriteLast, FilterPcs
<1>2. st[f] \in LineStates
  BY PipeIs, StatesAre DEF TypeOK
<1>3. b \in Seq(STRING)
  <2>1. st[f].sub \in Seq(STRING) /\ st[f].old \in Seq(STRING)
    BY <1>2 DEF LineStates
  <2> QED BY <2>1, ConcatProperties
<1>4. FilterStart \in LineStates
  BY EmptySeq DEF FilterStart, LineStates
<1> HIDE DEF b
<1> QED BY <1>1, <1>3, <1>4, StatesAre, WritesTypes

\* The steps of do_pipe and of time keep the types.
LEMMA OpenTypes ==
    ASSUME TypeOK, Open
    PROVE  TypeOK'
<1>1. /\ phase' = "adding" /\ round' = round + 1 /\ added' = 0 /\ round < MaxRounds
      /\ rest' = source /\ output' = <<>>
      /\ fpc' = [f \in AllFilters |-> "off"] /\ st' = [f \in AllFilters |-> FilterStart]
      /\ left' = [f \in AllFilters |-> 0]
      /\ UNCHANGED setup /\ UNCHANGED task /\ UNCHANGED m_buffer /\ UNCHANGED starved
  BY DEF Open
<1>2. FilterStart \in FilterStates
  BY StatesAre, EmptySeq DEF FilterStart, LineStates
<1>3. fpc' \in [AllFilters -> FilterPcs] /\ st' \in [AllFilters -> FilterStates] /\ left' \in [AllFilters -> Nat]
  BY <1>1, <1>2 DEF FilterPcs
<1>4. rest' \in Buffers /\ output' \in Buffers /\ m_buffer' \in [AllFilters -> Buffers]
  BY <1>1, PipeIs, EmptySeq DEF TypeOK, Buffers
<1>5. phase' \in Phases /\ round' \in 0 .. MaxRounds /\ added' \in 0 .. MaxFilters
  <2>1. MaxRounds \in Nat /\ round \in 0 .. MaxRounds
    BY PipeAssumption DEF PipeAssumption, TypeOK
  <2> QED BY <1>1, <2>1 DEF Phases, MaxFilters
<1> QED BY <1>1, <1>3, <1>4, <1>5, SetupKept DEF TypeOK

LEMMA AddTaskTypes ==
    ASSUME TypeOK, AddTask
    PROVE  TypeOK'
<1>1. /\ added < Len(m_Pipe) /\ added' = added + 1
      /\ task' = [task EXCEPT ![<<round, added'>>] = "queued"]
      /\ left' = [left EXCEPT ![added'] = delay]
      /\ UNCHANGED setup /\ UNCHANGED phase /\ UNCHANGED round /\ UNCHANGED fpc /\ UNCHANGED st
      /\ UNCHANGED dataVars /\ UNCHANGED starved
  BY DEF AddTask, Pool!Queue, Pool!Move
<1>2. added' \in 0 .. MaxFilters
  <2> DEFINE n == Len(m_Pipe)
  <2>1. n \in 2 .. 3 /\ added \in 0 .. 3
    BY PipeIs DEF TypeOK, MaxFilters
  <2> HIDE DEF n
  <2>2. added < n
    BY <1>1 DEF n
  <2> QED BY <1>1, <2>1, <2>2 DEF MaxFilters
<1>3. left' \in [AllFilters -> Nat]
  BY <1>1, PipeIs DEF TypeOK
<1>4. task' \in [Rounds \X AllFilters -> Pool!Statuses]
  <2> DEFINE k == <<round, added'>>
  <2> HIDE DEF k
  <2>1. task' = [task EXCEPT ![k] = "queued"]
    BY <1>1 DEF k
  <2> QED BY <2>1, MoveTypes DEF Pool!Statuses
<1> QED BY <1>1, <1>2, <1>3, <1>4, SetupKept DEF TypeOK, dataVars

LEMMA ReturnTypes ==
    ASSUME TypeOK, Return
    PROVE  TypeOK'
<1>1. /\ phase' = "returned"
      /\ UNCHANGED setup /\ UNCHANGED round /\ UNCHANGED added /\ UNCHANGED filterVars
      /\ UNCHANGED dataVars /\ UNCHANGED starved
  BY DEF Return
<1>2. task' \in [Rounds \X AllFilters -> Pool!Statuses]
  <2>1. task \in [Rounds \X AllFilters -> Pool!Statuses]
    BY DEF TypeOK
  <2>2. CASE UNCHANGED task
    BY <2>1, <2>2
  <2>3. CASE Pool!Lose
    BY <2>1, <2>3 DEF Pool!Lose, Pool!Statuses
  <2> QED BY <2>2, <2>3 DEF Return
<1> QED BY <1>1, <1>2, SetupKept DEF TypeOK, dataVars, filterVars, Phases

\* A filter begins; its task becomes a running one.
LEMMA BeginTypes ==
    ASSUME TypeOK, NEW f \in Filters, Begin(f)
    PROVE  /\ TypeOK'
           /\ \A r \in Rounds, g \in AllFilters :
                 \/ task'[<<r, g>>] = task[<<r, g>>]
                 \/ r = round /\ g = f /\ task'[<<r, g>>] = "running"
<1>1. /\ fpc' = [fpc EXCEPT ![f] = "read"]
      /\ UNCHANGED <<setup, mainVars>> /\ UNCHANGED <<st, left, starved>> /\ UNCHANGED dataVars
  BY DEF Begin
<1>2. /\ task' \in [Rounds \X AllFilters -> Pool!Statuses]
      /\ \A r \in Rounds, g \in AllFilters :
            \/ task'[<<r, g>>] = task[<<r, g>>]
            \/ r = round /\ g = f /\ task'[<<r, g>>] = "running"
  <2>1. task \in [Rounds \X AllFilters -> Pool!Statuses]
    BY DEF TypeOK
  <2>2. CASE UNCHANGED task
    BY <2>1, <2>2
  <2>3. CASE Pool!Start(<<round, f>>)
    <3>1. task' = [task EXCEPT ![<<round, f>>] = "running"]
      BY <2>3 DEF Pool!Start, Pool!Move
    <3>2. task' \in [Rounds \X AllFilters -> Pool!Statuses]
      BY <3>1, MoveTypes DEF Pool!Statuses
    <3>3. ASSUME NEW r \in Rounds, NEW g \in AllFilters
          PROVE  \/ task'[<<r, g>>] = task[<<r, g>>]
                 \/ r = round /\ g = f /\ task'[<<r, g>>] = "running"
      BY <2>1, <3>1
    <3> QED BY <3>2, <3>3
  <2> QED BY <2>2, <2>3 DEF Begin
<1>3. FilterTypes'
  BY <1>1 DEF FilterTypes, TypeOK, FilterPcs
<1>4. DataTypes' /\ starved' \in BOOLEAN
  BY <1>1 DEF DataTypes, TypeOK, dataVars
<1>5. TypeOK'
  BY <1>1, <1>2, <1>3, <1>4, FilterStepTypes DEF TaskTypes
<1> QED BY <1>2, <1>5

LEMMA TickTypes ==
    ASSUME TypeOK, Tick
    PROVE  TypeOK'
<1>1. /\ left' = [f \in AllFilters |-> IF left[f] > 0 THEN left[f] - 1 ELSE 0]
      /\ UNCHANGED <<setup, mainVars>> /\ UNCHANGED <<task, fpc, st, starved>> /\ UNCHANGED dataVars
  BY DEF Tick
<1>2. left' \in [AllFilters -> Nat]
  BY <1>1 DEF TypeOK
<1>3. FilterTypes' /\ DataTypes' /\ TaskTypes' /\ starved' \in BOOLEAN
  BY <1>1, <1>2 DEF FilterTypes, DataTypes, TaskTypes, TypeOK, dataVars
<1> QED BY <1>1, <1>3, FilterStepTypes

\* Every step keeps the types.
LEMMA TypeStep == TypeOK /\ [Next]_vars => TypeOK'
<1> SUFFICES ASSUME TypeOK, [Next]_vars PROVE TypeOK'
  OBVIOUS
<1>1. CASE Open
  BY <1>1, OpenTypes
<1>2. CASE AddTask
  BY <1>2, AddTaskTypes
<1>3. CASE Unlock
  BY <1>3, SetupKept DEF Unlock, TypeOK, Phases, filterVars, dataVars
<1>4. CASE Return
  BY <1>4, ReturnTypes
<1>5. CASE Tick
  BY <1>5, TickTypes
<1>6. ASSUME NEW f \in Filters, Begin(f) PROVE TypeOK'
  BY <1>6, BeginTypes
<1>7. ASSUME NEW f \in Filters, Filtering(f) PROVE TypeOK'
  BY <1>7, ReadFileTypes, ReadItemTypes, ReadSleepsTypes, ReadNothingTypes, WriteBufferTypes,
     WriteBeforeTypes, WriteLineTypes, NoLineTypes, WriteLastTypes DEF Filtering
<1>8. CASE UNCHANGED vars
  <2>1. UNCHANGED <<setup, mainVars>> /\ UNCHANGED filterVars /\ UNCHANGED dataVars /\ UNCHANGED <<task, starved>>
    BY <1>8 DEF vars
  <2>2. FilterTypes' /\ DataTypes' /\ TaskTypes' /\ starved' \in BOOLEAN
    BY <2>1 DEF FilterTypes, DataTypes, TaskTypes, TypeOK, filterVars, dataVars
  <2> QED BY <2>1, <2>2, FilterStepTypes
<1> QED BY <1>1, <1>2, <1>3, <1>4, <1>5, <1>6, <1>7, <1>8 DEF Next, Main, Filter

\* Every variable of the pipe has its type in every reachable state, whatever
\* the file, the filters and their speed (FilterPipe.cpp, Filter.cpp).
THEOREM TypeCorrect == Spec => []TypeOK
BY TypeInit, TypeStep, PTL DEF Spec

-----------------------------------------------------------------------------
(* What goes through the pipe                                              *)

\* What is passed on are buffers that are not empty: the equation of Passed
\* has a solution.
LEMMA PassedIs ==
    ASSUME NEW kinds \in Seq(Kinds), kinds # <<>>, NEW le \in LineEnds, NEW bufs, InputBuffers(bufs),
           CharsOK
    PROVE  /\ Passed(kinds, bufs, le)[0] = bufs
           /\ \A f \in 1 .. Len(kinds) - 1 :
                 Passed(kinds, bufs, le)[f] = NonEmpty(Filtered(kinds[f], Passed(kinds, bufs, le)[f - 1], le))
           /\ \A f \in 0 .. Len(kinds) - 1 : InputBuffers(Passed(kinds, bufs, le)[f])
<1> DEFINE n == Len(kinds) - 1
           X == {I \in Seq(Seq(STRING)) : InputBuffers(I)}
           P == Passed(kinds, bufs, le)
           next == [f \in 1 .. n |-> [I \in X |-> NonEmpty(Filtered(kinds[f], I, le))]]
<1>1. n \in Nat /\ \A f \in 1 .. n : kinds[f] \in Kinds
  <2>1. Len(kinds) \in Nat /\ Len(kinds) # 0 /\ \A f \in 1 .. Len(kinds) : kinds[f] \in Kinds
    BY LenProperties, ElementOfSeq, EmptySeq
  <2> QED BY <2>1
<1>2. \A f \in 1 .. n, I \in X : NonEmpty(Filtered(kinds[f], I, le)) \in X
  <2> SUFFICES ASSUME NEW f \in 1 .. n, NEW I \in X
               PROVE  NonEmpty(Filtered(kinds[f], I, le)) \in X
    OBVIOUS
  <2> DEFINE O == Filtered(kinds[f], I, le)
  <2>1. GivenOK(kinds[f], I, le)
    BY <1>1 DEF GivenOK
  <2>2. O \in Seq(Seq(STRING)) /\ 0 \in 0 .. Len(O)
    BY <2>1, FilteredIs
  <2> HIDE DEF O
  <2>3. NonEmpty(O) \in Seq(Seq(STRING)) /\ \A p \in 1 .. Len(NonEmpty(O)) : NonEmpty(O)[p] # <<>>
    BY <2>2, KeptAt
  <2> QED BY <2>3 DEF InputBuffers, O
<1>3. bufs \in X
  BY DEF InputBuffers
<1>4. next \in [1 .. n -> [X -> X]] /\ \A f \in 1 .. n, I \in X : next[f][I] = NonEmpty(Filtered(kinds[f], I, le))
  <2> HIDE DEF n, X
  <2> QED BY <1>2
<1>5. P = CHOOSE h : h = [f \in 0 .. n |-> IF f = 0 THEN bufs ELSE NonEmpty(Filtered(kinds[f], h[f - 1], le))]
  BY DEF Passed
<1> HIDE DEF n, next, X, P
<1>6. PICK h : Iterates(h, n, X, bufs, next)
  BY <1>1, <1>3, <1>4, IterateExists
<1>7. h = [f \in 0 .. n |-> IF f = 0 THEN bufs ELSE NonEmpty(Filtered(kinds[f], h[f - 1], le))]
  <2>1. ASSUME NEW f \in 0 .. n, f # 0 PROVE h[f] = NonEmpty(Filtered(kinds[f], h[f - 1], le))
    <3>1. f \in 1 .. n /\ f - 1 \in 0 .. n
      BY <1>1, <2>1
    <3> QED BY <1>4, <1>6, <3>1 DEF Iterates
  <2> QED BY <1>6, <2>1 DEF Iterates
<1>8. P = [f \in 0 .. n |-> IF f = 0 THEN bufs ELSE NonEmpty(Filtered(kinds[f], P[f - 1], le))]
  BY <1>5, <1>7, Zenon
<1>9. P[0] = bufs /\ \A f \in 1 .. n : P[f] = NonEmpty(Filtered(kinds[f], P[f - 1], le))
  <2>1. \A f \in 0 .. n : P[f] = IF f = 0 THEN bufs ELSE NonEmpty(Filtered(kinds[f], P[f - 1], le))
    BY <1>8, Zenon
  <2>2. 0 \in 0 .. n /\ \A f \in 1 .. n : f \in 0 .. n /\ f # 0
    BY <1>1
  <2> QED BY <2>1, <2>2, Zenon
<1>10. \A f \in 0 .. n : P[f] \in X
  <2> DEFINE T == {f \in 0 .. n : P[f] \in X}
  <2>1. 0 \in T
    BY <1>1, <1>3, <1>9
  <2>2. ASSUME NEW f \in 1 .. n, f - 1 \in T PROVE f \in T
    <3>1. P[f - 1] \in X /\ f \in 0 .. n
      BY <1>1, <2>2
    <3>2. NonEmpty(Filtered(kinds[f], P[f - 1], le)) \in X
      BY <1>2, <3>1
    <3>3. P[f] \in X
      BY <1>9, <3>2, Zenon
    <3> QED BY <3>1, <3>3
  <2>3. \A f \in 0 .. n : f \in T
    <3> HIDE DEF T
    <3> QED BY <1>1, <2>1, <2>2, Induction
  <2> QED BY <2>3
<1>11. \A f \in 0 .. n : InputBuffers(P[f])
  BY <1>10 DEF X
<1> QED BY <1>9, <1>11 DEF P, n

-----------------------------------------------------------------------------
(* What has been read and what is left                                     *)

From(s, k) == SubSeq(s, k + 1, Len(s))

\* The first of what is left, and the rest.
LEMMA FromIs ==
    ASSUME NEW S, NEW s \in Seq(S), NEW k \in 0 .. Len(s)
    PROVE  /\ From(s, k) \in Seq(S) /\ Len(From(s, k)) = Len(s) - k
           /\ \A i \in 1 .. Len(s) - k : From(s, k)[i] = s[k + i]
           /\ From(s, k) = <<>> <=> k = Len(s)
<1>1. Len(s) \in Nat /\ Len(s) \in k .. Len(s)
  BY LenProperties
<1>2. /\ From(s, k) \in Seq(S) /\ Len(From(s, k)) = Len(s) - k
      /\ \A i \in 1 .. Len(s) - k : From(s, k)[i] = s[k + i]
  BY <1>1, PartIs DEF From
<1>3. From(s, k) = <<>> <=> Len(From(s, k)) = 0
  BY <1>2, EmptySeq
<1> QED BY <1>1, <1>2, <1>3

\* What is left when one more is read.
LEMMA FromTakes ==
    ASSUME NEW S, NEW s \in Seq(S), NEW k \in 0 .. Len(s), From(s, k) # <<>>
    PROVE  /\ k < Len(s) /\ k + 1 \in 0 .. Len(s)
           /\ Head(From(s, k)) = s[k + 1] /\ Tail(From(s, k)) = From(s, k + 1)
<1> DEFINE x == From(s, k)
           y == From(s, k + 1)
           z == Tail(x)
<1>1. /\ x \in Seq(S) /\ Len(x) = Len(s) - k /\ (\A i \in 1 .. Len(s) - k : x[i] = s[k + i])
      /\ k # Len(s) /\ Len(s) \in Nat
  BY FromIs, LenProperties
<1>2. k < Len(s) /\ k + 1 \in 0 .. Len(s) /\ 1 \in 1 .. Len(s) - k
  BY <1>1
<1>3. /\ y \in Seq(S) /\ Len(y) = Len(s) - (k + 1)
      /\ \A i \in 1 .. Len(s) - (k + 1) : y[i] = s[k + 1 + i]
  BY <1>2, FromIs
<1> HIDE DEF x, y
<1>4. x # <<>>
  BY DEF x
<1>5. /\ Head(x) = x[1] /\ z \in Seq(S) /\ Len(z) = Len(x) - 1
      /\ \A i \in 1 .. Len(z) : z[i] = x[i + 1]
  <2>1. Len(x) # 0
    BY <1>1, <1>2
  <2> QED BY <1>1, <1>4, <2>1, HeadTailProperties
<1> HIDE DEF z
<1>6. z = y
  <2>1. Len(z) = Len(y)
    BY <1>1, <1>3, <1>5
  <2>2. ASSUME NEW i \in 1 .. Len(z) PROVE z[i] = y[i]
    <3>1. i \in 1 .. Len(s) - (k + 1) /\ i + 1 \in 1 .. Len(s) - k /\ k + (i + 1) = k + 1 + i
      BY <1>1, <1>5
    <3>2. z[i] = x[i + 1] /\ x[i + 1] = s[k + (i + 1)] /\ y[i] = s[k + 1 + i]
      BY <1>1, <1>3, <1>5, <3>1
    <3> QED BY <3>1, <3>2
  <2> QED BY <1>3, <1>5, <2>1, <2>2, SeqEqual
<1> QED BY <1>1, <1>2, <1>5, <1>6 DEF x, y, z

\* What is left when one more is written.
LEMMA FromGrows ==
    ASSUME NEW S, NEW s \in Seq(S), NEW k \in 0 .. Len(s), NEW e \in S
    PROVE  From(Append(s, e), k) = Append(From(s, k), e)
<1> DEFINE t == Append(s, e)
           x == From(t, k)
           z == From(s, k)
           y == Append(z, e)
<1>1. Len(s) \in Nat /\ t \in Seq(S) /\ Len(t) = Len(s) + 1 /\ t[Len(s) + 1] = e
      /\ \A i \in 1 .. Len(s) : t[i] = s[i]
  BY AppendProperties, LenProperties
<1> HIDE DEF t
<1>2. k \in 0 .. Len(t)
  BY <1>1
<1>3. x \in Seq(S) /\ Len(x) = Len(t) - k /\ \A i \in 1 .. Len(t) - k : x[i] = t[k + i]
  <2>1. From(t, k) \in Seq(S) /\ Len(From(t, k)) = Len(t) - k /\ \A i \in 1 .. Len(t) - k : From(t, k)[i] = t[k + i]
    <3> HIDE DEF x
    <3> QED BY <1>1, <1>2, FromIs, ZenonT(30)
  <2> QED BY <2>1
<1>4. z \in Seq(S) /\ Len(z) = Len(s) - k /\ \A i \in 1 .. Len(s) - k : z[i] = s[k + i]
  BY FromIs
<1> HIDE DEF x, z
<1>5. y \in Seq(S) /\ Len(y) = Len(z) + 1 /\ y[Len(z) + 1] = e /\ \A i \in 1 .. Len(z) : y[i] = z[i]
  BY <1>4, AppendProperties, LenProperties
<1> HIDE DEF y
<1>6. Len(x) = Len(y)
  BY <1>1, <1>3, <1>4, <1>5
<1>7. ASSUME NEW i \in 1 .. Len(x) PROVE x[i] = y[i]
  <2>1. i \in 1 .. Len(t) - k /\ x[i] = t[k + i]
    BY <1>1, <1>3
  <2>2. CASE i = Len(z) + 1
    <3>1. k + i = Len(s) + 1
      BY <1>1, <1>4, <2>2
    <3> QED BY <1>1, <1>5, <2>1, <2>2, <3>1
  <2>3. CASE i # Len(z) + 1
    <3>1. i \in 1 .. Len(s) - k /\ i \in 1 .. Len(z) /\ k + i \in 1 .. Len(s)
      BY <1>1, <1>4, <2>1, <2>3
    <3>2. t[k + i] = s[k + i] /\ y[i] = z[i] /\ z[i] = s[k + i]
      BY <1>1, <1>4, <1>5, <3>1
    <3> QED BY <2>1, <3>2
  <2> QED BY <2>2, <2>3
<1>8. x = y
  BY <1>3, <1>5, <1>6, <1>7, SeqEqual
<1> QED BY <1>8 DEF x, y, z, t

\* The first q elements, and none.
LEMMA FirstOf ==
    ASSUME NEW S, NEW s \in Seq(S), NEW q \in 0 .. Len(s)
    PROVE  /\ SubSeq(s, 1, q) \in Seq(S) /\ Len(SubSeq(s, 1, q)) = q
           /\ \A i \in 1 .. q : SubSeq(s, 1, q)[i] = s[i]
           /\ q = 0 => SubSeq(s, 1, q) = <<>>
<1> DEFINE x == SubSeq(s, 1, q)
<1>1. Len(s) \in Nat /\ q \in Nat /\ 0 \in 0 .. Len(s) /\ q \in 0 .. Len(s)
  BY LenProperties
<1>2. SubSeq(s, 0 + 1, q) = x
  OBVIOUS
<1>3. /\ x \in Seq(S) /\ Len(x) = q - 0 /\ \A i \in 1 .. q - 0 : x[i] = s[0 + i]
  <2> HIDE DEF x
  <2> QED BY <1>1, <1>2, PartIs
<1> HIDE DEF x
<1>4. Len(x) = q /\ \A i \in 1 .. q : x[i] = s[i]
  BY <1>1, <1>3
<1>5. q = 0 => x = <<>>
  BY <1>3, <1>4, EmptySeq
<1> QED BY <1>3, <1>4, <1>5 DEF x

\* What is written when one more is.
LEMMA OneMore ==
    ASSUME NEW S, NEW s \in Seq(S), NEW j \in Nat, j + 1 \in 1 .. Len(s)
    PROVE  SubSeq(s, 1, j + 1) = Append(SubSeq(s, 1, j), s[j + 1])
<1> DEFINE x == SubSeq(s, 1, j + 1)
           z == SubSeq(s, 1, j)
           e == s[j + 1]
           y == Append(z, e)
<1>1. Len(s) \in Nat /\ 0 \in 0 .. Len(s) /\ j \in 0 .. Len(s) /\ j + 1 \in 0 .. Len(s) /\ e \in S
  BY LenProperties, ElementOfSeq
<1> DEFINE m == j + 1
<1>2. /\ x \in Seq(S) /\ Len(x) = m /\ (\A i \in 1 .. m : x[i] = s[i])
      /\ z \in Seq(S) /\ Len(z) = j /\ (\A i \in 1 .. j : z[i] = s[i])
  <2> HIDE DEF m
  <2> QED BY <1>1, FirstOf DEF m
<1> HIDE DEF x, z, e
<1>3. y \in Seq(S) /\ Len(y) = j + 1 /\ y[j + 1] = e /\ \A i \in 1 .. j : y[i] = z[i]
  BY <1>1, <1>2, AppendProperties
<1> HIDE DEF y
<1>4. ASSUME NEW i \in 1 .. Len(x) PROVE x[i] = y[i]
  <2>1. i = j + 1 \/ i \in 1 .. j
    BY <1>1, <1>2
  <2>2. i \in 1 .. j + 1 /\ x[i] = s[i]
    BY <1>2
  <2>3. CASE i = j + 1
    BY <1>3, <2>2, <2>3 DEF e
  <2>4. CASE i \in 1 .. j
    BY <1>2, <1>3, <2>2, <2>4
  <2> QED BY <2>1, <2>3, <2>4
<1>5. x = y
  BY <1>2, <1>3, <1>4, SeqEqual
<1> QED BY <1>5 DEF x, y, z, e

\* the buffers filter f is given in the end, and what it has to make of them
In(f) == Passed(m_Pipe, source, m_LineEnd)[f - 1]
Out(f) == Filtered(m_Pipe[f], In(f), m_LineEnd)

\* Connector b holds what of the first j buffers that filter f has written
\* the next one has not taken yet.
Holds(b, f, j, k) ==
    /\ k <= Len(Kept(Out(f))[j])
    /\ b = From(Kept(Out(f))[j], k)

\* got and put: how many buffers each filter has read and written
FlowAt(got, put) ==
    /\ \A f \in Filters : Stands(m_Pipe[f], In(f), m_LineEnd, fpc[f], st[f], got[f], put[f])
    /\ phase # "new" => rest = From(source, got[1])
    /\ \A f \in Filters : f # 1 => Holds(m_buffer[f - 1], f - 1, put[f - 1], got[f])
    /\ output = SubSeq(Out(Len(m_Pipe)), 1, put[Len(m_Pipe)])

Flow == \E got, put \in [AllFilters -> Nat] : FlowAt(got, put)

\* No filter that reads lines which end in \r\n is given a first \r at the end
\* of a buffer.
WellCut == \A f \in Filters : CutOK(m_Pipe[f], In(f), m_LineEnd)

NewInv ==
    /\ phase = "new" => \A f \in AllFilters : fpc[f] = "off" /\ m_buffer[f] = <<>>
    /\ phase # "new" => round > 0

\* The tasks of the calls to come are new, and that of a filter is finished
\* when the filter is done.
TaskInv ==
    /\ \A r \in Rounds, f \in AllFilters : r > round => task[<<r, f>>] = "new"
    /\ \A f \in AllFilters : round > 0 /\ task[<<round, f>>] = "finished" => fpc[f] = "done"

DoneInv == phase = "returned" => \A f \in Filters : fpc[f] = "done"

FlowInv ==
    /\ TypeOK /\ NewInv /\ TaskInv /\ DoneInv
    /\ WellCut /\ ~starved => Flow

-----------------------------------------------------------------------------
\* The types of what flows, and how one filter is tied to the next.
LEMMA StreamsAre ==
    ASSUME TypeOK
    PROVE  /\ CharsOK
           /\ \A f \in Filters : GivenOK(m_Pipe[f], In(f), m_LineEnd)
           /\ \A f \in Filters : Out(f) \in Seq(Seq(STRING)) /\ Len(Out(f)) \in Nat
           /\ \A f \in Filters : In(f) \in Seq(Seq(STRING)) /\ Len(In(f)) \in Nat
           /\ 1 \in Filters /\ Len(m_Pipe) \in Filters /\ In(1) = source
           /\ \A f \in Filters : f # 1 => f - 1 \in Filters /\ f - 1 # f /\ In(f) = NonEmpty(Out(f - 1))
           /\ \A f \in Filters : f # Len(m_Pipe) => f + 1 \in Filters /\ f + 1 # 1 /\ f + 1 - 1 = f
           /\ Expected = Out(Len(m_Pipe))
<1> DEFINE n == Len(m_Pipe)
           P == Passed(m_Pipe, source, m_LineEnd)
<1>1. CharsOK
  BY PipeAssumption DEF PipeAssumption, CharsOK
<1>2. /\ m_Pipe \in Seq(Kinds) /\ n \in 2 .. 3 /\ m_LineEnd \in LineEnds /\ InputBuffers(source)
      /\ \A f \in 1 .. n : m_Pipe[f] \in Kinds
  BY PipeIs DEF Filters
<1>3. m_Pipe # <<>>
  BY <1>2, EmptySeq
<1>4. /\ P[0] = source
      /\ \A f \in 1 .. n - 1 : P[f] = NonEmpty(Filtered(m_Pipe[f], P[f - 1], m_LineEnd))
      /\ \A f \in 0 .. n - 1 : InputBuffers(P[f])
  BY <1>1, <1>2, <1>3, PassedIs
<1>5. Filters = 1 .. n /\ Expected = Filtered(m_Pipe[n], P[n - 1], m_LineEnd)
      /\ \A f : In(f) = P[f - 1] /\ Out(f) = Filtered(m_Pipe[f], P[f - 1], m_LineEnd)
  BY DEF Filters, Expected, PipeOf, In, Out
<1> HIDE DEF n, P
<1>6. \A f \in 1 .. n : f - 1 \in 0 .. n - 1
  BY <1>2
<1>7. \A f \in 1 .. n : GivenOK(m_Pipe[f], In(f), m_LineEnd)
  BY <1>2, <1>4, <1>5, <1>6 DEF GivenOK
<1>8. ASSUME NEW f \in 1 .. n
      PROVE  Out(f) \in Seq(Seq(STRING)) /\ Len(Out(f)) \in Nat
             /\ In(f) \in Seq(Seq(STRING)) /\ Len(In(f)) \in Nat
  <2>1. GivenOK(m_Pipe[f], In(f), m_LineEnd)
    BY <1>7
  <2>2. Out(f) \in Seq(Seq(STRING)) /\ Len(Out(f)) \in Nat
    BY <1>1, <2>1, FilteredIs DEF Out
  <2> QED BY <2>1, <2>2, LenProperties DEF GivenOK, InputBuffers
<1>9. 1 \in 1 .. n /\ n \in 1 .. n
  BY <1>2
<1>10. In(1) = source
  BY <1>4, <1>5
<1>11. ASSUME NEW f \in 1 .. n, f # 1
       PROVE  f - 1 \in 1 .. n /\ f - 1 # f /\ In(f) = NonEmpty(Out(f - 1))
  <2>1. f - 1 \in 1 .. n /\ f - 1 # f /\ f - 1 \in 1 .. n - 1
    BY <1>2, <1>11
  <2>2. P[f - 1] = NonEmpty(Filtered(m_Pipe[f - 1], P[f - 1 - 1], m_LineEnd))
    BY <1>4, <2>1
  <2> QED BY <1>5, <2>1, <2>2
<1>12. \A f \in 1 .. n : f # n => f + 1 \in 1 .. n /\ f + 1 # 1 /\ f + 1 - 1 = f
  BY <1>2
<1>13. Expected = Out(n)
  BY <1>5
<1> QED BY <1>1, <1>5, <1>7, <1>8, <1>9, <1>10, <1>11, <1>12, <1>13 DEF n

\* They are the same while setup is.
LEMMA StreamsStay ==
    ASSUME UNCHANGED setup
    PROVE  /\ UNCHANGED <<m_Pipe, m_LineEnd, source, threaded, delay>> /\ Filters' = Filters
           /\ \A f : In(f)' = In(f) /\ Out(f)' = Out(f)
           /\ WellCut' <=> WellCut
<1>1. UNCHANGED <<m_Pipe, m_LineEnd, source, threaded, delay>>
  BY DEF setup
<1> QED BY <1>1 DEF Filters, In, Out, WellCut

\* A filter reads and writes: what the others are given and have to do is as
\* it was.
LEMMA FlowMoves ==
    ASSUME TypeOK, UNCHANGED <<setup, phase>>, phase # "new",
           NEW got \in [AllFilters -> Nat], NEW put \in [AllFilters -> Nat], FlowAt(got, put),
           NEW f \in Filters, NEW k \in Nat, NEW j \in Nat,
           \A g \in AllFilters \ {f} : fpc'[g] = fpc[g] /\ st'[g] = st[g],
           Stands(m_Pipe[f], In(f), m_LineEnd, fpc'[f], st'[f], k, j),
           f = 1 => rest' = From(source, k),
           f # 1 => rest' = rest /\ Holds(m_buffer'[f - 1], f - 1, put[f - 1], k),
           f = Len(m_Pipe) => output' = SubSeq(Out(f), 1, j),
           f # Len(m_Pipe) => output' = output /\ Holds(m_buffer'[f], f, j, got[f + 1]),
           \A g \in Filters \ {f - 1, f} : m_buffer'[g] = m_buffer[g]
    PROVE  Flow'
<1> DEFINE got2 == [got EXCEPT ![f] = k]
           put2 == [put EXCEPT ![f] = j]
           n == Len(m_Pipe)
<1>1. Filters \subseteq AllFilters /\ Filters = 1 .. n /\ n \in 2 .. 3
  BY PipeIs DEF Filters
<1>2. /\ UNCHANGED <<m_Pipe, m_LineEnd, source>> /\ Filters' = Filters
      /\ \A g : In(g)' = In(g) /\ Out(g)' = Out(g)
  BY StreamsStay
<1>3. /\ got2 \in [AllFilters -> Nat] /\ put2 \in [AllFilters -> Nat]
      /\ got2[f] = k /\ put2[f] = j
      /\ \A g \in AllFilters \ {f} : got2[g] = got[g] /\ put2[g] = put[g]
  BY <1>1
<1>4. /\ 1 \in Filters /\ n \in Filters
      /\ \A g \in Filters : g # 1 => g - 1 \in Filters /\ g - 1 # g
      /\ \A g \in Filters : g # n => g + 1 \in Filters /\ g + 1 # 1 /\ g + 1 - 1 = g
  BY StreamsAre
<1> HIDE DEF got2, put2
<1>5. \A g \in Filters : Stands(m_Pipe[g], In(g), m_LineEnd, fpc'[g], st'[g], got2[g], put2[g])
  BY <1>1, <1>3 DEF FlowAt
<1>6. rest' = From(source, got2[1])
  <2>1. CASE f = 1
    BY <1>3, <2>1
  <2>2. CASE f # 1
    BY <1>1, <1>3, <1>4, <2>2 DEF FlowAt
  <2> QED BY <2>1, <2>2
<1>7. ASSUME NEW g \in Filters, g # 1 PROVE Holds(m_buffer'[g - 1], g - 1, put2[g - 1], got2[g])
  <2>1. g - 1 \in Filters /\ g - 1 # g /\ g \in AllFilters /\ g - 1 \in AllFilters
    BY <1>1, <1>4, <1>7
  <2>2. CASE g = f
    <3>1. put2[g - 1] = put[g - 1] /\ got2[g] = k
      BY <1>3, <2>1, <2>2
    <3> QED BY <1>7, <2>2, <3>1
  <2>3. CASE g - 1 = f
    <3>1. f # n /\ g = f + 1
      BY <1>1, <2>3
    <3>2. put2[g - 1] = j /\ got2[g] = got[f + 1]
      BY <1>3, <2>1, <2>3, <3>1
    <3> QED BY <2>3, <3>1, <3>2
  <2>4. CASE g # f /\ g - 1 # f
    <3>1. g - 1 # f - 1
      BY <1>1, <2>4
    <3>2. m_buffer'[g - 1] = m_buffer[g - 1] /\ put2[g - 1] = put[g - 1] /\ got2[g] = got[g]
      BY <1>3, <2>1, <2>4, <3>1
    <3> QED BY <1>7, <3>2 DEF FlowAt
  <2> QED BY <2>2, <2>3, <2>4
<1>8. output' = SubSeq(Out(n), 1, put2[n])
  <2>1. CASE f = n
    BY <1>3, <2>1
  <2>2. CASE f # n
    BY <1>1, <1>3, <1>4, <2>2 DEF FlowAt
  <2> QED BY <2>1, <2>2
<1>9. FlowAt(got2, put2)'
  <2>1. \A g \in Filters' : Stands(m_Pipe'[g], In(g)', m_LineEnd', fpc'[g], st'[g], got2[g], put2[g])
    BY <1>2, <1>5
  <2>2. rest' = From(source', got2[1])
    BY <1>2, <1>6
  <2>3. \A g \in Filters' : g # 1 => Holds(m_buffer[g - 1], g - 1, put2[g - 1], got2[g])'
    BY <1>2, <1>7 DEF Holds
  <2>4. output' = SubSeq(Out(Len(m_Pipe))', 1, put2[Len(m_Pipe')])
    BY <1>2, <1>8 DEF n
  <2> QED BY <2>1, <2>2, <2>3, <2>4, <1>2 DEF FlowAt
<1> QED BY <1>3, <1>9 DEF Flow

\* A filter reads, and writes nothing.
LEMMA FlowReads ==
    ASSUME TypeOK, UNCHANGED <<setup, phase, output>>, phase # "new",
           NEW got \in [AllFilters -> Nat], NEW put \in [AllFilters -> Nat], FlowAt(got, put),
           NEW f \in Filters, NEW k \in Nat,
           \A g \in AllFilters \ {f} : fpc'[g] = fpc[g] /\ st'[g] = st[g],
           Stands(m_Pipe[f], In(f), m_LineEnd, fpc'[f], st'[f], k, put[f]),
           f = 1 => rest' = From(source, k),
           f # 1 => rest' = rest /\ Holds(m_buffer'[f - 1], f - 1, put[f - 1], k),
           \A g \in Filters \ {f - 1} : m_buffer'[g] = m_buffer[g]
    PROVE  Flow'
<1> DEFINE n == Len(m_Pipe)
<1>1. f \in AllFilters /\ f # f - 1 /\ put[f] \in Nat /\ n \in 2 .. 3 /\ f \in 1 .. n
  BY PipeIs DEF Filters
<1>2. f # n => f + 1 \in Filters /\ f + 1 # 1 /\ f + 1 - 1 = f
  BY StreamsAre
<1>3. f = n => output' = SubSeq(Out(f), 1, put[f])
  BY DEF FlowAt
<1>4. f # n => output' = output /\ Holds(m_buffer'[f], f, put[f], got[f + 1])
  BY <1>1, <1>2 DEF FlowAt
<1> DEFINE j == put[f]
<1>5. j \in Nat /\ Stands(m_Pipe[f], In(f), m_LineEnd, fpc'[f], st'[f], k, j)
  BY <1>1
<1>6. f = Len(m_Pipe) => output' = SubSeq(Out(f), 1, j)
  BY <1>3
<1>7. f # Len(m_Pipe) => output' = output /\ Holds(m_buffer'[f], f, j, got[f + 1])
  BY <1>4
<1>8. \A g \in Filters \ {f - 1, f} : m_buffer'[g] = m_buffer[g]
  OBVIOUS
<1> HIDE DEF j, n
<1> QED BY <1>5, <1>6, <1>7, <1>8, FlowMoves

\* A filter neither reads nor writes.
LEMMA FlowStays ==
    ASSUME TypeOK, UNCHANGED <<setup, phase, dataVars>>, phase # "new", Flow,
           NEW f \in Filters,
           \A g \in AllFilters \ {f} : fpc'[g] = fpc[g] /\ st'[g] = st[g],
           \A k, j : Stands(m_Pipe[f], In(f), m_LineEnd, fpc[f], st[f], k, j)
                        => Stands(m_Pipe[f], In(f), m_LineEnd, fpc'[f], st'[f], k, j)
    PROVE  Flow'
<1>1. PICK got \in [AllFilters -> Nat], put \in [AllFilters -> Nat] : FlowAt(got, put)
  BY DEF Flow
<1>2. UNCHANGED <<rest, m_buffer, output>>
  BY DEF dataVars
<1>3. f \in AllFilters /\ got[f] \in Nat
  BY PipeIs
<1>4. Stands(m_Pipe[f], In(f), m_LineEnd, fpc'[f], st'[f], got[f], put[f])
  BY <1>1 DEF FlowAt
<1>5. /\ f = 1 => rest' = From(source, got[f])
      /\ f # 1 => rest' = rest /\ Holds(m_buffer'[f - 1], f - 1, put[f - 1], got[f])
      /\ \A g \in Filters \ {f - 1} : m_buffer'[g] = m_buffer[g]
  BY <1>1, <1>2 DEF FlowAt
<1> QED BY <1>1, <1>2, <1>3, <1>4, <1>5, FlowReads

\* AddBufferItem takes no empty buffer
Added(q, b) == IF b = <<>> THEN q ELSE Append(q, b)

\* What goes through a connector.
LEMMA KeptOn ==
    ASSUME NEW O \in Seq(Seq(STRING)), NEW j \in Nat, j + 1 \in 1 .. Len(O),
           NEW k \in Nat, k <= Len(Kept(O)[j]), NEW b, b = O[j + 1]
    PROVE  /\ k <= Len(Kept(O)[j + 1])
           /\ From(Kept(O)[j + 1], k) = Added(From(Kept(O)[j], k), b)
<1>1. Len(O) \in Nat /\ j \in 0 .. Len(O) /\ j + 1 - 1 = j /\ b \in Seq(STRING)
  BY LenProperties, ElementOfSeq
<1>2. Kept(O)[j] \in Seq(Seq(STRING))
  BY <1>1, KeptAt
<1>3. Kept(O)[j + 1] = IF b = <<>> THEN Kept(O)[j] ELSE Append(Kept(O)[j], b)
  BY <1>1, KeptIs
<1> DEFINE W == Kept(O)[j]
           V == Kept(O)[j + 1]
<1> HIDE DEF W, V
<1>4. W \in Seq(Seq(STRING)) /\ k \in 0 .. Len(W) /\ Len(W) \in Nat
  BY <1>2, LenProperties DEF W
<1>5. CASE b = <<>>
  BY <1>3, <1>4, <1>5 DEF V, W, Added
<1>6. CASE b # <<>>
  <2>1. V = Append(W, b)
    BY <1>3, <1>6 DEF V, W
  <2>2. Len(V) = Len(W) + 1
    BY <1>1, <1>4, <2>1, AppendExtends
  <2>3. From(V, k) = Append(From(W, k), b)
    BY <1>1, <1>4, <2>1, FromGrows
  <2>4. k <= Len(V)
    BY <1>4, <2>2
  <2> QED BY <1>6, <2>3, <2>4 DEF V, W, Added
<1> QED BY <1>5, <1>6

\* A filter writes what it has to write next.
LEMMA FlowWrites ==
    ASSUME TypeOK, UNCHANGED starved, phase # "new", Flow,
           NEW f \in Filters, NEW b, NEW s, NEW to \in FilterPcs, Writes(f, b, s, to),
           \A k, j : Stands(m_Pipe[f], In(f), m_LineEnd, fpc[f], st[f], k, j)
                        => WritesNext(m_Pipe[f], In(f), m_LineEnd, b, to, s, k, j)
    PROVE  Flow'
<1> DEFINE n == Len(m_Pipe)
<1>1. PICK got \in [AllFilters -> Nat], put \in [AllFilters -> Nat] : FlowAt(got, put)
  BY DEF Flow
<1>2. /\ Emit(f, b) /\ st' = [st EXCEPT ![f] = s] /\ Continue(f, to)
      /\ UNCHANGED <<setup, phase, rest>>
  BY DEF Writes, mainVars
<1>3. f \in AllFilters /\ st \in [AllFilters -> FilterStates] /\ m_buffer \in [AllFilters -> Buffers]
      /\ f \in 1 .. n /\ n \in 2 .. 3
  BY PipeIs DEF TypeOK, Filters
<1>4. fpc'[f] = to /\ st'[f] = s /\ \A g \in AllFilters \ {f} : fpc'[g] = fpc[g] /\ st'[g] = st[g]
  BY <1>2, <1>3, ContinueTypes
<1> DEFINE k == got[f]
           j == put[f]
           O == Out(f)
<1>5. k \in Nat /\ j \in Nat /\ j + 1 \in Nat
  BY <1>3
<1>6. WritesNext(m_Pipe[f], In(f), m_LineEnd, b, to, s, k, j)
  BY <1>1 DEF FlowAt
<1>7. b \in Seq(STRING) /\ j + 1 \in 1 .. Len(O) /\ O[j + 1] = b
      /\ Stands(m_Pipe[f], In(f), m_LineEnd, to, s, k, j + 1)
  BY <1>6 DEF WritesNext, Out
<1>8. O \in Seq(Seq(STRING))
  BY StreamsAre
<1> HIDE DEF k, j, O
<1>9. /\ f = 1 => rest' = From(source, k)
      /\ f # 1 => rest' = rest /\ Holds(m_buffer'[f - 1], f - 1, put[f - 1], k)
      /\ \A g \in Filters \ {f - 1, f} : m_buffer'[g] = m_buffer[g]
      /\ \A g \in Filters \ {f} : m_buffer'[g] = m_buffer[g]
  <2>1. \A g \in Filters \ {f} : m_buffer'[g] = m_buffer[g]
    <3>1. \/ m_buffer' = m_buffer
          \/ m_buffer' = [m_buffer EXCEPT ![f] = Append(m_buffer[f], b)]
      BY <1>2 DEF Emit
    <3>2. Filters \subseteq AllFilters
      BY PipeIs
    <3> QED BY <1>3, <3>1, <3>2
  <2>2. f # 1 => f - 1 \in Filters \ {f}
    BY StreamsAre
  <2>3. /\ f = 1 => rest = From(source, k)
        /\ f # 1 => Holds(m_buffer[f - 1], f - 1, put[f - 1], k)
    BY <1>1 DEF FlowAt, k
  <2> QED BY <1>2, <2>1, <2>2, <2>3
<1>10. f = n => output' = SubSeq(O, 1, j + 1)
  <2> SUFFICES ASSUME f = n PROVE output' = SubSeq(O, 1, j + 1)
    OBVIOUS
  <2>1. output' = Append(output, b)
    BY <1>2 DEF Emit
  <2>2. output = SubSeq(O, 1, j)
    BY <1>1 DEF FlowAt, O, j
  <2>3. SubSeq(O, 1, j + 1) = Append(SubSeq(O, 1, j), O[j + 1])
    BY <1>5, <1>7, <1>8, OneMore
  <2> QED BY <1>7, <2>1, <2>2, <2>3
<1>11. f # n => output' = output /\ Holds(m_buffer'[f], f, j + 1, got[f + 1])
  <2> SUFFICES ASSUME f # n PROVE output' = output /\ Holds(m_buffer'[f], f, j + 1, got[f + 1])
    OBVIOUS
  <2>1. f + 1 \in Filters /\ f + 1 # 1 /\ f + 1 - 1 = f
    BY StreamsAre
  <2> DEFINE h == got[f + 1]
  <2>2. h \in Nat
    BY <2>1, PipeIs
  <2>3. Holds(m_buffer[f], f, j, h)
    <3>1. PICK e \in Filters : e = f + 1 /\ e # 1 /\ e - 1 = f
      BY <1>3, <2>1
    <3>2. Holds(m_buffer[e - 1], e - 1, put[e - 1], got[e])
      BY <1>1, <3>1 DEF FlowAt
    <3> QED BY <3>1, <3>2, Zenon DEF h, j
  <2> HIDE DEF h
  <2>4. h <= Len(Kept(O)[j]) /\ m_buffer[f] = From(Kept(O)[j], h)
    BY <2>3 DEF Holds, O
  <2>5. /\ h <= Len(Kept(O)[j + 1])
        /\ From(Kept(O)[j + 1], h) = Added(From(Kept(O)[j], h), b)
    <3>1. O \in Seq(Seq(STRING)) /\ j \in Nat /\ j + 1 \in 1 .. Len(O) /\ h \in Nat
          /\ h <= Len(Kept(O)[j]) /\ b = O[j + 1]
      BY <1>5, <1>7, <1>8, <2>2, <2>4
    <3> QED BY <3>1, KeptOn, Zenon
  <2>6. output' = output /\ m_buffer' = IF b = <<>> THEN m_buffer ELSE [m_buffer EXCEPT ![f] = Append(m_buffer[f], b)]
    BY <1>2 DEF Emit
  <2>7. m_buffer'[f] = IF b = <<>> THEN m_buffer[f] ELSE Append(m_buffer[f], b)
    BY <1>3, <2>6
  <2>8. m_buffer'[f] = From(Kept(O)[j + 1], h)
    BY <2>4, <2>5, <2>7 DEF Added
  <2> QED BY <2>5, <2>6, <2>8 DEF Holds, O, h
<1>12. Stands(m_Pipe[f], In(f), m_LineEnd, fpc'[f], st'[f], k, j + 1)
  BY <1>4, <1>7
<1>13. /\ f = Len(m_Pipe) => output' = SubSeq(Out(f), 1, j + 1)
       /\ f # Len(m_Pipe) => output' = output /\ Holds(m_buffer'[f], f, j + 1, got[f + 1])
  BY <1>10, <1>11 DEF O
<1> DEFINE i == j + 1
<1>14. i \in Nat
  BY <1>5
<1> HIDE DEF i
<1> QED BY <1>1, <1>2, <1>4, <1>5, <1>9, <1>12, <1>13, <1>14, FlowMoves DEF i

-----------------------------------------------------------------------------
\* What a filter has been given so far begins what it is given in the end, and
\* is all of that when the filter before it is done.
LEMMA GivenSoFar ==
    ASSUME TypeOK, NEW got \in [AllFilters -> Nat], NEW put \in [AllFilters -> Nat], FlowAt(got, put),
           NEW f \in Filters, f # 1
    PROVE  LET W == Kept(Out(f - 1))[put[f - 1]] IN
           /\ W \in Seq(Seq(STRING)) /\ Extends(In(f), W)
           /\ got[f] \in 0 .. Len(W) /\ m_buffer[f - 1] = From(W, got[f])
           /\ fpc[f - 1] = "done" => W = In(f)
<1> DEFINE O == Out(f - 1)
           j == put[f - 1]
<1>1. f - 1 \in Filters /\ In(f) = NonEmpty(O) /\ O \in Seq(Seq(STRING))
  BY StreamsAre
<1>2. /\ j \in 0 .. Len(O)
      /\ fpc[f - 1] = "done" => j = Len(O)
  BY <1>1 DEF FlowAt, Stands, Out
<1>3. f \in AllFilters /\ got[f] \in Nat
  BY PipeIs
<1>4. Holds(m_buffer[f - 1], f - 1, j, got[f])
  BY DEF FlowAt
<1>5. got[f] <= Len(Kept(O)[j]) /\ m_buffer[f - 1] = From(Kept(O)[j], got[f])
  BY <1>4 DEF Holds
<1> HIDE DEF O, j
<1>6. Kept(O)[j] \in Seq(Seq(STRING)) /\ Extends(In(f), Kept(O)[j])
  BY <1>1, <1>2, KeptAt
<1>7. fpc[f - 1] = "done" => Kept(O)[j] = In(f)
  BY <1>1, <1>2 DEF NonEmpty
<1>8. Len(Kept(O)[j]) \in Nat
  BY <1>6, LenProperties
<1> DEFINE m == Len(Kept(O)[j])
<1> HIDE DEF m
<1>9. got[f] \in 0 .. m
  BY <1>3, <1>5, <1>8 DEF m
<1> QED BY <1>5, <1>6, <1>7, <1>9 DEF O, j, m

\* A filter takes the next of its buffers,
LEMMA TakeFlows ==
    ASSUME TypeOK, phase # "new", NEW f \in Filters, NEW b, Take(f, b), fpc[f] \in {"read", "nap"},
           NEW k, NEW j, Stands(m_Pipe[f], In(f), m_LineEnd, fpc[f], st[f], k, j),
           k < Len(In(f)), b = In(f)[k + 1]
    PROVE  /\ Stands(m_Pipe[f], In(f), m_LineEnd, fpc'[f], st'[f], k + 1, j)
           /\ \A g \in AllFilters \ {f} : fpc'[g] = fpc[g] /\ st'[g] = st[g]
<1> DEFINE first == m_Pipe[f] = "separate" /\ st[f].old = <<>>
           to == IF first THEN "read" ELSE "write"
           s == IF first THEN [st[f] EXCEPT !.old = b] ELSE NewBuffer(st[f], b)
<1>1. f \in AllFilters /\ st \in [AllFilters -> FilterStates]
  BY PipeIs DEF TypeOK
<1>2. st' = [st EXCEPT ![f] = s] /\ Continue(f, to) /\ to \in FilterPcs
  BY DEF Take, FilterPcs
<1>3. GivenOK(m_Pipe[f], In(f), m_LineEnd) /\ CharsOK
  BY StreamsAre
<1>4. Stands(m_Pipe[f], In(f), m_LineEnd, to, s, k + 1, j)
  BY <1>3, StandsTakes
<1> HIDE DEF to, s
<1>5. fpc'[f] = to /\ \A g \in AllFilters \ {f} : fpc'[g] = fpc[g]
  BY <1>2, ContinueTypes
<1>6. st'[f] = s /\ \A g \in AllFilters \ {f} : st'[g] = st[g]
  BY <1>1, <1>2
<1> QED BY <1>4, <1>5, <1>6

\* or has taken them all.
LEMMA EndFlows ==
    ASSUME TypeOK, NEW f \in Filters, TakeEnd(f), fpc[f] \in {"read", "nap"},
           NEW j, Stands(m_Pipe[f], In(f), m_LineEnd, fpc[f], st[f], Len(In(f)), j)
    PROVE  /\ Stands(m_Pipe[f], In(f), m_LineEnd, fpc'[f], st'[f], Len(In(f)), j)
           /\ \A g \in AllFilters \ {f} : fpc'[g] = fpc[g] /\ st'[g] = st[g]
<1> DEFINE to == IF st[f].old # <<>> THEN "last" ELSE "done"
<1>1. GivenOK(m_Pipe[f], In(f), m_LineEnd) /\ CharsOK
  BY StreamsAre
<1>2. Continue(f, to) /\ to \in FilterPcs /\ UNCHANGED st
  BY DEF TakeEnd, FilterPcs
<1>3. Stands(m_Pipe[f], In(f), m_LineEnd, to, st[f], Len(In(f)), j)
  BY <1>1, StandsAtEnd
<1> HIDE DEF to
<1>4. fpc'[f] = to /\ \A g \in AllFilters \ {f} : fpc'[g] = fpc[g]
  BY <1>2, ContinueTypes
<1> QED BY <1>2, <1>3, <1>4

\* A step of filter f that is running touches no other filter and no other task.
Moved(f) ==
    /\ fpc[f] \notin {"off", "done"}
    /\ UNCHANGED <<setup, mainVars>>
    /\ \A g \in AllFilters \ {f} : fpc'[g] = fpc[g]
    /\ \A r \in Rounds, g \in AllFilters :
          \/ task'[<<r, g>>] = task[<<r, g>>]
          \/ fpc'[f] = "done" /\ r = round /\ g = f

\* A filter goes on and leaves the others alone.
LEMMA ContinueMoves ==
    ASSUME TypeOK, NEW f \in Filters, fpc[f] \notin {"off", "done"}, UNCHANGED <<setup, mainVars>>,
           NEW to \in FilterPcs, Continue(f, to)
    PROVE  Moved(f)
BY ContinueTypes DEF Moved

\* So does each of its steps.
LEMMA FilteringMoves ==
    ASSUME TypeOK, NEW f \in Filters, Filtering(f)
    PROVE  Moved(f)
<1>1. ASSUME NEW b, Take(f, b), fpc[f] \in {"read", "nap"}, UNCHANGED <<setup, mainVars>> PROVE Moved(f)
  <2> DEFINE to == IF m_Pipe[f] = "separate" /\ st[f].old = <<>> THEN "read" ELSE "write"
  <2>1. Continue(f, to) /\ to \in FilterPcs
    BY <1>1 DEF Take, FilterPcs
  <2> HIDE DEF to
  <2> QED BY <1>1, <2>1, ContinueMoves
<1>2. ASSUME TakeEnd(f), fpc[f] \in {"read", "nap"}, UNCHANGED <<setup, mainVars>> PROVE Moved(f)
  <2> DEFINE to == IF st[f].old # <<>> THEN "last" ELSE "done"
  <2>1. Continue(f, to) /\ to \in FilterPcs
    BY <1>2 DEF TakeEnd, FilterPcs
  <2> HIDE DEF to
  <2> QED BY <1>2, <2>1, ContinueMoves
<1>3. ASSUME NEW b, NEW s, NEW to \in FilterPcs, Writes(f, b, s, to), fpc[f] \in {"write", "last"}
      PROVE  Moved(f)
  <2>1. Continue(f, to) /\ UNCHANGED <<setup, mainVars>>
    BY <1>3 DEF Writes
  <2> QED BY <1>3, <2>1, ContinueMoves
<1>4. CASE ReadFile(f)
  BY <1>1, <1>2, <1>4 DEF ReadFile
<1>5. CASE ReadItem(f)
  BY <1>1, <1>5 DEF ReadItem, Looks
<1>6. CASE ReadSleeps(f)
  <2>1. Goto(f, "nap") /\ "nap" \in FilterPcs /\ fpc[f] = "read" /\ UNCHANGED <<setup, mainVars, task>>
    BY <1>6 DEF ReadSleeps, FilterPcs
  <2> QED BY <2>1, GotoTypes DEF Moved
<1>7. CASE ReadNothing(f)
  BY <1>2, <1>7 DEF ReadNothing, Looks
<1>8. CASE WriteBuffer(f)
  <2> DEFINE b == IF m_Pipe[f] = "copy" THEN st[f].buf ELSE st[f].buf \o NewLine(m_LineEnd)
             s == NewBuffer(st[f], <<>>)
  <2>1. Writes(f, b, s, "read") /\ fpc[f] = "write" /\ "read" \in FilterPcs
    BY <1>8 DEF WriteBuffer, FilterPcs
  <2> HIDE DEF b, s
  <2> QED BY <1>3, <2>1
<1>9. CASE WriteBefore(f)
  <2> DEFINE b == st[f].old \o NewLine(m_LineEnd)
             s == [st[f] EXCEPT !.old = st[f].buf, !.buf = <<>>]
  <2>1. Writes(f, b, s, "read") /\ fpc[f] = "write" /\ "read" \in FilterPcs
    BY <1>9 DEF WriteBefore, FilterPcs
  <2> HIDE DEF b, s
  <2> QED BY <1>3, <2>1
<1>10. CASE WriteLine(f)
  <2> DEFINE a == AfterLine(st[f], m_LineEnd)
             b == Line(st[f], m_LineEnd)
             s == IF a.test THEN SwapBuffers(a) ELSE a
             to == IF a.test THEN "read" ELSE "write"
  <2>1. Writes(f, b, s, to) /\ fpc[f] = "write" /\ to \in FilterPcs
    BY <1>10 DEF WriteLine, FilterPcs
  <2> HIDE DEF b, s, to
  <2> QED BY <1>3, <2>1
<1>11. CASE NoLine(f)
  <2>1. Continue(f, "read") /\ fpc[f] = "write" /\ "read" \in FilterPcs /\ UNCHANGED <<setup, mainVars>>
    BY <1>11 DEF NoLine, FilterPcs
  <2> QED BY <2>1, ContinueMoves
<1>12. CASE WriteLast(f)
  <2> DEFINE b == st[f].sub \o st[f].old
  <2>1. Writes(f, b, FilterStart, "done") /\ fpc[f] = "last" /\ "done" \in FilterPcs
    BY <1>12 DEF WriteLast, FilterPcs
  <2> HIDE DEF b
  <2> QED BY <1>3, <2>1
<1> QED BY <1>4, <1>5, <1>6, <1>7, <1>8, <1>9, <1>10, <1>11, <1>12 DEF Filtering

-----------------------------------------------------------------------------
(* One step of a filter                                                    *)

\* what a filter finds that moves
Flowing == TypeOK /\ phase # "new" /\ WellCut /\ Flow

\* The first filter takes the next buffer of the file.
LEMMA ReadFileFlows ==
    ASSUME Flowing, NEW f \in Filters, ReadFile(f)
    PROVE  Flow'
<1>1. PICK got \in [AllFilters -> Nat], put \in [AllFilters -> Nat] : FlowAt(got, put)
  BY DEF Flow, Flowing
<1>2. /\ TypeOK /\ phase # "new" /\ f = 1 /\ fpc[f] = "read"
      /\ UNCHANGED <<setup, phase, output, m_buffer>>
  BY DEF Flowing, ReadFile, mainVars
<1> DEFINE k == got[1]
           j == put[1]
           I == In(1)
<1>3. I = source /\ I \in Seq(Seq(STRING)) /\ Len(I) \in Nat /\ 1 \in Filters
  BY <1>2, StreamsAre
<1>4. Stands(m_Pipe[1], I, m_LineEnd, fpc[1], st[1], k, j) /\ rest = From(source, k)
  BY <1>1, <1>2, <1>3 DEF FlowAt
<1>5. k \in 0 .. Len(I)
  BY <1>4 DEF Stands
<1>6. k \in Nat /\ k + 1 \in Nat
  BY <1>5
<1> HIDE DEF k
<1>7. CASE rest # <<>> /\ Take(f, Head(rest)) /\ rest' = Tail(rest)
  <2>1. k < Len(I) /\ Head(rest) = I[k + 1] /\ Tail(rest) = From(source, k + 1)
    <3> HIDE DEF I
    <3> QED BY <1>3, <1>4, <1>5, <1>7, FromTakes
  <2> DEFINE b == Head(rest)
  <2> HIDE DEF b
  <2>2. Take(1, b) /\ b = In(1)[k + 1] /\ k < Len(In(1)) /\ fpc[1] \in {"read", "nap"}
    BY <1>2, <1>7, <2>1 DEF b
  <2>3. /\ Stands(m_Pipe[1], I, m_LineEnd, fpc'[1], st'[1], k + 1, j)
        /\ \A g \in AllFilters \ {1} : fpc'[g] = fpc[g] /\ st'[g] = st[g]
    BY <1>2, <1>3, <1>4, <2>2, TakeFlows
  <2>4. rest' = From(source, k + 1)
    BY <1>7, <2>1
  <2> DEFINE h == k + 1
  <2> HIDE DEF h
  <2>5. h \in Nat /\ Stands(m_Pipe[1], In(1), m_LineEnd, fpc'[1], st'[1], h, put[1]) /\ rest' = From(source, h)
    BY <1>6, <2>3, <2>4 DEF h
  <2>6. UNCHANGED <<setup, phase, output>> /\ \A g \in Filters \ {1 - 1} : m_buffer'[g] = m_buffer[g]
    BY <1>2
  <2> QED BY <1>1, <1>2, <1>3, <2>3, <2>5, <2>6, FlowReads
<1>8. CASE rest = <<>> /\ TakeEnd(f) /\ UNCHANGED rest
  <2>1. k = Len(I)
    <3> HIDE DEF I
    <3>1. From(I, k) = <<>> <=> k = Len(I)
      BY <1>3, <1>5, FromIs, ZenonT(30)
    <3>2. From(I, k) = <<>>
      BY <1>3, <1>4, <1>8
    <3> QED BY <3>1, <3>2
  <2>2. /\ Stands(m_Pipe[1], In(1), m_LineEnd, fpc'[1], st'[1], Len(In(1)), j)
        /\ \A g \in AllFilters \ {1} : fpc'[g] = fpc[g] /\ st'[g] = st[g]
    BY <1>2, <1>3, <1>4, <1>8, <2>1, EndFlows
  <2>3. Stands(m_Pipe[1], In(1), m_LineEnd, fpc'[1], st'[1], k, put[1])
    BY <2>1, <2>2
  <2>4. rest' = From(source, k)
    BY <1>4, <1>8
  <2> QED BY <1>1, <1>2, <1>3, <1>6, <2>2, <2>3, <2>4, FlowReads
<1> QED BY <1>7, <1>8 DEF ReadFile

\* A reader takes the first buffer of its connector.
LEMMA ReadItemFlows ==
    ASSUME Flowing, NEW f \in Filters, ReadItem(f)
    PROVE  Flow'
<1>1. PICK got \in [AllFilters -> Nat], put \in [AllFilters -> Nat] : FlowAt(got, put)
  BY DEF Flow, Flowing
<1> DEFINE b == Head(m_buffer[f - 1])
           k == got[f]
           j == put[f]
           h == k + 1
           W == Kept(Out(f - 1))[put[f - 1]]
<1>2. /\ TypeOK /\ phase # "new" /\ f # 1 /\ fpc[f] \in {"read", "nap"}
      /\ m_buffer[f - 1] # <<>> /\ Take(f, b)
      /\ m_buffer' = [m_buffer EXCEPT ![f - 1] = Tail(m_buffer[f - 1])]
      /\ UNCHANGED <<setup, phase, rest, output>>
  BY DEF Flowing, ReadItem, Looks, mainVars
<1>3. /\ W \in Seq(Seq(STRING)) /\ Extends(In(f), W)
      /\ k \in 0 .. Len(W) /\ m_buffer[f - 1] = From(W, k)
  BY <1>1, <1>2, GivenSoFar
<1>4. In(f) \in Seq(Seq(STRING)) /\ Len(In(f)) \in Nat /\ f - 1 \in Filters
  BY <1>2, StreamsAre
<1>5. Stands(m_Pipe[f], In(f), m_LineEnd, fpc[f], st[f], k, j)
  BY <1>1 DEF FlowAt
<1> HIDE DEF b, k, W
<1>6. k < Len(W) /\ h \in 0 .. Len(W) /\ Head(m_buffer[f - 1]) = W[h] /\ Tail(m_buffer[f - 1]) = From(W, h)
  BY <1>2, <1>3, FromTakes
<1>7. Len(W) \in Nat /\ Len(W) <= Len(In(f)) /\ \A p \in 1 .. Len(W) : In(f)[p] = W[p]
  BY <1>3, LenProperties DEF Extends
<1>8. k < Len(In(f)) /\ h \in 1 .. Len(W) /\ h \in Nat
  BY <1>3, <1>4, <1>6, <1>7
<1>9. b = In(f)[k + 1]
  BY <1>6, <1>7, <1>8 DEF b
<1>10. /\ Stands(m_Pipe[f], In(f), m_LineEnd, fpc'[f], st'[f], h, j)
       /\ \A g \in AllFilters \ {f} : fpc'[g] = fpc[g] /\ st'[g] = st[g]
  BY <1>2, <1>5, <1>8, <1>9, TakeFlows
<1> HIDE DEF h
<1>11. m_buffer'[f - 1] = From(W, h) /\ \A g \in Filters \ {f - 1} : m_buffer'[g] = m_buffer[g]
  <2>1. m_buffer \in [AllFilters -> Buffers] /\ Filters \subseteq AllFilters
    BY <1>2, PipeIs DEF TypeOK
  <2> QED BY <1>2, <1>4, <1>6, <2>1
<1>12. Holds(m_buffer'[f - 1], f - 1, put[f - 1], h)
  <2>1. h <= Len(W)
    BY <1>6, <1>7
  <2> QED BY <1>11, <2>1 DEF Holds, W
<1> QED BY <1>1, <1>2, <1>8, <1>10, <1>11, <1>12, FlowReads

\* A reader that finds nothing, and was not too early, has read all.
LEMMA ReadNothingFlows ==
    ASSUME Flowing, NEW f \in Filters, ReadNothing(f), ~starved'
    PROVE  Flow'
<1>1. PICK got \in [AllFilters -> Nat], put \in [AllFilters -> Nat] : FlowAt(got, put)
  BY DEF Flow, Flowing
<1> DEFINE k == got[f]
           j == put[f]
           W == Kept(Out(f - 1))[put[f - 1]]
<1>2. /\ TypeOK /\ phase # "new" /\ f # 1 /\ fpc[f] \in {"read", "nap"}
      /\ m_buffer[f - 1] = <<>> /\ TakeEnd(f) /\ fpc[f - 1] = "done"
      /\ UNCHANGED <<setup, phase, output, rest, m_buffer>>
  BY DEF Flowing, ReadNothing, Looks, mainVars, dataVars
<1>3. /\ W \in Seq(Seq(STRING)) /\ W = In(f) /\ k \in 0 .. Len(W) /\ m_buffer[f - 1] = From(W, k)
  BY <1>1, <1>2, GivenSoFar
<1>4. Stands(m_Pipe[f], In(f), m_LineEnd, fpc[f], st[f], k, j)
  BY <1>1 DEF FlowAt
<1>5. Holds(m_buffer[f - 1], f - 1, put[f - 1], k) /\ k \in Nat
  <2>1. f \in AllFilters
    BY <1>2, PipeIs
  <2> QED BY <1>1, <1>2, <2>1 DEF FlowAt
<1> HIDE DEF k, W
<1>6. k = Len(In(f))
  BY <1>2, <1>3, FromIs
<1>7. /\ Stands(m_Pipe[f], In(f), m_LineEnd, fpc'[f], st'[f], Len(In(f)), j)
      /\ \A g \in AllFilters \ {f} : fpc'[g] = fpc[g] /\ st'[g] = st[g]
  BY <1>2, <1>4, <1>6, EndFlows
<1>8. Stands(m_Pipe[f], In(f), m_LineEnd, fpc'[f], st'[f], k, put[f])
  BY <1>6, <1>7
<1> QED BY <1>1, <1>2, <1>5, <1>7, <1>8, FlowReads

\* Sleeping changes nothing.
LEMMA ReadSleepsFlows ==
    ASSUME Flowing, NEW f \in Filters, ReadSleeps(f)
    PROVE  Flow'
<1>1. /\ TypeOK /\ phase # "new" /\ Flow /\ Goto(f, "nap") /\ "nap" \in FilterPcs /\ fpc[f] = "read"
      /\ UNCHANGED <<setup, phase, st, dataVars>>
  BY DEF Flowing, ReadSleeps, FilterPcs, mainVars
<1>2. fpc'[f] = "nap" /\ \A g \in AllFilters \ {f} : fpc'[g] = fpc[g]
  BY <1>1, GotoTypes
<1>3. \A k, j : Stands(m_Pipe[f], In(f), m_LineEnd, fpc[f], st[f], k, j)
                  => Stands(m_Pipe[f], In(f), m_LineEnd, fpc'[f], st'[f], k, j)
  <2>1. GivenOK(m_Pipe[f], In(f), m_LineEnd)
    BY <1>1, StreamsAre
  <2> QED BY <1>1, <1>2, <2>1, StandsOn
<1> QED BY <1>1, <1>2, <1>3, FlowStays

\* A filter finds no line end, or it writes.
LEMMA NoLineFlows ==
    ASSUME Flowing, NEW f \in Filters, NoLine(f)
    PROVE  Flow'
<1> DEFINE s == SwapBuffers(Settle(st[f]))
<1>1. /\ TypeOK /\ phase # "new" /\ Flow /\ Continue(f, "read") /\ "read" \in FilterPcs
      /\ fpc[f] = "write" /\ m_Pipe[f] = "lines" /\ ~HasLine(st[f], m_LineEnd)
      /\ st' = [st EXCEPT ![f] = s]
      /\ UNCHANGED <<setup, phase, dataVars>>
  BY DEF Flowing, NoLine, FilterPcs, mainVars
<1>2. fpc'[f] = "read" /\ \A g \in AllFilters \ {f} : fpc'[g] = fpc[g]
  BY <1>1, ContinueTypes
<1>3. st'[f] = s /\ \A g \in AllFilters \ {f} : st'[g] = st[g]
  <2>1. f \in AllFilters /\ st \in [AllFilters -> FilterStates]
    BY <1>1, PipeIs DEF TypeOK
  <2> HIDE DEF s
  <2> QED BY <1>1, <2>1
<1>4. GivenOK("lines", In(f), m_LineEnd) /\ CharsOK
  BY <1>1, StreamsAre
<1>5. \A k, j : Stands(m_Pipe[f], In(f), m_LineEnd, fpc[f], st[f], k, j)
                  => Stands(m_Pipe[f], In(f), m_LineEnd, fpc'[f], st'[f], k, j)
  BY <1>1, <1>2, <1>3, <1>4, StandsNoLine
<1> QED BY <1>1, <1>2, <1>3, <1>5, FlowStays

LEMMA WriteBufferFlows ==
    ASSUME Flowing, NEW f \in Filters, WriteBuffer(f)
    PROVE  Flow'
<1> DEFINE b == IF m_Pipe[f] = "copy" THEN st[f].buf ELSE st[f].buf \o NewLine(m_LineEnd)
           s == NewBuffer(st[f], <<>>)
<1>1. /\ TypeOK /\ phase # "new" /\ Flow /\ Writes(f, b, s, "read") /\ "read" \in FilterPcs
      /\ fpc[f] = "write" /\ m_Pipe[f] \in {"copy", "append"} /\ UNCHANGED starved
  BY DEF Flowing, WriteBuffer, FilterPcs, Writes
<1>2. GivenOK(m_Pipe[f], In(f), m_LineEnd) /\ CharsOK
  BY <1>1, StreamsAre
<1>3. \A k, j : Stands(m_Pipe[f], In(f), m_LineEnd, fpc[f], st[f], k, j)
                  => WritesNext(m_Pipe[f], In(f), m_LineEnd, b, "read", s, k, j)
  BY <1>1, <1>2, StandsCopies
<1> HIDE DEF b, s
<1> QED BY <1>1, <1>3, FlowWrites

LEMMA WriteBeforeFlows ==
    ASSUME Flowing, NEW f \in Filters, WriteBefore(f)
    PROVE  Flow'
<1> DEFINE b == st[f].old \o NewLine(m_LineEnd)
           s == [st[f] EXCEPT !.old = st[f].buf, !.buf = <<>>]
<1>1. /\ TypeOK /\ phase # "new" /\ Flow /\ Writes(f, b, s, "read") /\ "read" \in FilterPcs
      /\ fpc[f] = "write" /\ m_Pipe[f] = "separate" /\ UNCHANGED starved
  BY DEF Flowing, WriteBefore, FilterPcs, Writes
<1>2. GivenOK("separate", In(f), m_LineEnd) /\ CharsOK
  BY <1>1, StreamsAre
<1>3. \A k, j : Stands(m_Pipe[f], In(f), m_LineEnd, fpc[f], st[f], k, j)
                  => WritesNext(m_Pipe[f], In(f), m_LineEnd, b, "read", s, k, j)
  BY <1>1, <1>2, StandsSeparates
<1> HIDE DEF b, s
<1> QED BY <1>1, <1>3, FlowWrites

\* The step that needs the buffers cut well.
LEMMA WriteLineFlows ==
    ASSUME Flowing, NEW f \in Filters, WriteLine(f)
    PROVE  Flow'
<1> DEFINE a == AfterLine(st[f], m_LineEnd)
           b == Line(st[f], m_LineEnd)
           s == IF a.test THEN SwapBuffers(a) ELSE a
           to == IF a.test THEN "read" ELSE "write"
<1>1. /\ TypeOK /\ phase # "new" /\ Flow /\ Writes(f, b, s, to) /\ to \in FilterPcs
      /\ fpc[f] = "write" /\ m_Pipe[f] = "lines" /\ HasLine(st[f], m_LineEnd) /\ UNCHANGED starved
  BY DEF Flowing, WriteLine, FilterPcs, Writes
<1>2. GivenOK("lines", In(f), m_LineEnd) /\ CharsOK /\ CutOK("lines", In(f), m_LineEnd)
  BY <1>1, StreamsAre DEF Flowing, WellCut
<1>3. \A k, j : Stands(m_Pipe[f], In(f), m_LineEnd, fpc[f], st[f], k, j)
                  => WritesNext(m_Pipe[f], In(f), m_LineEnd, b, to, s, k, j)
  BY <1>1, <1>2, StandsLine
<1> HIDE DEF b, s, to
<1> QED BY <1>1, <1>3, FlowWrites

LEMMA WriteLastFlows ==
    ASSUME Flowing, NEW f \in Filters, WriteLast(f)
    PROVE  Flow'
<1> DEFINE b == st[f].sub \o st[f].old
<1>1. /\ TypeOK /\ phase # "new" /\ Flow /\ Writes(f, b, FilterStart, "done") /\ "done" \in FilterPcs
      /\ fpc[f] = "last" /\ UNCHANGED starved
  BY DEF Flowing, WriteLast, FilterPcs, Writes
<1>2. GivenOK(m_Pipe[f], In(f), m_LineEnd) /\ CharsOK
  BY <1>1, StreamsAre
<1>3. \A k, j : Stands(m_Pipe[f], In(f), m_LineEnd, fpc[f], st[f], k, j)
                  => WritesNext(m_Pipe[f], In(f), m_LineEnd, b, "done", FilterStart, k, j)
  BY <1>1, <1>2, StandsLast
<1> HIDE DEF b
<1> QED BY <1>1, <1>3, FlowWrites

-----------------------------------------------------------------------------
(* One step of do_pipe or of a filter                                      *)

\* A filter that is running.
LEMMA FilteringFlows ==
    ASSUME FlowInv, NEW f \in Filters, Filtering(f)
    PROVE  FlowInv'
<1>1. TypeOK /\ TypeOK' /\ NewInv /\ TaskInv /\ DoneInv
  <2>1. [Next]_vars
    BY DEF Next, Filter
  <2> QED BY <2>1, TypeStep DEF FlowInv
<1>2. Moved(f) /\ f \in AllFilters
  BY <1>1, FilteringMoves, PipeIs
<1>3. UNCHANGED <<setup, phase, round, added>> /\ Filters' = Filters
  BY <1>2, StreamsStay DEF Moved, mainVars
<1>4. phase # "new"
  BY <1>1, <1>2 DEF Moved, NewInv
<1>5. NewInv'
  BY <1>1, <1>3, <1>4 DEF NewInv
<1>6. DoneInv'
  BY <1>1, <1>2, <1>3 DEF Moved, DoneInv
<1>7. TaskInv'
  <2>1. ASSUME NEW r \in Rounds, NEW g \in AllFilters, r > round PROVE task'[<<r, g>>] = "new"
    <3>1. r # round
      <4>1. r \in Nat /\ round \in Nat
        BY <1>1, PipeAssumption DEF PipeAssumption, Rounds, TypeOK
      <4> QED BY <2>1, <4>1
    <3> QED BY <1>1, <1>2, <2>1, <3>1 DEF TaskInv, Moved
  <2>2. ASSUME NEW g \in AllFilters, round > 0, task'[<<round, g>>] = "finished" PROVE fpc'[g] = "done"
    <3>1. round \in Rounds
      BY <1>1, <2>2, PipeAssumption DEF PipeAssumption, Rounds, TypeOK
    <3>2. CASE task'[<<round, g>>] = task[<<round, g>>]
      <4>1. fpc[g] = "done" /\ g # f
        BY <1>1, <1>2, <2>2, <3>2 DEF TaskInv, Moved
      <4> QED BY <1>2, <4>1 DEF Moved
    <3>3. CASE fpc'[f] = "done" /\ g = f
      BY <3>3
    <3> QED BY <1>2, <3>1, <3>2, <3>3 DEF Moved
  <2> QED BY <1>3, <2>1, <2>2 DEF TaskInv
<1>8. ASSUME WellCut', ~starved' PROVE Flow'
  <2>1. WellCut
    BY <1>3, <1>8, StreamsStay
  <2>2. ~starved
    BY <1>8 DEF Filtering, ReadFile, ReadItem, ReadSleeps, ReadNothing, WriteBuffer, WriteBefore,
                WriteLine, NoLine, WriteLast, Writes
  <2>3. Flowing
    BY <1>4, <2>1, <2>2 DEF FlowInv, Flowing
  <2> QED BY <1>8, <2>3, ReadFileFlows, ReadItemFlows, ReadSleepsFlows, ReadNothingFlows,
             WriteBufferFlows, WriteBeforeFlows, WriteLineFlows, NoLineFlows, WriteLastFlows
          DEF Filtering
<1> QED BY <1>1, <1>5, <1>6, <1>7, <1>8 DEF FlowInv

\* A filter that begins.
LEMMA BeginFlows ==
    ASSUME FlowInv, NEW f \in Filters, Begin(f)
    PROVE  FlowInv'
<1>1. TypeOK /\ TypeOK' /\ NewInv /\ TaskInv /\ DoneInv
  BY BeginTypes DEF FlowInv
<1>2. /\ fpc[f] = "off" /\ fpc' = [fpc EXCEPT ![f] = "read"] /\ phase \in {"adding", "waiting"}
      /\ UNCHANGED <<setup, phase, round, st, dataVars, starved>>
  BY DEF Begin, mainVars
<1>3. f \in AllFilters /\ Filters' = Filters /\ fpc \in [AllFilters -> FilterPcs]
  BY <1>1, <1>2, PipeIs, StreamsStay DEF TypeOK
<1>4. fpc'[f] = "read" /\ \A g \in AllFilters \ {f} : fpc'[g] = fpc[g]
  BY <1>2, <1>3
<1>5. NewInv' /\ DoneInv'
  BY <1>1, <1>2 DEF NewInv, DoneInv
<1>6. TaskInv'
  <2>1. \A r \in Rounds, g \in AllFilters :
           task'[<<r, g>>] = task[<<r, g>>] \/ (r = round /\ g = f /\ task'[<<r, g>>] = "running")
    BY <1>1, BeginTypes
  <2>2. ASSUME NEW r \in Rounds, NEW g \in AllFilters, r > round PROVE task'[<<r, g>>] = "new"
    <3>1. r # round
      <4>1. r \in Nat /\ round \in Nat
        BY <1>1, PipeAssumption DEF PipeAssumption, Rounds, TypeOK
      <4> QED BY <2>2, <4>1
    <3> QED BY <1>1, <2>1, <2>2, <3>1 DEF TaskInv
  <2>3. ASSUME NEW g \in AllFilters, round > 0, task'[<<round, g>>] = "finished" PROVE fpc'[g] = "done"
    <3>1. round \in Rounds
      BY <1>1, <2>3, PipeAssumption DEF PipeAssumption, Rounds, TypeOK
    <3>2. fpc[g] = "done"
      BY <1>1, <2>1, <2>3, <3>1 DEF TaskInv
    <3> QED BY <1>2, <1>4, <3>2
  <2> QED BY <1>2, <2>2, <2>3 DEF TaskInv
<1>7. ASSUME WellCut', ~starved' PROVE Flow'
  <2>1. WellCut /\ Flow
    BY <1>2, <1>7, StreamsStay DEF FlowInv
  <2>2. GivenOK(m_Pipe[f], In(f), m_LineEnd)
    BY <1>1, StreamsAre
  <2>3. \A k, j : Stands(m_Pipe[f], In(f), m_LineEnd, fpc[f], st[f], k, j)
                    => Stands(m_Pipe[f], In(f), m_LineEnd, fpc'[f], st'[f], k, j)
    BY <1>2, <1>4, <2>2, StandsOn
  <2> QED BY <1>1, <1>2, <1>4, <2>1, <2>3, FlowStays
<1> QED BY <1>1, <1>5, <1>6, <1>7 DEF FlowInv

\* Nothing has been read.
LEMMA FromAll ==
    ASSUME NEW S, NEW s \in Seq(S)
    PROVE  From(s, 0) = s
<1> DEFINE x == From(s, 0)
           l == Len(s)
<1>1. l \in Nat /\ 0 \in 0 .. l
  BY LenProperties
<1>2. x \in Seq(S) /\ Len(x) = l - 0 /\ \A i \in 1 .. l - 0 : x[i] = s[0 + i]
  BY <1>1, FromIs
<1> HIDE DEF x, l
<1>3. Len(x) = l /\ \A i \in 1 .. l : x[i] = s[i]
  BY <1>1, <1>2
<1>4. x = s
  BY <1>2, <1>3, SeqEqual DEF l
<1> QED BY <1>4 DEF x

\* Nothing has been written, and nothing is in the connector.
LEMMA HoldsNothing ==
    ASSUME NEW f, Out(f) \in Seq(Seq(STRING))
    PROVE  Holds(<<>>, f, 0, 0)
<1>1. Kept(Out(f))[0] = <<>>
  BY KeptIs
<1>2. <<>> \in Seq(Seq(STRING)) /\ Len(<<>>) = 0 /\ 0 \in 0 .. Len(<<>>)
  BY EmptySeq
<1>3. From(<<>>, 0) = <<>>
  BY <1>2, FromIs
<1> QED BY <1>1, <1>2, <1>3 DEF Holds

\* Nothing of a sequence.
LEMMA NoneOf ==
    ASSUME NEW S, NEW s \in Seq(S)
    PROVE  SubSeq(s, 1, 0) = <<>>
<1>1. 0 \in 0 .. Len(s)
  BY LenProperties
<1> QED BY <1>1, FirstOf

\* When the filters are opened everything has been taken from the connectors.
LEMMA OpenFlows ==
    ASSUME FlowInv, Open
    PROVE  FlowInv'
<1>1. TypeOK /\ TypeOK' /\ NewInv /\ TaskInv /\ DoneInv
  BY OpenTypes DEF FlowInv
<1>2. /\ phase \in {"new", "returned"} /\ phase' = "adding" /\ round' = round + 1
      /\ rest' = source /\ output' = <<>>
      /\ fpc' = [f \in AllFilters |-> "off"] /\ st' = [f \in AllFilters |-> FilterStart]
      /\ UNCHANGED <<setup, task, m_buffer, starved>>
  BY DEF Open
<1>3. NewInv' /\ DoneInv'
  <2>1. round' > 0
    BY <1>1, <1>2 DEF TypeOK
  <2> QED BY <1>2, <2>1 DEF NewInv, DoneInv
<1>4. TaskInv'
  <2>1. round \in Nat /\ round' \in Rounds /\ \A r \in Rounds : r \in Nat
    BY <1>1, <1>2, PipeAssumption DEF PipeAssumption, Rounds, TypeOK, Open
  <2>2. \A f \in AllFilters : task'[<<round', f>>] = "new"
    BY <1>1, <1>2, <2>1 DEF TaskInv
  <2>3. \A r \in Rounds, f \in AllFilters : r > round' => task'[<<r, f>>] = "new"
    BY <1>1, <1>2, <2>1 DEF TaskInv
  <2> QED BY <2>2, <2>3 DEF TaskInv
<1>5. ASSUME WellCut', ~starved' PROVE Flow'
  <2> DEFINE n == Len(m_Pipe)
             zero == [f \in AllFilters |-> 0]
  <2>1. /\ UNCHANGED <<m_Pipe, m_LineEnd, source>> /\ Filters' = Filters
        /\ (\A f : In(f)' = In(f) /\ Out(f)' = Out(f)) /\ WellCut
    BY <1>2, <1>5, StreamsStay
  <2>2. ASSUME NEW f \in Filters, f # 1 PROVE m_buffer[f - 1] = <<>>
    <3>1. f - 1 \in Filters /\ f - 1 \in AllFilters
      BY <1>1, <2>2, StreamsAre, PipeIs
    <3>2. CASE phase = "new"
      BY <1>1, <3>1, <3>2 DEF NewInv
    <3>3. CASE phase = "returned"
      <4>1. fpc[f] = "done" /\ fpc[f - 1] = "done"
        BY <1>1, <3>1, <3>3 DEF DoneInv
      <4>2. PICK got \in [AllFilters -> Nat], put \in [AllFilters -> Nat] : FlowAt(got, put)
        BY <1>2, <1>5, <2>1 DEF FlowInv, Flow
      <4>3. In(f) \in Seq(Seq(STRING)) /\ got[f] = Len(In(f))
        <5>1. Stands(m_Pipe[f], In(f), m_LineEnd, fpc[f], st[f], got[f], put[f])
          BY <4>2 DEF FlowAt
        <5> QED BY <1>1, <4>1, <5>1, StreamsAre DEF Stands
      <4>4. m_buffer[f - 1] = From(In(f), got[f]) /\ got[f] \in 0 .. Len(In(f))
        BY <1>1, <2>2, <4>1, <4>2, GivenSoFar
      <4> QED BY <4>3, <4>4, FromIs
    <3> QED BY <1>2, <3>2, <3>3
  <2>3. /\ 1 \in Filters /\ n \in Filters /\ In(1) = source /\ CharsOK
        /\ \A f \in Filters : GivenOK(m_Pipe[f], In(f), m_LineEnd)
        /\ \A f \in Filters : Out(f) \in Seq(Seq(STRING))
        /\ \A f \in Filters : f # 1 => f - 1 \in Filters
    BY <1>1, StreamsAre
  <2>4. Filters \subseteq AllFilters /\ source \in Seq(Seq(STRING))
    BY <1>1, PipeIs, StatesAre
  <2>5. zero \in [AllFilters -> Nat] /\ \A f \in AllFilters : zero[f] = 0
    OBVIOUS
  <2> HIDE DEF zero, n
  <2>6. ASSUME NEW f \in Filters PROVE Stands(m_Pipe[f], In(f), m_LineEnd, fpc'[f], st'[f], zero[f], zero[f])
    <3>1. fpc'[f] = "off" /\ st'[f] = FilterStart /\ zero[f] = 0
      BY <1>2, <2>4, <2>5
    <3>2. Stands(m_Pipe[f], In(f), m_LineEnd, "off", FilterStart, 0, 0)
      BY <2>3, StandsFirst
    <3> QED BY <3>1, <3>2
  <2>7. rest' = From(source, zero[1])
    BY <1>2, <2>3, <2>4, <2>5, FromAll
  <2>8. ASSUME NEW f \in Filters, f # 1 PROVE Holds(m_buffer'[f - 1], f - 1, zero[f - 1], zero[f])
    <3>1. f - 1 \in AllFilters /\ zero[f - 1] = 0 /\ zero[f] = 0 /\ Out(f - 1) \in Seq(Seq(STRING))
      BY <2>3, <2>4, <2>5, <2>8
    <3>2. m_buffer'[f - 1] = <<>>
      BY <1>2, <2>2, <2>8
    <3> QED BY <3>1, <3>2, HoldsNothing
  <2>9. output' = SubSeq(Out(n), 1, zero[n])
    <3>1. zero[n] = 0 /\ Out(n) \in Seq(Seq(STRING))
      BY <2>3, <2>4, <2>5
    <3> QED BY <1>2, <3>1, NoneOf
  <2>10. FlowAt(zero, zero)'
    <3>1. \A f \in Filters' : Stands(m_Pipe'[f], In(f)', m_LineEnd', fpc'[f], st'[f], zero[f], zero[f])
      BY <2>1, <2>6
    <3>2. rest' = From(source', zero[1])
      BY <2>1, <2>7
    <3>3. \A f \in Filters' : f # 1 => Holds(m_buffer[f - 1], f - 1, zero[f - 1], zero[f])'
      BY <2>1, <2>8 DEF Holds
    <3>4. output' = SubSeq(Out(Len(m_Pipe))', 1, zero[Len(m_Pipe')])
      BY <2>1, <2>9 DEF n
    <3>5. zero' = zero
      BY DEF zero, AllFilters, MaxFilters
    <3> QED BY <3>1, <3>2, <3>3, <3>4, <3>5, <2>1 DEF FlowAt
  <2> QED BY <2>5, <2>10 DEF Flow
<1> QED BY <1>1, <1>3, <1>4, <1>5 DEF FlowInv

\* Where no filter moves and no data, Flow stays.
LEMMA FlowRemains ==
    ASSUME UNCHANGED <<setup, fpc, st, dataVars, starved>>, phase = "new" <=> phase' = "new",
           WellCut /\ ~starved => Flow
    PROVE  WellCut' /\ ~starved' => Flow'
<1> SUFFICES ASSUME WellCut', ~starved' PROVE Flow'
  OBVIOUS
<1>1. /\ UNCHANGED <<m_Pipe, m_LineEnd, source, fpc, st, rest, m_buffer, output, starved>> /\ Filters' = Filters
      /\ (\A f : In(f)' = In(f) /\ Out(f)' = Out(f)) /\ WellCut
  BY StreamsStay DEF dataVars
<1>2. PICK got \in [AllFilters -> Nat], put \in [AllFilters -> Nat] : FlowAt(got, put)
  BY <1>1 DEF Flow
<1>3. FlowAt(got, put)'
  <2>1. /\ \A f \in Filters' : Stands(m_Pipe'[f], In(f)', m_LineEnd', fpc'[f], st'[f], got[f], put[f])
        /\ phase' # "new" => rest' = From(source', got[1])
        /\ output' = SubSeq(Out(Len(m_Pipe))', 1, put[Len(m_Pipe')])
    BY <1>1, <1>2 DEF FlowAt
  <2>2. \A f \in Filters' : f # 1 => Holds(m_buffer[f - 1], f - 1, put[f - 1], got[f])'
    <3>1. \A f \in Filters : f # 1 => Holds(m_buffer[f - 1], f - 1, put[f - 1], got[f])
      BY <1>2 DEF FlowAt
    <3> QED BY <1>1, <3>1 DEF Holds
  <2> QED BY <2>1, <2>2 DEF FlowAt
<1> QED BY <1>3 DEF Flow

\* A task is added.
LEMMA AddTaskFlows ==
    ASSUME FlowInv, AddTask
    PROVE  FlowInv'
<1>1. TypeOK /\ TypeOK' /\ NewInv /\ TaskInv /\ DoneInv
  BY AddTaskTypes DEF FlowInv
<1>2. /\ phase = "adding" /\ task' = [task EXCEPT ![<<round, added'>>] = "queued"]
      /\ UNCHANGED <<setup, phase, round, fpc, st, dataVars, starved>>
  BY DEF AddTask, Pool!Queue, Pool!Move
<1>3. NewInv' /\ DoneInv'
  BY <1>1, <1>2 DEF NewInv, DoneInv
<1>4. TaskInv'
  <2> DEFINE k == <<round, added'>>
  <2>1. \A r \in Rounds, g \in AllFilters : <<r, g>> # k => task'[<<r, g>>] = task[<<r, g>>]
    <3> HIDE DEF k
    <3>1. task' = [task EXCEPT ![k] = "queued"]
      BY <1>2 DEF k
    <3> QED BY <1>1, <3>1, MoveTypes DEF Pool!Statuses
  <2>2. ASSUME NEW r \in Rounds, NEW g \in AllFilters, r > round PROVE task'[<<r, g>>] = "new"
    <3>1. r # round
      <4>1. r \in Nat /\ round \in Nat
        BY <1>1, PipeAssumption DEF PipeAssumption, Rounds, TypeOK
      <4> QED BY <2>2, <4>1
    <3> QED BY <1>1, <2>1, <2>2, <3>1 DEF TaskInv
  <2>3. ASSUME NEW g \in AllFilters, round > 0, task'[<<round, g>>] = "finished" PROVE fpc'[g] = "done"
    <3>1. round \in Rounds
      BY <1>1, <2>3, PipeAssumption DEF PipeAssumption, Rounds, TypeOK
    <3>2. CASE g = added'
      <4>1. task \in [Rounds \X AllFilters -> Pool!Statuses] /\ <<round, g>> \in Rounds \X AllFilters
        BY <1>1, <3>1 DEF TypeOK
      <4>2. task'[<<round, g>>] = "queued"
        BY <1>2, <3>2, <4>1
      <4> QED BY <2>3, <4>2
    <3>3. CASE g # added'
      BY <1>1, <1>2, <2>1, <2>3, <3>1, <3>3 DEF TaskInv
    <3> QED BY <3>2, <3>3
  <2> QED BY <1>2, <2>2, <2>3 DEF TaskInv
<1>5. WellCut' /\ ~starved' => Flow'
  BY <1>2, FlowRemains DEF FlowInv
<1> QED BY <1>1, <1>3, <1>4, <1>5 DEF FlowInv

\* do_pipe returns when every task is finished, or every filter is done.
LEMMA ReturnFlows ==
    ASSUME FlowInv, Return
    PROVE  FlowInv'
<1>1. TypeOK /\ TypeOK' /\ NewInv /\ TaskInv /\ DoneInv
  BY ReturnTypes DEF FlowInv
<1>2. phase' = "returned" /\ UNCHANGED <<setup, round, filterVars, dataVars, starved>>
  BY DEF Return
<1>3. UNCHANGED <<fpc, st>> /\ Filters' = Filters
  BY <1>2, StreamsStay DEF filterVars
<1>4. phase # "new" /\ \A f \in Filters : fpc[f] = "done"
  <2>1. CASE threaded
    <3>1. phase = "waiting" /\ \A f \in Filters : task[<<round, f>>] = "finished"
      BY <2>1 DEF Return
    <3>2. round > 0
      BY <1>1, <3>1 DEF NewInv
    <3> QED BY <1>1, <3>1, <3>2, PipeIs DEF TaskInv
  <2>2. CASE ~threaded
    BY <2>2 DEF Return
  <2> QED BY <2>1, <2>2
<1>5. NewInv' /\ DoneInv'
  BY <1>1, <1>2, <1>3, <1>4 DEF NewInv, DoneInv
<1>6. TaskInv'
  <2>1. \A r \in Rounds, g \in AllFilters :
           \/ task'[<<r, g>>] = task[<<r, g>>]
           \/ task[<<r, g>>] \in {"queued", "finished"} /\ task'[<<r, g>>] = "lost"
    <3>1. CASE UNCHANGED task
      BY <3>1
    <3>2. CASE Pool!Lose
      BY <3>2 DEF Pool!Lose
    <3> QED BY <3>1, <3>2 DEF Return
  <2>2. MaxRounds \in Nat
    BY PipeAssumption DEF PipeAssumption
  <2>3. round > 0 => round \in Rounds
    BY <1>1, <2>2 DEF Rounds, TypeOK
  <2>4. \A r \in Rounds, g \in AllFilters : r > round => task'[<<r, g>>] = "new"
    BY <1>1, <2>1 DEF TaskInv
  <2>5. \A g \in AllFilters : round > 0 /\ task'[<<round, g>>] = "finished" => fpc[g] = "done"
    BY <1>1, <2>1, <2>3 DEF TaskInv
  <2> QED BY <1>2, <1>3, <2>4, <2>5 DEF TaskInv
<1>7. WellCut' /\ ~starved' => Flow'
  BY <1>2, <1>3, <1>4, FlowRemains DEF FlowInv
<1> QED BY <1>1, <1>5, <1>6, <1>7 DEF FlowInv

\* The steps that change neither task nor filters.
LEMMA OthersFlow ==
    ASSUME FlowInv, TypeOK', UNCHANGED <<setup, round, task, fpc, st, dataVars, starved>>,
           \/ UNCHANGED phase
           \/ phase = "adding" /\ phase' = "waiting"
    PROVE  FlowInv'
<1>1. NewInv /\ TaskInv /\ DoneInv /\ Filters' = Filters /\ UNCHANGED <<m_buffer>>
  BY StreamsStay DEF FlowInv, dataVars
<1>2. NewInv' /\ TaskInv' /\ DoneInv'
  BY <1>1 DEF NewInv, TaskInv, DoneInv
<1>3. WellCut' /\ ~starved' => Flow'
  BY FlowRemains DEF FlowInv
<1> QED BY <1>2, <1>3 DEF FlowInv

\* Every step keeps what is said about the flow.
LEMMA FlowStep == FlowInv /\ [Next]_vars => FlowInv'
<1> SUFFICES ASSUME FlowInv, [Next]_vars PROVE FlowInv'
  OBVIOUS
<1>0. TypeOK'
  BY TypeStep DEF FlowInv
<1>1. CASE Open
  BY <1>1, OpenFlows
<1>2. CASE AddTask
  BY <1>2, AddTaskFlows
<1>3. CASE Unlock
  BY <1>0, <1>3, OthersFlow DEF Unlock, filterVars
<1>4. CASE Return
  BY <1>4, ReturnFlows
<1>5. CASE Tick
  BY <1>0, <1>5, OthersFlow DEF Tick, mainVars
<1>6. ASSUME NEW f \in Filters, Begin(f) PROVE FlowInv'
  BY <1>6, BeginFlows
<1>7. ASSUME NEW f \in Filters, Filtering(f) PROVE FlowInv'
  BY <1>7, FilteringFlows
<1>8. CASE UNCHANGED vars
  BY <1>0, <1>8, OthersFlow DEF vars, mainVars, filterVars
<1> QED BY <1>1, <1>2, <1>3, <1>4, <1>5, <1>6, <1>7, <1>8 DEF Next, Main, Filter

\* Before the first call.
LEMMA FlowInit == Init => FlowInv
<1> SUFFICES ASSUME Init PROVE FlowInv
  OBVIOUS
<1>1. TypeOK
  BY TypeInit
<1>2. /\ phase = "new" /\ round = 0 /\ fpc = [f \in AllFilters |-> "off"]
      /\ st = [f \in AllFilters |-> FilterStart] /\ m_buffer = [f \in AllFilters |-> <<>>]
      /\ output = <<>> /\ task = [k \in Rounds \X AllFilters |-> "new"]
  BY DEF Init, Pool!BoardInit
<1>3. NewInv /\ TaskInv /\ DoneInv
  BY <1>2 DEF NewInv, TaskInv, DoneInv
<1>4. Flow
  <2> DEFINE zero == [f \in AllFilters |-> 0]
             n == Len(m_Pipe)
  <2>1. zero \in [AllFilters -> Nat] /\ \A f \in AllFilters : zero[f] = 0
    OBVIOUS
  <2>2. /\ n \in Filters /\ CharsOK /\ Filters \subseteq AllFilters
        /\ \A f \in Filters : GivenOK(m_Pipe[f], In(f), m_LineEnd)
        /\ \A f \in Filters : Out(f) \in Seq(Seq(STRING))
        /\ \A f \in Filters : f # 1 => f - 1 \in Filters
    BY <1>1, StreamsAre, PipeIs
  <2> HIDE DEF zero, n
  <2>3. ASSUME NEW f \in Filters PROVE Stands(m_Pipe[f], In(f), m_LineEnd, fpc[f], st[f], zero[f], zero[f])
    <3>1. Stands(m_Pipe[f], In(f), m_LineEnd, "off", FilterStart, 0, 0)
      BY <2>2, StandsFirst
    <3> QED BY <1>2, <2>1, <2>2, <3>1
  <2>4. ASSUME NEW f \in Filters, f # 1 PROVE Holds(m_buffer[f - 1], f - 1, zero[f - 1], zero[f])
    <3>1. m_buffer[f - 1] = <<>> /\ zero[f - 1] = 0 /\ zero[f] = 0 /\ Out(f - 1) \in Seq(Seq(STRING))
      BY <1>2, <2>1, <2>2, <2>4
    <3> QED BY <3>1, HoldsNothing
  <2>5. output = SubSeq(Out(n), 1, zero[n])
    <3>1. zero[n] = 0 /\ Out(n) \in Seq(Seq(STRING))
      BY <2>1, <2>2
    <3> QED BY <1>2, <3>1, NoneOf
  <2>6. FlowAt(zero, zero)
    BY <1>2, <2>3, <2>4, <2>5 DEF FlowAt, n
  <2> QED BY <2>1, <2>6 DEF Flow
<1> QED BY <1>1, <1>3, <1>4 DEF FlowInv

\* What has flowed through is a beginning of what has to come out, and all of
\* it when every filter is done.
LEMMA FlowDelivers == FlowInv /\ WellCut => Delivers
<1> SUFFICES ASSUME FlowInv, WellCut, ~starved
             PROVE  IsPrefix(output, Expected) /\ (phase = "returned" => output = Expected)
  BY DEF Delivers
<1> DEFINE n == Len(m_Pipe)
           O == Out(n)
<1>1. TypeOK /\ DoneInv
  BY DEF FlowInv
<1>2. n \in Filters /\ Filters \subseteq AllFilters /\ Expected = O /\ O \in Seq(Seq(STRING))
      /\ Len(O) \in Nat
  BY <1>1, StreamsAre, PipeIs
<1>3. PICK got \in [AllFilters -> Nat], put \in [AllFilters -> Nat] : FlowAt(got, put)
  BY DEF FlowInv, Flow
<1> DEFINE j == put[n]
<1>4. output = SubSeq(O, 1, j) /\ j \in 0 .. Len(O) /\ (fpc[n] = "done" => j = Len(O))
  <2>1. Stands(m_Pipe[n], In(n), m_LineEnd, fpc[n], st[n], got[n], put[n])
    BY <1>2, <1>3 DEF FlowAt
  <2> QED BY <1>3, <2>1 DEF FlowAt, Stands, Out
<1> HIDE DEF O, j, n
<1>5. \A q \in 0 .. Len(O) : /\ SubSeq(O, 1, q) \in Seq(Seq(STRING)) /\ Len(SubSeq(O, 1, q)) = q
                             /\ \A i \in 1 .. q : SubSeq(O, 1, q)[i] = O[i]
  BY <1>2, FirstOf
<1>6. SubSeq(O, 1, Len(O)) = O
  <2> DEFINE x == SubSeq(O, 1, Len(O))
  <2>1. x \in Seq(Seq(STRING)) /\ Len(x) = Len(O) /\ \A i \in 1 .. Len(O) : x[i] = O[i]
    BY <1>2, <1>5
  <2> HIDE DEF x
  <2>2. x = O
    BY <1>2, <2>1, SeqEqual
  <2> QED BY <2>2 DEF x
<1>7. IsPrefix(output, O)
  <2>1. output \in Seq(Seq(STRING)) /\ Len(output) = j /\ j <= Len(O)
    BY <1>2, <1>4, <1>5
  <2>2. SubSeq(output, 1, Len(output)) = output
    <3> DEFINE x == SubSeq(output, 1, Len(output))
    <3>1. Len(output) \in 0 .. Len(output)
      BY <2>1, LenProperties
    <3>2. x \in Seq(Seq(STRING)) /\ Len(x) = Len(output) /\ \A i \in 1 .. Len(output) : x[i] = output[i]
      BY <2>1, <3>1, FirstOf
    <3> HIDE DEF x
    <3>3. x = output
      BY <2>1, <3>2, SeqEqual
    <3> QED BY <3>3 DEF x
  <2> QED BY <1>4, <2>1, <2>2 DEF IsPrefix
<1>8. phase = "returned" => output = O
  BY <1>1, <1>2, <1>4, <1>6 DEF DoneInv
<1> QED BY <1>2, <1>7, <1>8

\* Whatever the input file is cut into, as long as no filter that reads lines
\* ending in \r\n is given the first \r at the end of a buffer, the pipe has
\* written at every moment a beginning of what its filters make of the file,
\* and all of it when do_pipe returns - unless a reader took a pause of its
\* writer for the end.
THEOREM DeliversWhenWellCut == Spec => [](WellCut => Delivers)
BY FlowInit, FlowStep, FlowDelivers, PTL DEF Spec
=============================================================================
