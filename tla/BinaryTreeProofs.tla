-------------------------- MODULE BinaryTreeProofs --------------------------
(***************************************************************************)
(* Facts about linked binary trees, whatever their number of nodes: what a *)
(* rotation, a new leaf and a cut do to the order of the data and to the   *)
(* links, where the searches and steps of the code end, and that the walks *)
(* from one end to the other visit every node.                             *)
(*                                                                         *)
(* A tree comes with S, which gives for every node the set of those below it, *)
(* and with K, the data that must be in order.                             *)
(***************************************************************************)
EXTENDS BinaryTree, FiniteSetTheorems, WellFoundedInduction, TLAPS

-----------------------------------------------------------------------------
\* Induction and recursive functions.  The induction rules of the library are about predicates, and
\* a recursive function f[x \in S] == e is the choice of some f that equals [x \in S |-> e]: that
\* there is one must be shown.  Here both are stated of sets and functions, so that they can be
\* cited like other facts.

\* A set of natural numbers that is not empty has a smallest element.
LEMMA SmallestOf ==
    ASSUME NEW T, T \subseteq Nat, T # {}
    PROVE  \E x \in T : \A y \in T : x <= y
<1> DEFINE R == {ss \in Nat \X Nat : ss[1] < ss[2]}
<1>1. \A y, x \in Nat : y < x => <<y, x>> \in R
  OBVIOUS
<1>2. PICK x \in T : \A y \in T : ~ (<<y, x>> \in R)
  <2>1. IsWellFoundedOn(R, Nat)
    BY NatLessThanWellFounded DEF OpToRel
  <2> HIDE DEF R
  <2> QED  BY <2>1, WFMin
<1> HIDE DEF R
<1>3. ASSUME NEW y \in T PROVE x <= y
  <2>1. x \in Nat /\ y \in Nat
    OBVIOUS
  <2>2. ~(y < x)
    BY <1>1, <1>2, <2>1
  <2> QED BY <2>1, <2>2
<1> QED BY <1>3

\* What holds at 0, and at i when it holds at i - 1, holds up to n.
LEMMA Induction ==
    ASSUME NEW n \in Nat, NEW T, 0 \in T, \A i \in 1 .. n : i - 1 \in T => i \in T
    PROVE  \A i \in 0 .. n : i \in T
<1> DEFINE U == {i \in 0 .. n : i \notin T}
<1>1. U \subseteq Nat
  OBVIOUS
<1> SUFFICES ASSUME U # {} PROVE FALSE
  OBVIOUS
<1>2. PICK k \in U : \A j \in U : k <= j
  <2> HIDE DEF U
  <2> QED BY <1>1, SmallestOf
<1>3. k \in 1 .. n /\ k - 1 \in 0 .. n
  OBVIOUS
<1>4. k - 1 \in T
  BY <1>2, <1>3
<1> QED BY <1>3, <1>4

\* f begins with x, and next[i] gives its i-th value from the one before.
Iterates(f, n, X, x, next) ==
    /\ f \in [0 .. n -> X]
    /\ f[0] = x
    /\ \A i \in 1 .. n : f[i] = next[i][f[i - 1]]

\* There is such a function.
LEMMA IterateExists ==
    ASSUME NEW X, NEW n \in Nat, NEW x \in X, NEW next \in [1 .. n -> [X -> X]]
    PROVE  \E f : Iterates(f, n, X, x, next)
<1> USE DEF Iterates
<1> DEFINE Good(k) == \E f \in [0 .. k -> X] : f[0] = x /\ \A i \in 1 .. k : f[i] = next[i][f[i - 1]]
           T == {k \in 0 .. n : ~Good(k)}
<1>0. T \subseteq Nat
  OBVIOUS
<1> SUFFICES ASSUME T # {} PROVE FALSE
  <2>1. n \notin T => Good(n) OBVIOUS
  <2> QED BY <2>1
<1>1. PICK k \in T : \A j \in T : k <= j
  <2> HIDE DEF T
  <2> QED BY <1>0, SmallestOf
<1>2. Good(0)
  <2> DEFINE f == [i \in 0 .. 0 |-> x]
  <2>1. f \in [0 .. 0 -> X] /\ f[0] = x /\ \A i \in 1 .. 0 : FALSE
    OBVIOUS
  <2> HIDE DEF f
  <2> QED BY <2>1
<1>3. k # 0 /\ k \in 1 .. n
  <2>1. k \in 0 .. n /\ ~Good(k)
    OBVIOUS
  <2> HIDE DEF Good
  <2> QED BY <1>2, <2>1
<1>4. Good(k - 1)
  <2> HIDE DEF Good
  <2> QED BY <1>1, <1>3
<1>5. PICK f \in [0 .. k - 1 -> X] : f[0] = x /\ \A i \in 1 .. k - 1 : f[i] = next[i][f[i - 1]]
  BY <1>4
<1> DEFINE v == next[k][f[k - 1]]
           g == [i \in 0 .. k |-> IF i = k THEN v ELSE f[i]]
<1>6. f[k - 1] \in X /\ v \in X
  BY <1>3, <1>5
<1>7. g \in [0 .. k -> X]
  BY <1>3, <1>5, <1>6
<1>8. g[0] = x /\ \A i \in 1 .. k : g[i] = next[i][g[i - 1]]
  <2>1. g[0] = x /\ g[k] = v /\ \A i \in 0 .. k - 1 : g[i] = f[i]
    <3> HIDE DEF v
    <3> QED BY <1>3, <1>5
  <2> HIDE DEF g
  <2>2. ASSUME NEW i \in 1 .. k PROVE g[i] = next[i][g[i - 1]]
    <3>1. CASE i = k
      BY <1>3, <2>1, <3>1
    <3>2. CASE i # k
      <4>1. i \in 1 .. k - 1 /\ i \in 0 .. k - 1 /\ i - 1 \in 0 .. k - 1
        BY <1>3, <3>2
      <4> QED BY <1>5, <2>1, <4>1
    <3> QED BY <3>1, <3>2
  <2> QED BY <2>1, <2>2
<1>9. Good(k)
  <2> HIDE DEF g
  <2> QED BY <1>7, <1>8
<1> QED BY <1>9, <1>1

-----------------------------------------------------------------------------
\* Nodes, sides and what hangs below.

Ids == 0 .. MaxNodes

Sides == {"left", "right"}

\* x lies on that side of y.
Before(side, x, y) == IF side = "left" THEN x < y ELSE x > y

Trees ==
    [root : Ids, nodeCount : Int, used : SUBSET Nodes, left : [Nodes -> Ids], right : [Nodes -> Ids],
     parent : [Nodes -> Ids], data : [Nodes -> Int], rank : [Nodes -> Int]]

\* S[m] is what hangs below m.
Subtrees(T, S) ==
    /\ S \in [Ids -> SUBSET Nodes] /\ S[NULL] = {}
    /\ \A m \in Nodes, s \in Sides : S[m] = {m} \cup S[T[s][m]] \cup S[T[Other(s)][m]]

\* The keys K ascend from left to right.
Ordered(T, S, K) ==
    /\ K \in [Nodes -> Int]
    /\ \A m \in Nodes, s \in Sides : \A a \in S[T[s][m]] : Before(s, K[a], K[m])

\* Child and parent know each other, and a node outside the tree knows nobody.
Linked(T, S) ==
    /\ T.root # NULL => T.parent[T.root] = NULL
    /\ \A m \in Nodes, s \in Sides : T[s][m] # NULL => T.parent[T[s][m]] = m
    /\ \A m \in S[T.root] : m = T.root \/ (T.parent[m] \in Nodes /\ \E s \in Sides : T[s][T.parent[m]] = m)
    /\ \A m \in Nodes \ S[T.root] : T.parent[m] = NULL /\ \A s \in Sides : T[s][m] = NULL

Tied(T, S, K) == T \in Trees /\ Subtrees(T, S) /\ Ordered(T, S, K) /\ Linked(T, S)

\* NULL is no node.
LEMMA NodesAre ==
    /\ MaxNodes \in Nat \ {0} /\ Nodes = 1 .. MaxNodes /\ Ids = Nodes \cup {NULL} /\ NULL \notin Nodes
    /\ NULL \in Ids /\ Nodes \subseteq Ids /\ Nodes \subseteq Nat /\ Ids \subseteq Nat
    /\ \A x \in Ids : x # NULL => x \in Nodes
BY TreeAssumption DEF Nodes, Ids, NULL

\* There are two sides, the other of each other.
LEMMA SidesAre ==
    \A s \in Sides : /\ Other(s) \in Sides /\ Other(s) # s /\ Other(Other(s)) = s
                     /\ \A x \in Sides : x = s \/ x = Other(s)
BY DEF Sides, Other

\* The order of the data, towards either side.
LEMMA BeforeIs ==
    ASSUME NEW s \in Sides, NEW x \in Int, NEW y \in Int
    PROVE  /\ ~Before(s, x, x) /\ (Before(Other(s), x, y) <=> Before(s, y, x))
           /\ ~(Before(s, x, y) /\ Before(s, y, x))
           /\ x # y => Before(s, x, y) \/ Before(s, y, x)
           /\ \A z \in Int : Before(s, x, y) /\ Before(s, y, z) => Before(s, x, z)
BY DEF Sides, Other, Before

\* What the fields of a tree hold.
LEMMA FieldsAre ==
    ASSUME NEW T \in Trees
    PROVE  /\ T.root \in Ids /\ T.nodeCount \in Int /\ T.used \subseteq Nodes
           /\ T.parent \in [Nodes -> Ids] /\ T.data \in [Nodes -> Int] /\ T.rank \in [Nodes -> Int]
           /\ \A s \in Sides : T[s] \in [Nodes -> Ids]
BY DEF Trees, Sides

\* How many nodes there are.
LEMMA ManyNodes ==
    /\ IsFiniteSet(Nodes) /\ Cardinality(Nodes) = MaxNodes
    /\ \A A \in SUBSET Nodes : /\ IsFiniteSet(A) /\ Cardinality(A) \in 0 .. MaxNodes
                               /\ \A B \in SUBSET A : B # A => Cardinality(B) < Cardinality(A)
<1>1. IsFiniteSet(Nodes) /\ Cardinality(Nodes) = MaxNodes
  <2>1. MaxNodes \in Nat /\ 1 \in Int /\ MaxNodes \in Int
    BY NodesAre
  <2> QED BY <2>1, NodesAre, FS_Interval
<1>2. ASSUME NEW A \in SUBSET Nodes
      PROVE  IsFiniteSet(A) /\ Cardinality(A) \in 0 .. MaxNodes
  <2>1. IsFiniteSet(A) /\ Cardinality(A) <= Cardinality(Nodes)
    BY <1>1, FS_Subset
  <2>2. Cardinality(A) \in Nat
    BY <2>1, FS_CardinalityType
  <2> QED BY <1>1, <2>1, <2>2, NodesAre
<1>3. ASSUME NEW A \in SUBSET Nodes, NEW B \in SUBSET A, B # A
      PROVE  Cardinality(B) < Cardinality(A)
  <2>1. IsFiniteSet(A) /\ IsFiniteSet(B) /\ Cardinality(B) \in Nat /\ Cardinality(A) \in Nat
    <3>1. B \in SUBSET Nodes
      OBVIOUS
    <3> QED BY <1>2, <3>1
  <2>2. Cardinality(B) <= Cardinality(A) /\ (Cardinality(B) = Cardinality(A) => B = A)
    BY <2>1, FS_Subset
  <2> QED BY <1>3, <2>1, <2>2
<1> QED BY <1>1, <1>2, <1>3

\* Where h says how far each element is, what follows for one from those nearer holds for all.
LEMMA MeasureInduction ==
    ASSUME NEW X, NEW h \in [X -> Nat], NEW Q,
           \A m \in X : (\A k \in X : h[k] < h[m] => k \in Q) => m \in Q
    PROVE  X \subseteq Q
<1> DEFINE U == {h[m] : m \in X \ Q}
<1> SUFFICES ASSUME X \ Q # {} PROVE FALSE
  OBVIOUS
<1>1. U \subseteq Nat /\ U # {}
  OBVIOUS
<1>2. PICK i \in U : \A j \in U : i <= j
  <2> HIDE DEF U
  <2> QED BY <1>1, SmallestOf
<1>3. PICK m \in X \ Q : h[m] = i
  OBVIOUS
<1>4. \A k \in X : h[k] < h[m] => k \in Q
  <2> TAKE k \in X
  <2> HAVE h[k] < h[m]
  <2>1. h[k] \in Nat /\ h[m] \in Nat
    OBVIOUS
  <2>2. k \notin Q => h[k] \in U
    OBVIOUS
  <2> HIDE DEF U
  <2> QED BY <1>2, <1>3, <2>1, <2>2
<1> QED BY <1>3, <1>4

\* What a child is to its parent.
LEMMA ChildIs ==
    ASSUME NEW T, NEW S, NEW K, Tied(T, S, K), NEW m \in Nodes, NEW s \in Sides
    PROVE  /\ T[s][m] \in Ids /\ m \in S[m] /\ S[m] \subseteq Nodes
           /\ S[m] = {m} \cup S[T[s][m]] \cup S[T[Other(s)][m]]
           /\ S[T[s][m]] \subseteq S[m] /\ m \notin S[T[s][m]]
           /\ \A a \in S[T[s][m]] : a \notin S[T[Other(s)][m]]
           /\ Cardinality(S[T[s][m]]) < Cardinality(S[m])
           /\ T[s][m] # NULL => /\ T[s][m] \in Nodes /\ T[s][m] \in S[T[s][m]] /\ T[s][m] \in S[m]
                                /\ T[s][m] # m /\ T.parent[T[s][m]] = m
<1> DEFINE c == T[s][m]
           d == T[Other(s)][m]
<1>1. c \in Ids /\ d \in Ids /\ (c # NULL => c \in Nodes) /\ m \in Ids
  BY FieldsAre, SidesAre, NodesAre DEF Tied
<1>2. S \in [Ids -> SUBSET Nodes] /\ S[m] = {m} \cup S[c] \cup S[d]
  BY DEF Tied, Subtrees
<1>3. c # NULL => c \in S[c] /\ T.parent[c] = m
  BY <1>1 DEF Tied, Subtrees, Linked
<1>4. /\ \A a \in S[c] : Before(s, K[a], K[m])
      /\ \A a \in S[d] : Before(Other(s), K[a], K[m])
      /\ K \in [Nodes -> Int]
  BY SidesAre DEF Tied, Ordered
<1> HIDE DEF c, d
<1>5. m \notin S[c]
  <2> SUFFICES ASSUME m \in S[c] PROVE FALSE
    OBVIOUS
  <2>1. Before(s, K[m], K[m]) /\ K[m] \in Int
    BY <1>4
  <2> QED BY <2>1, BeforeIs
<1>6. ASSUME NEW a \in S[c] PROVE a \notin S[d]
  <2> SUFFICES ASSUME a \in S[d] PROVE FALSE
    OBVIOUS
  <2>1. K[m] \in Int /\ K[a] \in Int
    BY <1>1, <1>2, <1>4
  <2>2. Before(s, K[a], K[m]) /\ Before(Other(s), K[a], K[m])
    BY <1>4
  <2> QED BY <2>1, <2>2, BeforeIs
<1>7. Cardinality(S[c]) < Cardinality(S[m])
  <2>1. S[m] \in SUBSET Nodes /\ S[c] \in SUBSET S[m] /\ S[c] # S[m]
    BY <1>1, <1>2, <1>5
  <2> QED BY <2>1, ManyNodes
<1> QED BY <1>1, <1>2, <1>3, <1>5, <1>6, <1>7 DEF c, d

\* A node hangs below itself.
LEMMA SelfIs ==
    ASSUME NEW T, NEW S, NEW K, Tied(T, S, K), NEW m \in Nodes
    PROVE  m \in S[m] /\ S[m] \subseteq Nodes
<1>1. "left" \in Sides
  BY DEF Sides
<1> QED BY <1>1, ChildIs

\* What ChildIs says of one child, by its name.
LEMMA HangsIs ==
    ASSUME NEW T, NEW S, NEW K, Tied(T, S, K), NEW m \in Nodes, NEW s \in Sides, NEW c, T[s][m] = c
    PROVE  /\ c \in Ids /\ S[c] \subseteq S[m] /\ m \notin S[c] /\ m \in S[m] /\ S[m] \subseteq Nodes
           /\ c # NULL => c \in Nodes /\ c \in S[c] /\ c \in S[m] /\ c # m /\ T.parent[c] = m
<1>1. /\ T[s][m] \in Ids /\ S[T[s][m]] \subseteq S[m] /\ m \notin S[T[s][m]] /\ m \in S[m] /\ S[m] \subseteq Nodes
      /\ T[s][m] # NULL => /\ T[s][m] \in Nodes /\ T[s][m] \in S[T[s][m]] /\ T[s][m] \in S[m]
                           /\ T[s][m] # m /\ T.parent[T[s][m]] = m
  BY ChildIs
<1> QED BY <1>1

\* What holds for a node when it holds for its children holds for every node.
LEMMA TreeInduction ==
    ASSUME NEW T, NEW S, NEW K, Tied(T, S, K), NEW Q,
           \A m \in Nodes : (\A s \in Sides : T[s][m] # NULL => T[s][m] \in Q) => m \in Q
    PROVE  Nodes \subseteq Q
<1> DEFINE h == [m \in Nodes |-> Cardinality(S[m])]
<1>1. h \in [Nodes -> Nat]
  <2>1. \A m \in Nodes : S[m] \in SUBSET Nodes
    BY NodesAre DEF Tied, Subtrees
  <2> QED BY <2>1, ManyNodes
<1>2. ASSUME NEW m \in Nodes, \A k \in Nodes : h[k] < h[m] => k \in Q
      PROVE  m \in Q
  <2>1. ASSUME NEW s \in Sides, T[s][m] # NULL PROVE T[s][m] \in Q
    <3>1. T[s][m] \in Nodes /\ Cardinality(S[T[s][m]]) < Cardinality(S[m])
      BY <2>1, ChildIs
    <3> QED BY <1>2, <3>1
  <2> QED BY <2>1
<1> HIDE DEF h
<1> QED BY <1>1, <1>2, MeasureInduction

\* Subtrees lie in each other, and above a node of one there are only nodes of it up to the top.
LEMMA Nested ==
    ASSUME NEW T, NEW S, NEW K, Tied(T, S, K)
    PROVE  \A x \in Nodes : \A y \in S[x] :
              /\ y \in Nodes /\ S[y] \subseteq S[x]
              /\ y # x => T.parent[y] \in S[x]
<1> DEFINE Good(x) == \A y \in S[x] : /\ y \in Nodes /\ S[y] \subseteq S[x]
                                      /\ y # x => T.parent[y] \in S[x]
           Q == {x \in Nodes : Good(x)}
<1>1. ASSUME NEW x \in Nodes, \A s \in Sides : T[s][x] # NULL => T[s][x] \in Q
      PROVE  x \in Q
  <2>1. ASSUME NEW y \in S[x]
        PROVE  y \in Nodes /\ S[y] \subseteq S[x] /\ (y # x => T.parent[y] \in S[x])
    <3>1. y = x \/ \E s \in Sides : y \in S[T[s][x]]
      <4>1. "left" \in Sides
        BY DEF Sides
      <4>2. S[x] = {x} \cup S[T["left"][x]] \cup S[T[Other("left")][x]] /\ Other("left") \in Sides
        BY <4>1, ChildIs, SidesAre
      <4> QED BY <4>1, <4>2
    <3>2. CASE y = x
      BY <3>2
    <3>3. ASSUME NEW s \in Sides, y \in S[T[s][x]]
          PROVE  y \in Nodes /\ S[y] \subseteq S[x] /\ (y # x => T.parent[y] \in S[x])
      <4> DEFINE c == T[s][x]
      <4>1. c # NULL
        BY <3>3 DEF Tied, Subtrees
      <4>2. Good(c) /\ c \in Nodes
        BY <1>1, <4>1
      <4>3. S[c] \subseteq S[x] /\ T.parent[c] = x /\ x \in S[x]
        BY <4>1, ChildIs
      <4>4. y \in S[c]
        BY <3>3
      <4> HIDE DEF c
      <4> QED BY <4>2, <4>3, <4>4
    <3> QED BY <3>1, <3>2, <3>3
  <2> QED BY <2>1
<1>2. Nodes \subseteq Q
  <2> HIDE DEF Q
  <2> QED BY <1>1, TreeInduction
<1> QED BY <1>2

\* The nodes of the tree.
LEMMA InsideIs ==
    ASSUME NEW T, NEW S, NEW K, Tied(T, S, K)
    PROVE  /\ S[T.root] \in SUBSET Nodes /\ T.root \in Ids /\ (T.root = NULL <=> S[T.root] = {})
           /\ T.root # NULL => T.root \in S[T.root]
           /\ \A m \in Nodes, s \in Sides : T[s][m] # NULL => m \in S[T.root] /\ T[s][m] \in S[T.root]
           /\ \A n \in S[T.root] :
                 /\ n \in Nodes /\ S[n] \subseteq S[T.root] /\ (n = T.root <=> T.parent[n] = NULL)
                 /\ T.parent[n] \in Ids
                 /\ T.parent[n] # NULL =>
                       /\ T.parent[n] \in Nodes /\ T.parent[n] \in S[T.root] /\ T.parent[n] # n
                       /\ \E s \in Sides : T[s][T.parent[n]] = n
<1> DEFINE r == T.root
<1>1. r \in Ids /\ S[r] \in SUBSET Nodes /\ S[NULL] = {} /\ (r # NULL => r \in Nodes)
  BY FieldsAre, NodesAre DEF Tied, Subtrees
<1>2. r # NULL => r \in S[r] /\ r \in Nodes
  <2>1. "left" \in Sides
    BY DEF Sides
  <2> QED BY <1>1, <2>1, ChildIs
<1>3. ASSUME NEW m \in Nodes, NEW s \in Sides, T[s][m] # NULL
      PROVE  m \in S[r] /\ T[s][m] \in S[r]
  <2>1. m \in S[r]
    BY <1>3 DEF Tied, Linked
  <2>2. T[s][m] \in S[m]
    BY <1>3, ChildIs
  <2>3. r \in Nodes
    BY <1>1, <2>1
  <2> HIDE DEF r
  <2> QED BY <2>1, <2>2, <2>3, Nested
<1>4. ASSUME NEW n \in S[r]
      PROVE  /\ n \in Nodes /\ S[n] \subseteq S[r] /\ (n = r <=> T.parent[n] = NULL)
             /\ T.parent[n] \in Ids
             /\ T.parent[n] # NULL =>
                   /\ T.parent[n] \in Nodes /\ T.parent[n] \in S[r] /\ T.parent[n] # n
                   /\ \E s \in Sides : T[s][T.parent[n]] = n
  <2>1. r \in Nodes /\ n \in Nodes
    BY <1>1
  <2>2. S[n] \subseteq S[r] /\ (n # r => T.parent[n] \in S[r])
    BY <2>1, Nested
  <2>3. n = r => T.parent[n] = NULL
    BY <2>1, NodesAre DEF Tied, Linked
  <2>4. n # r => T.parent[n] \in Nodes /\ \E s \in Sides : T[s][T.parent[n]] = n
    BY DEF Tied, Linked
  <2>5. ASSUME n # r PROVE T.parent[n] # n
    <3>1. PICK s \in Sides : T[s][T.parent[n]] = n
      BY <2>4, <2>5
    <3>2. n # NULL /\ T.parent[n] \in Nodes
      BY <2>1, <2>4, <2>5, NodesAre
    <3> QED BY <3>1, <3>2, ChildIs
  <2> HIDE DEF r
  <2> QED BY <2>1, <2>2, <2>3, <2>4, <2>5, NodesAre
<1> HIDE DEF r
<1> QED BY <1>1, <1>2, <1>3, <1>4 DEF r

\* What holds for the root, and for a node when it holds for its parent, holds in the tree.
LEMMA DownInduction ==
    ASSUME NEW T, NEW S, NEW K, Tied(T, S, K), NEW Q,
           T.root # NULL => T.root \in Q,
           \A m \in S[T.root] : m # T.root /\ T.parent[m] \in Q => m \in Q
    PROVE  S[T.root] \subseteq Q
<1> DEFINE X == S[T.root]
           h == [m \in X |-> MaxNodes - Cardinality(S[m])]
<1>1. ASSUME NEW m \in X PROVE S[m] \in SUBSET Nodes /\ MaxNodes - Cardinality(S[m]) \in Nat
  <2>1. S[m] \in SUBSET Nodes
    BY NodesAre, InsideIs DEF Tied, Subtrees
  <2>2. Cardinality(S[m]) \in 0 .. MaxNodes
    BY <2>1, ManyNodes
  <2> QED BY <2>1, <2>2, NodesAre
<1>2. h \in [X -> Nat]
  BY <1>1
<1>3. ASSUME NEW m \in X, \A k \in X : h[k] < h[m] => k \in Q
      PROVE  m \in Q
  <2>1. CASE m = T.root
    BY <2>1, NodesAre, InsideIs
  <2>2. CASE m # T.root
    <3> DEFINE p == T.parent[m]
    <3>1. m \in Nodes /\ p \in Nodes /\ p \in X /\ \E s \in Sides : T[s][p] = m
      BY <2>2, InsideIs
    <3>2. PICK s \in Sides : T[s][p] = m
      BY <3>1
    <3>3. Cardinality(S[m]) < Cardinality(S[p])
      BY <3>1, <3>2, ChildIs
    <3>4. h[p] < h[m]
      <4>1. Cardinality(S[m]) \in Nat /\ Cardinality(S[p]) \in Nat
        BY <1>1, <3>1, ManyNodes
      <4> QED BY <3>1, <3>3, <4>1, NodesAre
    <3> QED BY <1>3, <2>2, <3>1, <3>4
  <2> QED BY <2>1, <2>2
<1> HIDE DEF h
<1> QED BY <1>2, <1>3, MeasureInduction

\* A subtree is an interval: what lies outside it lies on one side of all of it.
LEMMA Convex ==
    ASSUME NEW T, NEW S, NEW K, Tied(T, S, K), NEW m \in Nodes
    PROVE  \A n \in S[m] : \A a \in S[m] \ S[n] : \A b \in S[n], s \in Sides :
              Before(s, K[a], K[n]) => Before(s, K[a], K[b])
<1> DEFINE Good(x) == \A n \in S[x] : \A a \in S[x] \ S[n] : \A b \in S[n], s \in Sides :
                          Before(s, K[a], K[n]) => Before(s, K[a], K[b])
           Q == {x \in Nodes : Good(x)}
<1>1. ASSUME NEW x \in Nodes, \A s \in Sides : T[s][x] # NULL => T[s][x] \in Q
      PROVE  x \in Q
  <2>1. ASSUME NEW n \in S[x], NEW a \in S[x] \ S[n], NEW b \in S[n], NEW s \in Sides,
               Before(s, K[a], K[n])
        PROVE  Before(s, K[a], K[b])
    <3>1. n # x
      BY <2>1
    <3>2. PICK q \in Sides : n \in S[T[q][x]]
      <4>1. "left" \in Sides /\ Other("left") \in Sides
        BY SidesAre DEF Sides
      <4>2. S[x] = {x} \cup S[T["left"][x]] \cup S[T[Other("left")][x]]
        BY <4>1, ChildIs
      <4> QED BY <3>1, <4>1, <4>2
    <3> DEFINE c == T[q][x]
               d == T[Other(q)][x]
    <3>3. /\ S[x] = {x} \cup S[c] \cup S[d] /\ S[x] \subseteq Nodes
          /\ c # NULL /\ c \in Nodes /\ Good(c)
      <4>1. c # NULL
        BY <3>2 DEF Tied, Subtrees
      <4> QED BY <1>1, <4>1, ChildIs
    <3>4. /\ \A k \in S[c] : Before(q, K[k], K[x])
          /\ \A k \in S[d] : Before(Other(q), K[k], K[x])
          /\ K \in [Nodes -> Int]
      BY SidesAre DEF Tied, Ordered
    <3>5. S[n] \subseteq S[c]
      BY <3>2, <3>3, Nested
    <3>6. n \in S[c] /\ b \in S[c] /\ a \in S[x] /\ a \notin S[n]
      BY <3>2, <3>5
    <3>7. K[a] \in Int /\ K[b] \in Int /\ K[n] \in Int /\ K[x] \in Int /\ Other(q) \in Sides
      BY <3>3, <3>4, <3>6, SidesAre
    <3>8. CASE a \in S[c]
      BY <3>3, <3>6, <3>8, <2>1
    <3>9. CASE a \notin S[c]
      <4>1. a = x \/ a \in S[d]
        BY <3>3, <3>6, <3>9
      <4>2. Before(q, K[n], K[x]) /\ Before(q, K[b], K[x])
        BY <3>4, <3>6
      <4>3. a = x \/ Before(q, K[x], K[a])
        BY <3>4, <3>7, <4>1, BeforeIs
      <4>4. Before(q, K[n], K[a]) /\ Before(q, K[b], K[a])
        BY <3>7, <4>2, <4>3, BeforeIs
      <4>5. s = Other(q)
        <5>1. s = q \/ s = Other(q)
          BY SidesAre
        <5>2. ~Before(q, K[a], K[n])
          BY <3>7, <4>4, BeforeIs
        <5> QED BY <2>1, <5>1, <5>2
      <4> QED BY <3>7, <4>4, <4>5, BeforeIs
    <3> QED BY <3>8, <3>9
  <2> QED BY <2>1
<1>2. Nodes \subseteq Q
  <2> HIDE DEF Q
  <2> QED BY <1>1, TreeInduction
<1> QED BY <1>2

\* No two nodes of a subtree have one key.
LEMMA OneKey ==
    ASSUME NEW T, NEW S, NEW K, Tied(T, S, K), NEW m \in Nodes
    PROVE  \A a, b \in S[m] : K[a] = K[b] => a = b
<1> DEFINE Good(x) == \A a, b \in S[x] : K[a] = K[b] => a = b
           Q == {x \in Nodes : Good(x)}
<1>1. ASSUME NEW x \in Nodes, \A s \in Sides : T[s][x] # NULL => T[s][x] \in Q
      PROVE  x \in Q
  <2> DEFINE c == T["left"][x]
             d == T["right"][x]
  <2>1. "left" \in Sides /\ "right" \in Sides /\ Other("left") = "right"
    BY DEF Sides, Other
  <2>2. S[x] = {x} \cup S[c] \cup S[d] /\ S[x] \subseteq Nodes /\ (c # NULL => Good(c)) /\ (d # NULL => Good(d))
    BY <1>1, <2>1, ChildIs
  <2>3. S[NULL] = {} /\ K \in [Nodes -> Int]
    BY DEF Tied, Subtrees, Ordered
  <2>4. (\A k \in S[c] : Before("left", K[k], K[x])) /\ (\A k \in S[d] : Before("right", K[k], K[x]))
    BY <2>1 DEF Tied, Ordered
  <2>5. (\A k \in S[c] : K[k] < K[x]) /\ (\A k \in S[d] : K[k] > K[x])
    BY <2>4 DEF Before
  <2> HIDE DEF c, d
  <2>6. ASSUME NEW a \in S[x], NEW b \in S[x], K[a] = K[b]
        PROVE  a = b
    <3>1. K[a] \in Int /\ K[b] \in Int /\ K[x] \in Int
      BY <2>2, <2>3
    <3>2. CASE a \in S[c] /\ b \in S[c]
      BY <2>2, <2>3, <2>6, <3>2
    <3>3. CASE a \in S[d] /\ b \in S[d]
      BY <2>2, <2>3, <2>6, <3>3
    <3>4. CASE a = x /\ b = x
      BY <3>4
    <3> QED BY <2>2, <2>5, <2>6, <3>1, <3>2, <3>3, <3>4
  <2> QED BY <2>6
<1>2. Nodes \subseteq Q
  <2> HIDE DEF Q
  <2> QED BY <1>1, TreeInduction
<1> QED BY <1>2

-----------------------------------------------------------------------------
\* Rotation, growth and cut, whatever program does them.

\* r, n's child on the other side, takes n's place and n goes down to the given side.
Rotated(T, A, n, s) ==
    LET r == T[Other(s)][n]
        b == T[s][r]
    IN  /\ A \in Trees
        /\ A.root = IF T.root = n THEN r ELSE T.root
        /\ \A m \in Nodes, q \in Sides :
              A[q][m] = IF m = n /\ q = Other(s) THEN b ELSE IF m = r /\ q = s THEN n
                        ELSE IF T[q][m] = n THEN r ELSE T[q][m]
        /\ \A m \in Nodes :
              A.parent[m] = IF m = n THEN r ELSE IF m = r THEN T.parent[n] ELSE IF m = b THEN n
                            ELSE T.parent[m]

\* What hangs below n and r afterwards.
Turned(T, S, n, s) ==
    LET r == T[Other(s)][n] IN
    [S EXCEPT ![r] = S[n], ![n] = {n} \cup S[T[s][n]] \cup S[T[s][r]]]

\* What hangs below each node after a rotation.
LEMMA TurnedIs ==
    ASSUME NEW T, NEW S, NEW K, Tied(T, S, K), NEW n \in Nodes, NEW s \in Sides, T[Other(s)][n] # NULL
    PROVE  LET R == Turned(T, S, n, s)
               r == T[Other(s)][n]
           IN  /\ R \in [Ids -> SUBSET Nodes] /\ R[NULL] = {}
               /\ R[r] = S[n] /\ R[n] = {n} \cup S[T[s][n]] \cup S[T[s][r]]
               /\ \A m \in Ids : m # n /\ m # r => R[m] = S[m]
<1> DEFINE r == T[Other(s)][n]
<1>1. /\ S \in [Ids -> SUBSET Nodes] /\ S[NULL] = {} /\ r \in Nodes /\ T[s][n] \in Ids /\ r # n
      /\ T[s][r] \in Ids /\ n # NULL
  <2>1. r \in Nodes /\ r # n /\ T[s][n] \in Ids
    BY ChildIs, SidesAre
  <2>2. T[s][r] \in Ids
    BY <2>1, ChildIs
  <2> QED BY <2>1, <2>2, NodesAre DEF Tied, Subtrees
<1> HIDE DEF r
<1> QED BY <1>1, NodesAre DEF Turned, r

\* A rotation keeps the tree in order.
LEMMA RotatedTied ==
    ASSUME NEW T, NEW S, NEW K, Tied(T, S, K), NEW n \in Nodes, NEW s \in Sides, T[Other(s)][n] # NULL,
           NEW A, Rotated(T, A, n, s)
    PROVE  /\ Tied(A, Turned(T, S, n, s), K)
           /\ Turned(T, S, n, s)[A.root] = S[T.root]
<1> DEFINE o == Other(s)
           r == T[o][n]
           a == T[s][n]
           b == T[s][r]
           c == T[o][r]
           R == Turned(T, S, n, s)
<1>1. o \in Sides /\ o # s /\ Other(o) = s /\ \A q \in Sides : q = s \/ q = o
  BY SidesAre
<1>2. /\ r \in Nodes /\ r # n /\ n # NULL /\ r # NULL /\ r \in S[n] /\ n \notin S[r] /\ T.parent[r] = n
      /\ S[n] = {n} \cup S[a] \cup S[r] /\ a \in Ids
      /\ \A k \in S[a] : k \notin S[r]
  BY <1>1, ChildIs, NodesAre
<1>3. /\ b \in Ids /\ c \in Ids /\ S[r] = {r} \cup S[b] \cup S[c] /\ S[r] \subseteq Nodes
      /\ \A k \in S[b] : k \notin S[c]
      /\ b # NULL => b \in S[b] /\ b # r /\ b \in S[r] /\ T.parent[b] = r /\ b \in Nodes
      /\ c # NULL => c \in S[c] /\ c # r /\ c \in S[r] /\ T.parent[c] = r /\ c \in Nodes
  <2> HIDE DEF r, a
  <2>1. /\ b \in Ids /\ S[r] = {r} \cup S[b] \cup S[c] /\ S[r] \subseteq Nodes
        /\ \A k \in S[b] : k \notin S[c]
        /\ S[b] \subseteq S[r] /\ r \notin S[b]
        /\ b # NULL => b \in S[b] /\ T.parent[b] = r /\ b \in Nodes
    BY <1>2, ChildIs
  <2>2. /\ c \in Ids /\ S[c] \subseteq S[r] /\ r \notin S[c]
        /\ c # NULL => c \in S[c] /\ T.parent[c] = r /\ c \in Nodes
    <3> HIDE DEF o
    <3> QED BY <1>1, <1>2, ChildIs
  <2> HIDE DEF b, c
  <2> QED BY <2>1, <2>2
<1>4. a # n /\ a # r /\ b # n /\ b # r /\ c # n /\ c # r
  <2>1. a # NULL => a \in S[a] /\ a # n
    BY ChildIs
  <2>2. r \in S[r]
    BY <1>3
  <2> QED BY <1>2, <1>3, <2>1, <2>2
<1>5. /\ R \in [Ids -> SUBSET Nodes] /\ R[NULL] = {} /\ R[r] = S[n] /\ R[n] = {n} \cup S[a] \cup S[b]
      /\ \A m \in Ids : m # n /\ m # r => R[m] = S[m]
  BY <1>1, TurnedIs
<1>6. \A m \in Nodes, q \in Sides : T[q][m] \in Ids /\ (T[q][m] = r => m = n) /\ (T[q][m] # NULL => T.parent[T[q][m]] = m)
  <2> TAKE m \in Nodes, q \in Sides
  <2>1. T[q][m] \in Ids /\ (T[q][m] # NULL => T.parent[T[q][m]] = m)
    BY ChildIs
  <2> HIDE DEF r
  <2> QED BY <1>2, <2>1
<1>7. /\ A \in Trees
      /\ A.root = IF T.root = n THEN r ELSE T.root
      /\ \A m \in Nodes, q \in Sides :
            A[q][m] = IF m = n /\ q = o THEN b ELSE IF m = r /\ q = s THEN n
                        ELSE IF T[q][m] = n THEN r ELSE T[q][m]
      /\ \A m \in Nodes :
            A.parent[m] = IF m = n THEN r ELSE IF m = r THEN T.parent[n] ELSE IF m = b THEN n
                          ELSE T.parent[m]
  BY DEF Rotated
<1>8. K \in [Nodes -> Int] /\ (\A k \in S[a] : Before(s, K[k], K[n])) /\ (\A k \in S[r] : Before(o, K[k], K[n]))
      /\ (\A k \in S[b] : Before(s, K[k], K[r])) /\ (\A k \in S[c] : Before(o, K[k], K[r]))
  BY <1>1, <1>2 DEF Tied, Ordered
<1>9. /\ T.root # r /\ S[T.root] \in SUBSET Nodes /\ T.root \in Ids
      /\ n \in S[T.root] /\ r \in S[T.root]
  <2>1. T.root # r
    BY <1>2, NodesAre DEF Tied, Linked
  <2> QED BY <1>1, <1>2, <2>1, InsideIs
<1>10. \A m \in Nodes : A[o][m] \in Ids /\ A[s][m] \in Ids
  BY <1>1, <1>7, FieldsAre
<1> HIDE DEF o, r, a, b, c, R
<1>11. A[o][n] = b /\ A[s][n] = a /\ A[s][r] = n /\ A[o][r] = c
  BY <1>1, <1>2, <1>4, <1>7 DEF a, c
<1>12. \A m \in Nodes, q \in Sides : m # n /\ m # r => A[q][m] = IF T[q][m] = n THEN r ELSE T[q][m]
  BY <1>7
<1>13. \A m \in Nodes, q \in Sides : m # n /\ m # r => R[A[q][m]] = S[T[q][m]]
  BY <1>5, <1>6, <1>12
<1>14. R[a] = S[a] /\ R[b] = S[b] /\ R[c] = S[c]
  BY <1>2, <1>3, <1>4, <1>5
<1>15. Subtrees(A, R)
  <2> SUFFICES ASSUME NEW m \in Nodes, NEW q \in Sides
               PROVE  R[m] = {m} \cup R[A[q][m]] \cup R[A[Other(q)][m]]
    BY <1>5 DEF Subtrees
  <2>1. (q = s /\ Other(q) = o) \/ (q = o /\ Other(q) = s)
    BY <1>1 DEF o
  <2>2. CASE m = n
    BY <1>5, <1>11, <1>14, <2>1, <2>2
  <2>3. CASE m = r
    BY <1>2, <1>3, <1>5, <1>11, <1>14, <2>1, <2>3
  <2>4. CASE m # n /\ m # r
    <3>1. R[A[q][m]] = S[T[q][m]] /\ R[A[Other(q)][m]] = S[T[Other(q)][m]]
      BY <1>1, <1>13, <2>1, <2>4
    <3>2. R[m] = S[m] /\ S[m] = {m} \cup S[T[q][m]] \cup S[T[Other(q)][m]]
      BY <1>5, <2>4, NodesAre DEF Tied, Subtrees
    <3> QED BY <3>1, <3>2
  <2> QED BY <2>2, <2>3, <2>4
<1>16. Ordered(A, R, K)
  <2> SUFFICES ASSUME NEW m \in Nodes, NEW q \in Sides, NEW k \in R[A[q][m]]
               PROVE  Before(q, K[k], K[m])
    BY <1>8 DEF Ordered
  <2>0. K[n] \in Int /\ K[r] \in Int /\ k \in Nodes /\ K[k] \in Int
    <3>1. A[q][m] \in Ids
      BY <1>1, <1>10
    <3> QED BY <1>2, <1>5, <1>8, <3>1
  <2>1. CASE m = n
    BY <1>1, <1>3, <1>8, <1>11, <1>14, <2>1
  <2>2. CASE m = r /\ q = o
    BY <1>8, <1>11, <1>14, <2>2
  <2>3. CASE m = r /\ q = s
    <3>1. k = n \/ k \in S[a] \/ k \in S[b]
      BY <1>5, <1>11, <2>3
    <3>2. Before(s, K[n], K[r])
      <4>1. Before(o, K[r], K[n])
        BY <1>3, <1>8
      <4> QED BY <2>0, <4>1, BeforeIs DEF o
    <3>3. k \in S[a] => Before(s, K[k], K[n])
      BY <1>8
    <3>4. k \in S[b] => Before(s, K[k], K[r])
      BY <1>8
    <3>5. Before(s, K[k], K[n]) => Before(s, K[k], K[r])
      BY <2>0, <3>2, BeforeIs
    <3> QED BY <2>3, <3>1, <3>2, <3>3, <3>4, <3>5
  <2>4. CASE m # n /\ m # r
    <3>1. k \in S[T[q][m]]
      BY <1>13, <2>4
    <3> QED BY <3>1 DEF Tied, Ordered
  <2> QED BY <1>1, <2>1, <2>2, <2>3, <2>4
<1>17. R[A.root] = S[T.root]
  <2>1. CASE T.root = n
    BY <1>5, <1>7, <2>1
  <2>2. CASE T.root # n
    BY <1>5, <1>7, <1>9, <2>2
  <2> QED BY <2>1, <2>2
<1>18. Linked(A, R)
  <2>1. A.root # NULL => A.parent[A.root] = NULL
    <3>1. T.root # NULL => T.parent[T.root] = NULL
      BY DEF Tied, Linked
    <3>2. CASE T.root = n
      BY <1>2, <1>7, <3>1, <3>2
    <3>3. CASE T.root # n
      <4>1. A.root = T.root
        BY <1>7, <3>3
      <4>2. T.root # NULL => T.root # b
        BY <1>2, <1>3, <3>1
      <4> QED BY <1>7, <1>9, <3>1, <3>3, <4>1, <4>2, NodesAre
    <3> QED BY <3>2, <3>3
  <2>2. ASSUME NEW m \in Nodes, NEW q \in Sides, A[q][m] # NULL
        PROVE  A.parent[A[q][m]] = m
    <3>1. CASE m = n
      <4>1. CASE q = o
        BY <1>3, <1>4, <1>7, <1>11, <2>2, <3>1, <4>1
      <4>2. CASE q = s
        <5>1. a # NULL /\ T.parent[a] = n /\ a \in Nodes
          BY <1>2, <1>6, <1>11, <2>2, <3>1, <4>2, NodesAre DEF a
        <5>2. a # b
          BY <1>2, <1>3, <5>1
        <5> QED BY <1>4, <1>7, <1>11, <3>1, <4>2, <5>1, <5>2
      <4> QED BY <1>1, <4>1, <4>2
    <3>2. CASE m = r
      <4>1. CASE q = o
        <5>1. c # NULL /\ c \in Nodes /\ T.parent[c] = r /\ c \in S[c]
          BY <1>3, <1>11, <2>2, <3>2, <4>1
        <5>2. c # b
          BY <1>3, <5>1
        <5> QED BY <1>4, <1>7, <1>11, <3>2, <4>1, <5>1, <5>2
      <4>2. CASE q = s
        BY <1>7, <1>11, <3>2, <4>2
      <4> QED BY <1>1, <4>1, <4>2
    <3>3. CASE m # n /\ m # r
      <4>1. CASE T[q][m] = n
        <5>1. T.parent[n] = m
          BY <1>2, <1>6, <4>1
        <5> QED BY <1>2, <1>7, <1>12, <3>3, <4>1, <5>1
      <4>2. CASE T[q][m] # n
        <5> DEFINE d == T[q][m]
        <5>1. d # NULL /\ A[q][m] = d /\ d \in Nodes /\ T.parent[d] = m /\ d # n
          BY <1>6, <1>12, <2>2, <3>3, <4>2, NodesAre
        <5>2. d # r /\ d # b
          BY <1>3, <1>2, <3>3, <5>1
        <5> HIDE DEF d
        <5> QED BY <1>7, <5>1, <5>2
      <4> QED BY <4>1, <4>2
    <3> QED BY <3>1, <3>2, <3>3
  <2>3. ASSUME NEW m \in R[A.root], m # A.root
        PROVE  A.parent[m] \in Nodes /\ \E q \in Sides : A[q][A.parent[m]] = m
    <3>1. m \in S[T.root] /\ m \in Nodes
      BY <1>9, <1>17
    <3>2. CASE m = n
      BY <1>1, <1>2, <1>7, <1>11, <3>2
    <3>3. CASE m = b
      <4>1. m # n /\ m # r
        BY <1>4, <3>3
      <4> QED BY <1>1, <1>7, <1>11, <3>1, <3>3, <4>1
    <3>4. CASE m = r
      <4>1. T.root # n
        BY <1>7, <2>3, <3>4
      <4>2. PICK q \in Sides : T[q][T.parent[n]] = n
        BY <1>9, <4>1, InsideIs
      <4>3. T.parent[n] \in Nodes /\ T.parent[n] # n
        BY <1>9, <4>1, InsideIs, NodesAre
      <4>4. T.parent[n] # r
        <5>1. T.parent[n] = r => n \in S[T[q][r]]
          BY <1>2, <4>2, ChildIs
        <5>2. S[T[q][r]] \subseteq S[r]
          BY <1>2, ChildIs
        <5> QED BY <1>2, <5>1, <5>2
      <4>5. A[q][T.parent[n]] = r /\ A.parent[r] = T.parent[n]
        BY <1>2, <1>7, <1>12, <4>2, <4>3, <4>4
      <4> QED BY <3>4, <4>3, <4>5
    <3>5. CASE m # n /\ m # b /\ m # r
      <4>1. m # T.root
        BY <1>7, <2>3, <3>5
      <4>2. PICK q \in Sides : T[q][T.parent[m]] = m
        BY <3>1, <4>1, InsideIs
      <4>3. T.parent[m] \in Nodes /\ A.parent[m] = T.parent[m]
        BY <1>7, <3>1, <3>5, <4>1, InsideIs, NodesAre
      <4>4. A[q][T.parent[m]] = m
        <5>1. ~(T.parent[m] = n /\ q = o) /\ ~(T.parent[m] = r /\ q = s)
          BY <3>5, <4>2 DEF r, b
        <5> QED BY <1>7, <3>5, <4>2, <4>3, <5>1
      <4> QED BY <4>3, <4>4
    <3> QED BY <3>2, <3>3, <3>4, <3>5
  <2>4. ASSUME NEW m \in Nodes \ R[A.root]
        PROVE  A.parent[m] = NULL /\ \A q \in Sides : A[q][m] = NULL
    <3>1. m \notin S[T.root] /\ m # n /\ m # r
      BY <1>9, <1>17
    <3>2. T.parent[m] = NULL /\ \A q \in Sides : T[q][m] = NULL
      BY <3>1 DEF Tied, Linked
    <3>3. m # b
      BY <1>2, <1>3, <3>2, NodesAre
    <3> QED BY <1>2, <1>7, <1>12, <3>1, <3>2, <3>3
  <2> QED BY <2>1, <2>2, <2>3, <2>4 DEF Linked
<1>19. Tied(A, R, K)
  BY <1>7, <1>15, <1>16, <1>18 DEF Tied
<1> QED BY <1>17, <1>19 DEF R

\* A leaf x hangs on that side of at.
Grown(T, A, at, s, x) ==
    /\ A \in Trees /\ A.root = T.root
    /\ \A m \in Nodes, q \in Sides : A[q][m] = IF m = at /\ q = s THEN x ELSE T[q][m]
    /\ \A m \in Nodes : A.parent[m] = IF m = x THEN at ELSE T.parent[m]

\* x is added wherever at hangs.
Extended(S, at, x) == [m \in Ids |-> IF at \in S[m] THEN S[m] \cup {x} ELSE S[m]]

\* d lies on the right side of everything that at hangs below.
Fits(T, S, K, at, d) ==
    \A m \in Nodes, q \in Sides : at \in S[T[q][m]] => Before(q, d, K[m])

\* A leaf in the right place keeps the tree in order.
LEMMA GrownTied ==
    ASSUME NEW T, NEW S, NEW K, Tied(T, S, K), NEW at \in S[T.root], NEW s \in Sides, T[s][at] = NULL,
           NEW x \in Nodes \ S[T.root], NEW d \in Int, Fits(T, S, K, at, d), Before(s, d, K[at]),
           NEW A, Grown(T, A, at, s, x)
    PROVE  /\ Tied(A, Extended(S, at, x), [K EXCEPT ![x] = d])
           /\ Extended(S, at, x)[A.root] = S[T.root] \cup {x}
<1> DEFINE R == Extended(S, at, x)
           L == [K EXCEPT ![x] = d]
<1>1. /\ S \in [Ids -> SUBSET Nodes] /\ S[NULL] = {} /\ at \in Nodes /\ x \in Nodes /\ x # at
      /\ x # NULL /\ T.root \in Ids /\ K \in [Nodes -> Int]
  BY InsideIs, NodesAre DEF Tied, Subtrees, Ordered
<1>2. /\ A \in Trees /\ A.root = T.root
      /\ \A m \in Nodes, q \in Sides : A[q][m] = IF m = at /\ q = s THEN x ELSE T[q][m]
      /\ \A m \in Nodes : A.parent[m] = IF m = x THEN at ELSE T.parent[m]
  BY DEF Grown
<1>3. /\ R \in [Ids -> SUBSET Nodes] /\ \A m \in Ids : R[m] = IF at \in S[m] THEN S[m] \cup {x} ELSE S[m]
  BY <1>1, NodesAre DEF Extended
<1>4. L \in [Nodes -> Int] /\ L[x] = d /\ \A m \in Nodes : m # x => L[m] = K[m]
  BY <1>1
<1>5. ASSUME NEW m \in Nodes, x \in S[m] PROVE m = x
  <2>1. m \in S[T.root] => S[m] \subseteq S[T.root]
    BY InsideIs
  <2>2. m \notin S[T.root] => \A q \in Sides : T[q][m] = NULL
    BY DEF Tied, Linked
  <2>3. "left" \in Sides /\ Other("left") \in Sides
    BY SidesAre DEF Sides
  <2>4. S[m] = {m} \cup S[T["left"][m]] \cup S[T[Other("left")][m]]
    BY <2>3, ChildIs
  <2> QED BY <1>1, <1>5, <2>1, <2>2, <2>3, <2>4
<1>6. S[x] = {x} /\ \A q \in Sides : T[q][x] = NULL
  <2>1. \A q \in Sides : T[q][x] = NULL
    BY DEF Tied, Linked
  <2>2. "left" \in Sides /\ Other("left") \in Sides
    BY SidesAre DEF Sides
  <2>3. S[x] = {x} \cup S[T["left"][x]] \cup S[T[Other("left")][x]]
    BY <1>1, <2>2, ChildIs
  <2> QED BY <1>1, <2>1, <2>2, <2>3
<1>7. \A m \in Nodes, q \in Sides : T[q][m] \in Ids /\ T[q][m] # x
  <2> TAKE m \in Nodes, q \in Sides
  <2>1. T[q][m] # NULL => T[q][m] \in S[T.root]
    BY InsideIs
  <2> QED BY <1>1, <2>1, ChildIs
<1>8. \A m \in Nodes, q \in Sides : at \in S[T[q][m]] => at \in S[m] /\ m # at
  <2> TAKE m \in Nodes, q \in Sides
  <2> QED BY ChildIs
<1>9. at \in S[at]
  BY <1>1, ChildIs
<1> HIDE DEF R, L
<1>10. R[NULL] = {} /\ R[x] = {x} /\ R[at] = S[at] \cup {x}
  BY <1>1, <1>3, <1>6, <1>9, NodesAre
<1>11. Subtrees(A, R)
  <2> SUFFICES ASSUME NEW m \in Nodes, NEW q \in Sides
               PROVE  R[m] = {m} \cup R[A[q][m]] \cup R[A[Other(q)][m]]
    BY <1>3, <1>10 DEF Subtrees
  <2>1. /\ S[m] = {m} \cup S[T[q][m]] \cup S[T[Other(q)][m]] /\ Other(q) \in Sides /\ Other(q) # q
        /\ T[q][m] \in Ids /\ T[Other(q)][m] \in Ids /\ m \in Ids
    BY <1>7, SidesAre, ChildIs, NodesAre
  <2>2. CASE m = at
    <3>1. s = q \/ s = Other(q)
      BY SidesAre
    <3>2. at \notin S[T[q][m]] /\ at \notin S[T[Other(q)][m]]
      BY <1>8, <2>1, <2>2
    <3>3. R[T[q][m]] = S[T[q][m]] /\ R[T[Other(q)][m]] = S[T[Other(q)][m]]
      BY <1>3, <2>1, <3>2
    <3> QED BY <1>1, <1>2, <1>10, <2>1, <2>2, <3>1, <3>3
  <2>3. CASE m # at
    <3>1. A[q][m] = T[q][m] /\ A[Other(q)][m] = T[Other(q)][m]
      BY <1>2, <2>1, <2>3
    <3>2. at \in S[m] <=> at \in S[T[q][m]] \/ at \in S[T[Other(q)][m]]
      BY <2>1, <2>3
    <3> QED BY <1>3, <2>1, <3>1, <3>2
  <2> QED BY <2>2, <2>3
<1>12. Ordered(A, R, L)
  <2> SUFFICES ASSUME NEW m \in Nodes, NEW q \in Sides, NEW k \in R[A[q][m]]
               PROVE  Before(q, L[k], L[m])
    BY <1>4 DEF Ordered
  <2>0. k \in Nodes
    <3>1. A[q][m] \in Ids
      BY <1>2, FieldsAre
    <3> QED BY <1>3, <3>1
  <2>1. m # x
    BY <1>1, <1>2, <1>6, <1>10
  <2>2. CASE m = at /\ q = s
    <3>1. A[q][m] = x
      BY <1>1, <1>2, <2>2
    <3> QED BY <1>1, <1>4, <1>10, <2>1, <2>2, <3>1
  <2>3. CASE ~(m = at /\ q = s)
    <3>1. A[q][m] = T[q][m] /\ T[q][m] \in Ids
      BY <1>2, <1>7, <2>3
    <3>2. CASE k = x
      <4>1. at \in S[T[q][m]]
        <5>1. x \notin S[T[q][m]]
          BY <1>1, <1>5, <1>7, <3>1, NodesAre
        <5> QED BY <1>3, <3>1, <3>2, <5>1
      <4>2. Before(q, d, K[m])
        BY <4>1 DEF Fits
      <4> QED BY <1>4, <2>1, <3>2, <4>2
    <3>3. CASE k # x
      <4>1. k \in S[T[q][m]]
        BY <1>3, <3>1, <3>3
      <4>2. Before(q, K[k], K[m])
        BY <4>1 DEF Tied, Ordered
      <4> QED BY <1>4, <2>0, <2>1, <3>3, <4>2
    <3> QED BY <3>2, <3>3
  <2> QED BY <2>2, <2>3
<1>13. R[A.root] = S[T.root] \cup {x}
  BY <1>1, <1>2, <1>3
<1>14. Linked(A, R)
  <2>1. A.root # NULL => A.parent[A.root] = NULL
    <3>1. T.root # NULL => T.parent[T.root] = NULL
      BY DEF Tied, Linked
    <3>2. T.root # NULL => T.root # x /\ T.root \in Nodes
      BY <1>1, InsideIs, NodesAre
    <3> QED BY <1>2, <3>1, <3>2
  <2>2. ASSUME NEW m \in Nodes, NEW q \in Sides, A[q][m] # NULL
        PROVE  A.parent[A[q][m]] = m
    <3>1. CASE m = at /\ q = s
      BY <1>1, <1>2, <3>1
    <3>2. CASE ~(m = at /\ q = s)
      <4>1. A[q][m] = T[q][m]
        BY <1>2, <3>2
      <4>2. T[q][m] \in Nodes /\ T.parent[T[q][m]] = m
        BY <2>2, <4>1, ChildIs
      <4> QED BY <1>2, <1>7, <4>1, <4>2
    <3> QED BY <3>1, <3>2
  <2>3. ASSUME NEW m \in R[A.root], m # A.root
        PROVE  A.parent[m] \in Nodes /\ \E q \in Sides : A[q][A.parent[m]] = m
    <3>1. CASE m = x
      BY <1>1, <1>2, <3>1
    <3>2. CASE m # x
      <4>1. m \in S[T.root] /\ m # T.root /\ m \in Nodes
        BY <1>2, <1>13, <2>3, <3>2, InsideIs
      <4>2. T.parent[m] \in Nodes
        BY <4>1, InsideIs
      <4>3. PICK q \in Sides : T[q][T.parent[m]] = m
        BY <4>1, <4>2, InsideIs, NodesAre
      <4>4. A.parent[m] = T.parent[m]
        BY <1>2, <3>2, <4>1
      <4>5. A[q][T.parent[m]] = m
        <5>1. m # NULL
          BY <4>1, NodesAre
        <5> QED BY <1>2, <4>2, <4>3, <5>1
      <4> QED BY <4>2, <4>4, <4>5
    <3> QED BY <3>1, <3>2
  <2>4. ASSUME NEW m \in Nodes \ R[A.root]
        PROVE  A.parent[m] = NULL /\ \A q \in Sides : A[q][m] = NULL
    <3>1. m \notin S[T.root] /\ m # x /\ m # at
      BY <1>13
    <3>2. T.parent[m] = NULL /\ \A q \in Sides : T[q][m] = NULL
      BY <3>1 DEF Tied, Linked
    <3> QED BY <1>2, <3>1, <3>2
  <2> QED BY <2>1, <2>2, <2>3, <2>4 DEF Linked
<1> QED BY <1>2, <1>11, <1>12, <1>13, <1>14 DEF Tied, R, L

\* n is gone and its only child, or nothing, has its place.
Cut(T, A, n, c) ==
    /\ A \in Trees
    /\ A.root = IF T.root = n THEN c ELSE T.root
    /\ \A m \in Nodes, q \in Sides :
          A[q][m] = IF m = n THEN NULL ELSE IF T[q][m] = n THEN c ELSE T[q][m]
    /\ \A m \in Nodes :
          A.parent[m] = IF m = n THEN NULL ELSE IF m = c THEN T.parent[n] ELSE T.parent[m]

Without(S, n) == [m \in Ids |-> IF m = n THEN {n} ELSE S[m] \ {n}]

\* A node with one child at most can be cut out.
LEMMA CutTied ==
    ASSUME NEW T, NEW S, NEW K, Tied(T, S, K), NEW n \in S[T.root], NEW s \in Sides,
           T[Other(s)][n] = NULL, NEW A, Cut(T, A, n, T[s][n])
    PROVE  /\ Tied(A, Without(S, n), K)
           /\ Without(S, n)[A.root] = S[T.root] \ {n}
<1> DEFINE R == Without(S, n)
           c == T[s][n]
<1>1. /\ S \in [Ids -> SUBSET Nodes] /\ S[NULL] = {} /\ n \in Nodes /\ n # NULL
      /\ T.root \in Ids /\ K \in [Nodes -> Int]
  <2>1. n \in Nodes /\ T.root \in Ids
    BY InsideIs
  <2> QED BY <2>1, NodesAre DEF Tied, Subtrees, Ordered
<1>2. /\ A \in Trees
      /\ A.root = IF T.root = n THEN c ELSE T.root
      /\ \A m \in Nodes, q \in Sides :
            A[q][m] = IF m = n THEN NULL ELSE IF T[q][m] = n THEN c ELSE T[q][m]
      /\ \A m \in Nodes :
            A.parent[m] = IF m = n THEN NULL ELSE IF m = c THEN T.parent[n] ELSE T.parent[m]
  BY DEF Cut
<1>3. R \in [Ids -> SUBSET Nodes] /\ R[n] = {n} /\ \A m \in Ids : m # n => R[m] = S[m] \ {n}
  BY <1>1, NodesAre DEF Without
<1>4. /\ c \in Ids /\ c # n /\ S[n] = {n} \cup S[c] /\ n \notin S[c]
      /\ c # NULL => c \in Nodes /\ T.parent[c] = n /\ c \in S[T.root]
  <2>1. c # NULL => c \in Nodes /\ T.parent[c] = n /\ c \in S[T.root] /\ c # n
    BY <1>1, ChildIs, InsideIs
  <2>2. /\ c \in Ids /\ S[n] = {n} \cup S[c] \cup S[T[Other(s)][n]] /\ n \notin S[c]
    BY <1>1, ChildIs
  <2> QED BY <1>1, <2>1, <2>2
<1>5. \A m \in Nodes, q \in Sides : T[q][m] \in Ids /\ (T[q][m] = c /\ c # NULL => m = n)
  <2> TAKE m \in Nodes, q \in Sides
  <2>1. T[q][m] \in Ids /\ (T[q][m] # NULL => T.parent[T[q][m]] = m)
    BY ChildIs
  <2> HIDE DEF c
  <2> QED BY <1>4, <2>1
<1> HIDE DEF R, c
<1>6. \A m \in Nodes, q \in Sides : m # n => R[A[q][m]] = S[T[q][m]] \ {n}
  BY <1>2, <1>3, <1>4, <1>5
<1>7. R[NULL] = {}
  BY <1>1, <1>3, NodesAre
<1>8. Subtrees(A, R)
  <2> SUFFICES ASSUME NEW m \in Nodes, NEW q \in Sides
               PROVE  R[m] = {m} \cup R[A[q][m]] \cup R[A[Other(q)][m]]
    BY <1>3, <1>7 DEF Subtrees
  <2>1. Other(q) \in Sides
    BY SidesAre
  <2>2. CASE m = n
    BY <1>2, <1>3, <1>7, <2>1, <2>2
  <2>3. CASE m # n
    <3>1. S[m] = {m} \cup S[T[q][m]] \cup S[T[Other(q)][m]]
      BY ChildIs
    <3> QED BY <1>3, <1>6, <2>1, <2>3, <3>1, NodesAre, SMTT(30)
  <2> QED BY <2>2, <2>3
<1>9. Ordered(A, R, K)
  <2> SUFFICES ASSUME NEW m \in Nodes, NEW q \in Sides, NEW k \in R[A[q][m]]
               PROVE  Before(q, K[k], K[m])
    BY <1>1 DEF Ordered
  <2>1. m # n
    BY <1>2, <1>7
  <2>2. k \in S[T[q][m]]
    BY <1>6, <2>1
  <2> QED BY <2>2 DEF Tied, Ordered
<1>10. R[A.root] = S[T.root] \ {n}
  BY <1>1, <1>2, <1>3, <1>4
<1>11. Linked(A, R)
  <2>0. T.root # NULL => T.parent[T.root] = NULL
    BY DEF Tied, Linked
  <2>1. A.root # NULL => A.parent[A.root] = NULL
    <3>1. CASE T.root = n
      BY <1>1, <1>2, <1>4, <2>0, <3>1
    <3>2. CASE T.root # n
      <4>1. T.root # NULL => T.root # c
        BY <1>1, <1>4, <2>0
      <4> QED BY <1>1, <1>2, <2>0, <3>2, <4>1, NodesAre
    <3> QED BY <3>1, <3>2
  <2>2. ASSUME NEW m \in Nodes, NEW q \in Sides, A[q][m] # NULL
        PROVE  A.parent[A[q][m]] = m
    <3>1. m # n
      BY <1>2, <2>2
    <3>2. CASE T[q][m] = n
      <4>1. A[q][m] = c /\ c \in Nodes
        BY <1>2, <1>4, <2>2, <3>1, <3>2
      <4>2. T.parent[n] = m
        BY <1>1, <3>2, ChildIs
      <4> QED BY <1>2, <1>4, <4>1, <4>2
    <3>3. CASE T[q][m] # n
      <4>1. A[q][m] = T[q][m]
        BY <1>2, <3>1, <3>3
      <4>2. T[q][m] \in Nodes /\ T.parent[T[q][m]] = m
        BY <2>2, <4>1, ChildIs
      <4>3. T[q][m] # c
        BY <1>5, <2>2, <3>1, <4>1
      <4> QED BY <1>2, <3>3, <4>1, <4>2, <4>3
    <3> QED BY <3>2, <3>3
  <2>3. ASSUME NEW m \in R[A.root], m # A.root
        PROVE  A.parent[m] \in Nodes /\ \E q \in Sides : A[q][A.parent[m]] = m
    <3>1. m \in S[T.root] /\ m # n /\ m \in Nodes /\ m # NULL
      BY <1>10, InsideIs, NodesAre
    <3>2. CASE m = c
      <4>1. T.root # n
        BY <1>2, <2>3, <3>2
      <4>2. T.parent[n] \in Nodes /\ T.parent[n] # n
        BY <4>1, InsideIs, NodesAre
      <4>3. PICK q \in Sides : T[q][T.parent[n]] = n
        BY <4>1, <4>2, InsideIs, NodesAre
      <4> QED BY <1>2, <3>1, <3>2, <4>2, <4>3
    <3>3. CASE m # c
      <4>1. m # T.root
        BY <1>2, <2>3, <3>1
      <4>2. T.parent[m] \in Nodes
        BY <3>1, <4>1, InsideIs, NodesAre
      <4>3. PICK q \in Sides : T[q][T.parent[m]] = m
        BY <3>1, <4>1, <4>2, InsideIs, NodesAre
      <4>4. T.parent[m] # n
        <5> SUFFICES ASSUME T.parent[m] = n PROVE FALSE
          OBVIOUS
        <5>1. q = s \/ q = Other(s)
          BY SidesAre
        <5> QED BY <3>1, <3>3, <4>3, <5>1 DEF c
      <4>5. A[q][T.parent[m]] = m /\ A.parent[m] = T.parent[m]
        BY <1>2, <3>1, <3>3, <4>2, <4>3, <4>4
      <4> QED BY <4>2, <4>5
    <3> QED BY <3>2, <3>3
  <2>4. ASSUME NEW m \in Nodes \ R[A.root]
        PROVE  A.parent[m] = NULL /\ \A q \in Sides : A[q][m] = NULL
    <3>1. CASE m = n
      BY <1>2, <3>1
    <3>2. CASE m # n
      <4>1. m \notin S[T.root]
        BY <1>10, <3>2
      <4>2. T.parent[m] = NULL /\ \A q \in Sides : T[q][m] = NULL
        BY <4>1 DEF Tied, Linked
      <4>3. m # c
        BY <1>4, <4>1, NodesAre
      <4> QED BY <1>1, <1>2, <3>2, <4>2, <4>3
    <3> QED BY <3>1, <3>2
  <2> QED BY <2>1, <2>2, <2>3, <2>4 DEF Linked
<1> QED BY <1>2, <1>8, <1>9, <1>10, <1>11 DEF Tied, R

-----------------------------------------------------------------------------
\* Recursive functions along the links.

\* f has v where the path stops and follows from its value at the next element elsewhere.
Follows(f, X, V, stop, v, w, next) ==
    f \in [X -> V] /\ \A m \in X : f[m] = IF m \in stop THEN v[m] ELSE w[m][f[next[m]]]

\* A function whose value at an element follows from that at the next one, which is nearer to
\* the end, exists.
LEMMA PathExists ==
    ASSUME NEW n \in Nat, NEW X, NEW V, NEW h \in [X -> 0 .. n], NEW stop,
           NEW v \in [X -> V], NEW next \in [X -> X], NEW w \in [X -> [V -> V]],
           \A m \in X : m \notin stop => h[next[m]] < h[m]
    PROVE  \E f : Follows(f, X, V, stop, v, w, next)
<1> DEFINE G(g) == [m \in X |-> IF m \in stop THEN v[m] ELSE w[m][g[next[m]]]]
           all == [i \in 1 .. n + 2 |-> [g \in [X -> V] |-> G(g)]]
<1>1. \A g \in [X -> V] : G(g) \in [X -> V]
  OBVIOUS
<1>2. all \in [1 .. n + 2 -> [[X -> V] -> [X -> V]]]
  <2> HIDE DEF G
  <2> QED BY <1>1
<1>3. PICK F : Iterates(F, n + 2, [X -> V], v, all)
  <2> HIDE DEF all
  <2>1. n + 2 \in Nat
    OBVIOUS
  <2> QED BY <1>2, <2>1, IterateExists
<1>4. F \in [0 .. n + 2 -> [X -> V]] /\ \A i \in 1 .. n + 2 : F[i] = G(F[i - 1])
  <2>1. F \in [0 .. n + 2 -> [X -> V]] /\ \A i \in 1 .. n + 2 : F[i] = all[i][F[i - 1]]
    BY <1>3 DEF Iterates
  <2>2. ASSUME NEW i \in 1 .. n + 2 PROVE F[i] = G(F[i - 1])
    <3>1. F[i - 1] \in [X -> V]
      BY <2>1
    <3>2. \A g \in [X -> V] : all[i][g] = G(g)
      <4> HIDE DEF G
      <4> QED OBVIOUS
    <3> HIDE DEF G, all
    <3> QED BY <2>1, <3>1, <3>2
  <2> QED BY <2>1, <2>2
<1>5. ASSUME NEW i \in 1 .. n + 2, NEW m \in X
      PROVE  F[i][m] = IF m \in stop THEN v[m] ELSE w[m][F[i - 1][next[m]]]
  <2>1. F[i] = [k \in X |-> IF k \in stop THEN v[k] ELSE w[k][F[i - 1][next[k]]]]
    BY <1>4
  <2> QED BY <2>1
<1> HIDE DEF G, all
<1> DEFINE Good == {k \in 0 .. n + 1 : \A m \in X : h[m] < k => F[k + 1][m] = F[k][m]}
<1>6. \A k \in 0 .. n + 1 : k \in Good
  <2>1. n + 1 \in Nat
    OBVIOUS
  <2>2. 0 \in Good
    OBVIOUS
  <2>3. ASSUME NEW k \in 1 .. n + 1, k - 1 \in Good PROVE k \in Good
    <3>1. ASSUME NEW m \in X, h[m] < k PROVE F[k + 1][m] = F[k][m]
      <4>1. F[k + 1][m] = IF m \in stop THEN v[m] ELSE w[m][F[k][next[m]]]
        <5>1. k + 1 \in 1 .. n + 2 /\ (k + 1) - 1 = k
          OBVIOUS
        <5> QED BY <1>5, <5>1
      <4>2. F[k][m] = IF m \in stop THEN v[m] ELSE w[m][F[k - 1][next[m]]]
        <5>1. k \in 1 .. n + 2
          OBVIOUS
        <5> QED BY <1>5, <5>1
      <4>3. m \notin stop => F[k][next[m]] = F[k - 1][next[m]]
        <5>1. m \notin stop => h[next[m]] < k - 1
          <6>1. next[m] \in X /\ h[next[m]] \in Nat /\ h[m] \in Nat
            OBVIOUS
          <6> QED BY <3>1, <6>1
        <5>2. (k - 1) + 1 = k
          OBVIOUS
        <5> QED BY <2>3, <5>1, <5>2
      <4> QED BY <4>1, <4>2, <4>3
    <3> QED BY <3>1
  <2> HIDE DEF Good
  <2> QED BY <2>1, <2>2, <2>3, Induction
<1>7. F[n + 2] = F[n + 1]
  <2>1. n + 1 \in Good /\ (n + 1) + 1 = n + 2
    BY <1>6
  <2>2. \A m \in X : h[m] < n + 1
    OBVIOUS
  <2>3. \A m \in X : F[n + 2][m] = F[n + 1][m]
    BY <2>1, <2>2
  <2>4. F[n + 2] \in [X -> V] /\ F[n + 1] \in [X -> V]
    BY <1>4
  <2> QED BY <2>3, <2>4
<1>8. F[n + 1] \in [X -> V]
  BY <1>4
<1>9. \A m \in X : F[n + 1][m] = IF m \in stop THEN v[m] ELSE w[m][F[n + 1][next[m]]]
  <2>1. n + 2 \in 1 .. n + 2 /\ (n + 2) - 1 = n + 1
    OBVIOUS
  <2> QED BY <1>5, <1>7, <2>1
<1> QED BY <1>8, <1>9 DEF Follows

\* Along next, h says how far the path has to go until it stops.
Nears(h, n, X, stop, next) ==
    /\ n \in Nat /\ h \in [X -> 0 .. n] /\ next \in [X -> X]
    /\ \A m \in X : m \notin stop => h[next[m]] < h[m]

\* f leads from every element along next to one where the path stops.
Leads(f, X, stop, next) == f = [m \in X |-> IF m \in stop THEN m ELSE f[next[m]]]

\* The path does not leave Q.
Stays(Q, X, stop, next) == \A m \in X : m \in Q /\ m \notin stop => next[m] \in Q

\* A path that comes nearer to its end has one.
LEMMA LeadsExists ==
    ASSUME NEW n, NEW X, NEW h, NEW stop, NEW next, Nears(h, n, X, stop, next)
    PROVE  \E f : Leads(f, X, stop, next)
<1> DEFINE v == [m \in X |-> m]
           w == [m \in X |-> [y \in X |-> y]]
<1>1. v \in [X -> X] /\ w \in [X -> [X -> X]]
  OBVIOUS
<1>2. PICK f : Follows(f, X, X, stop, v, w, next)
  <2>1. n \in Nat /\ h \in [X -> 0 .. n] /\ next \in [X -> X] /\ \A m \in X : m \notin stop => h[next[m]] < h[m]
    BY DEF Nears
  <2> HIDE DEF v, w
  <2> QED BY <1>1, <2>1, PathExists
<1>3. f \in [X -> X] /\ \A m \in X : f[m] = IF m \in stop THEN v[m] ELSE w[m][f[next[m]]]
  BY <1>2 DEF Follows
<1>4. \A m \in X : f[m] = IF m \in stop THEN m ELSE f[next[m]]
  BY <1>3 DEF Nears
<1> QED BY <1>3, <1>4 DEF Leads

\* The path from an element of Q ends in Q.
LEMMA LeadsInto ==
    ASSUME NEW n, NEW X, NEW h, NEW stop, NEW next, Nears(h, n, X, stop, next),
           NEW f, Leads(f, X, stop, next), NEW Q, Stays(Q, X, stop, next)
    PROVE  \A m \in X : m \in Q => f[m] \in Q /\ f[m] \in stop
<1> DEFINE U == {m \in X : m \in Q => f[m] \in Q /\ f[m] \in stop}
<1>1. ASSUME NEW m \in X, \A k \in X : h[k] < h[m] => k \in U PROVE m \in U
  <2>1. next[m] \in X /\ f[m] = IF m \in stop THEN m ELSE f[next[m]]
    BY DEF Leads, Nears
  <2> QED BY <1>1, <2>1 DEF Stays, Nears
<1>2. X \subseteq U
  <2>1. h \in [X -> Nat]
    BY DEF Nears
  <2> HIDE DEF U
  <2> QED BY <1>1, <2>1, MeasureInduction
<1> QED BY <1>2

\* S is what the model computes.
LEMMA BelowIs ==
    ASSUME NEW T, NEW S, NEW K, Tied(T, S, K)
    PROVE  \A n \in Ids : Below(T, n) = S[n]
<1> DEFINE E(f) == [m \in Ids |-> IF m = NULL THEN {} ELSE {m} \cup f[T.left[m]] \cup f[T.right[m]]]
           below == CHOOSE f : f = E(f)
<1>1. /\ S \in [Ids -> SUBSET Nodes] /\ S[NULL] = {}
      /\ \A m \in Nodes : S[m] = {m} \cup S[T.left[m]] \cup S[T.right[m]]
  <2>1. \A m \in Nodes : S[m] = {m} \cup S[T["left"][m]] \cup S[T[Other("left")][m]]
    BY DEF Tied, Subtrees, Sides
  <2> QED BY <2>1 DEF Tied, Subtrees, Other
<1>2. S = E(S)
  BY <1>1, NodesAre
<1>3. below = E(below)
  <2> HIDE DEF E
  <2> QED BY <1>2
<1>4. ASSUME NEW n \in Ids PROVE Below(T, n) = below[n]
  BY DEF Below, Ids
<1> HIDE DEF below
<1>5. below[NULL] = {} /\ \A m \in Nodes : below[m] = {m} \cup below[T.left[m]] \cup below[T.right[m]]
  BY <1>3, NodesAre
<1> DEFINE Q == {m \in Nodes : below[m] = S[m]}
<1>6. ASSUME NEW m \in Nodes, \A s \in Sides : T[s][m] # NULL => T[s][m] \in Q PROVE m \in Q
  <2>1. "left" \in Sides /\ "right" \in Sides
    BY DEF Sides
  <2>2. below[T.left[m]] = S[T.left[m]] /\ below[T.right[m]] = S[T.right[m]]
    BY <1>1, <1>5, <1>6, <2>1
  <2> QED BY <1>1, <1>5, <2>2
<1>7. Nodes \subseteq Q
  <2> HIDE DEF Q
  <2> QED BY <1>6, TreeInduction
<1> QED BY <1>1, <1>4, <1>5, <1>7, NodesAre

\* How much hangs below a node.
Size(S) == [m \in Nodes |-> Cardinality(S[m])]

\* A child has less below it than its parent.
LEMMA SizeIs ==
    ASSUME NEW T, NEW S, NEW K, Tied(T, S, K)
    PROVE  /\ Size(S) \in [Nodes -> 0 .. MaxNodes] /\ MaxNodes \in Nat
           /\ \A m \in Nodes, s \in Sides : T[s][m] # NULL => Size(S)[T[s][m]] < Size(S)[m]
<1>1. ASSUME NEW m \in Nodes PROVE Cardinality(S[m]) \in 0 .. MaxNodes
  <2>1. S[m] \in SUBSET Nodes
    BY NodesAre DEF Tied, Subtrees
  <2> QED BY <2>1, ManyNodes
<1>2. Size(S) \in [Nodes -> 0 .. MaxNodes]
  BY <1>1 DEF Size
<1>3. ASSUME NEW m \in Nodes, NEW s \in Sides, T[s][m] # NULL PROVE Size(S)[T[s][m]] < Size(S)[m]
  <2>1. T[s][m] \in Nodes /\ Cardinality(S[T[s][m]]) < Cardinality(S[m])
    BY <1>3, ChildIs
  <2> QED BY <2>1 DEF Size
<1> QED BY <1>2, <1>3, NodesAre

\* e is the outermost node below n on that side.
IsOutermost(T, S, K, n, side, e) ==
    /\ e \in S[n] /\ T[side][e] = NULL
    /\ \A a \in S[n] : a = e \/ Before(side, K[e], K[a])

\* Following the links to one side ends at the outermost node.
LEMMA OutermostIs ==
    ASSUME NEW T, NEW S, NEW K, Tied(T, S, K), NEW n \in Nodes, NEW side \in Sides
    PROVE  IsOutermost(T, S, K, n, side, Outermost(T, n, side))
<1> DEFINE stop == {m \in Nodes : T[side][m] = NULL}
           next == [m \in Nodes |-> IF T[side][m] = NULL THEN m ELSE T[side][m]]
           E(f) == [m \in Nodes |-> IF T[side][m] = NULL THEN m ELSE f[T[side][m]]]
           end == CHOOSE f : f = E(f)
<1>1. next \in [Nodes -> Nodes] /\ \A m \in Nodes : m \notin stop => next[m] = T[side][m] /\ T[side][m] # NULL
  <2>1. \A m \in Nodes : T[side][m] # NULL => T[side][m] \in Nodes
    BY ChildIs
  <2> QED BY <2>1
<1>2. Nears(Size(S), MaxNodes, Nodes, stop, next)
  <2> HIDE DEF stop, next
  <2> QED BY <1>1, SizeIs DEF Nears
<1>3. \A f : f = E(f) <=> Leads(f, Nodes, stop, next)
  BY DEF Leads
<1>4. \E f : Leads(f, Nodes, stop, next)
  <2> HIDE DEF stop, next
  <2> QED BY <1>2, LeadsExists
<1>5. Leads(end, Nodes, stop, next)
  <2> HIDE DEF E, stop, next
  <2> QED BY <1>3, <1>4
<1>8. Outermost(T, n, side) = end[n]
  BY DEF Outermost
<1> HIDE DEF end
<1> DEFINE Q == {m \in S[n] : \A a \in S[n] : a \in S[m] \/ Before(side, K[m], K[a])}
<1>9. K \in [Nodes -> Int] /\ S[n] \subseteq Nodes /\ n \in S[n]
  BY ChildIs DEF Tied, Ordered
<1>10. n \in Q
  BY <1>9
<1>11. ASSUME NEW m \in Nodes, m \in Q, m \notin stop PROVE next[m] \in Q
  <2> DEFINE c == T[side][m]
             d == T[Other(side)][m]
  <2>1. c # NULL /\ c \in Nodes /\ c \in S[m] /\ c \in S[c] /\ S[m] = {m} \cup S[c] \cup S[d]
    BY <1>11, ChildIs
  <2>2. m \in S[n] /\ c \in S[n] /\ d \in Ids
    <3>1. m \in S[n] /\ S[m] \subseteq S[n]
      BY <1>11, Nested
    <3> QED BY <2>1, <3>1, SidesAre, ChildIs
  <2>3. Before(side, K[c], K[m]) /\ \A a \in S[d] : Before(Other(side), K[a], K[m])
    BY <2>1, SidesAre DEF Tied, Ordered
  <2> HIDE DEF c, d
  <2>4. ASSUME NEW a \in S[n], a \notin S[c] PROVE Before(side, K[c], K[a])
    <3>1. K[a] \in Int /\ K[m] \in Int /\ K[c] \in Int
      BY <1>9, <2>2
    <3>2. CASE a = m
      BY <2>3, <3>2
    <3>3. CASE a \in S[d]
      <4>1. Before(side, K[m], K[a])
        BY <2>3, <3>1, <3>3, BeforeIs
      <4> QED BY <2>3, <3>1, <4>1, BeforeIs
    <3>4. CASE a \notin S[m]
      <4>1. Before(side, K[m], K[a])
        BY <1>11, <3>4
      <4> QED BY <2>3, <3>1, <4>1, BeforeIs
    <3> QED BY <2>1, <2>4, <3>2, <3>3, <3>4
  <2>5. next[m] = c
    BY <1>1, <1>11 DEF c
  <2> QED BY <2>2, <2>4, <2>5
<1>12. Stays(Q, Nodes, stop, next)
  <2> HIDE DEF Q, stop, next
  <2> QED BY <1>11 DEF Stays
<1>14. end[n] \in Q /\ end[n] \in stop
  <2> HIDE DEF Q, stop, next
  <2> QED BY <1>2, <1>5, <1>10, <1>12, LeadsInto
<1> DEFINE e == end[n]
<1>15. e \in S[n] /\ e \in Nodes /\ T[side][e] = NULL /\ \A a \in S[n] : a \in S[e] \/ Before(side, K[e], K[a])
  BY <1>9, <1>14
<1> HIDE DEF e, Q, stop
<1>16. ASSUME NEW a \in S[n], a # e PROVE Before(side, K[e], K[a])
  <2>1. CASE a \in S[e]
    <3>1. a \in S[T[Other(side)][e]]
      <4>1. S[e] = {e} \cup S[T[side][e]] \cup S[T[Other(side)][e]] /\ S[NULL] = {}
        BY <1>15, ChildIs DEF Tied, Subtrees
      <4> QED BY <1>15, <1>16, <2>1, <4>1
    <3>2. Before(Other(side), K[a], K[e])
      BY <1>15, <3>1, SidesAre DEF Tied, Ordered
    <3>3. K[a] \in Int /\ K[e] \in Int
      BY <1>9, <1>15
    <3> QED BY <3>2, <3>3, BeforeIs
  <2>2. CASE a \notin S[e]
    BY <1>15, <2>2
  <2> QED BY <2>1, <2>2
<1>17. IsOutermost(T, S, K, n, side, e)
  BY <1>15, <1>16 DEF IsOutermost
<1> QED BY <1>8, <1>17 DEF e

SameLinks(T, A) == A.root = T.root /\ A.parent = T.parent /\ \A s \in Sides : A[s] = T[s]

\* Colors and the data of other nodes are no matter of the shape.
LEMMA TiedAgain ==
    ASSUME NEW T, NEW S, NEW K, Tied(T, S, K), NEW A \in Trees, SameLinks(T, A),
           NEW L \in [Nodes -> Int], \A m \in S[T.root] : L[m] = K[m]
    PROVE  Tied(A, S, L)
<1>1. Subtrees(A, S)
  BY SidesAre DEF Tied, Subtrees, SameLinks
<1>2. Linked(A, S)
  BY DEF Tied, Linked, SameLinks
<1>3. ASSUME NEW m \in Nodes, NEW s \in Sides, NEW a \in S[A[s][m]]
      PROVE  Before(s, L[a], L[m])
  <2>1. A[s][m] = T[s][m]
    BY DEF SameLinks
  <2>2. T[s][m] # NULL
    BY <1>3, <2>1 DEF Tied, Subtrees
  <2>3. m \in S[T.root] /\ T[s][m] \in S[T.root] /\ T[s][m] \in Nodes
    BY <2>2, InsideIs, ChildIs
  <2>4. a \in S[T.root]
    BY <1>3, <2>1, <2>3, InsideIs
  <2>5. Before(s, K[a], K[m])
    BY <1>3, <2>1 DEF Tied, Ordered
  <2> QED BY <2>3, <2>4, <2>5
<1> QED BY <1>1, <1>2, <1>3 DEF Tied, Ordered

\* at is where d is, or where a node for d belongs.
IsPlace(T, S, K, d, at) ==
    /\ at \in S[T.root]
    /\ Fits(T, S, K, at, d)
    /\ \A a \in S[T.root] : K[a] = d => at = a
    /\ K[at] # d => T[IF K[at] > d THEN "left" ELSE "right"][at] = NULL

\* The search of BinaryTreeInsertSorted ends where the data belong.
LEMMA DescendIs ==
    ASSUME NEW T, NEW S, Tied(T, S, T.data), NEW d \in Int, T.root # NULL
    PROVE  IsPlace(T, S, T.data, d, Descend(T, T.root, d))
<1> DEFINE K == T.data
           side(m) == IF T.data[m] > d THEN "left" ELSE "right"
           stop == {m \in Nodes : T.data[m] = d \/ T[side(m)][m] = NULL}
           next == [m \in Nodes |-> IF m \in stop THEN m ELSE T[side(m)][m]]
           E(f) == [m \in Nodes |-> IF T.data[m] = d \/ T[side(m)][m] = NULL THEN m ELSE f[T[side(m)][m]]]
           down == CHOOSE f : f = E(f)
<1>0. /\ K \in [Nodes -> Int] /\ (\A m \in Nodes : side(m) \in Sides) /\ T.root \in Nodes /\ T.root \in S[T.root]
      /\ S[T.root] \subseteq Nodes
  <2>1. K \in [Nodes -> Int]
    BY DEF Tied, Ordered
  <2>2. T.root \in S[T.root] /\ S[T.root] \subseteq Nodes
    BY InsideIs
  <2> QED BY <2>1, <2>2 DEF Sides
<1>1. ASSUME NEW m \in Nodes, m \notin stop
      PROVE  /\ next[m] = T[side(m)][m] /\ T[side(m)][m] # NULL /\ T[side(m)][m] \in Nodes /\ K[m] # d
             /\ Size(S)[next[m]] < Size(S)[m]
  <2>1. next[m] = T[side(m)][m] /\ T[side(m)][m] # NULL /\ K[m] # d
    BY <1>1
  <2>2. side(m) \in Sides
    BY <1>0
  <2>3. T[side(m)][m] \in Nodes /\ Size(S)[T[side(m)][m]] < Size(S)[m]
    <3> HIDE DEF side, next, stop
    <3> QED BY <2>1, <2>2, ChildIs, SizeIs
  <2> QED BY <2>1, <2>3
<1>2. Nears(Size(S), MaxNodes, Nodes, stop, next)
  <2>1. \A m \in Nodes : m \in stop => next[m] = m
    OBVIOUS
  <2>2. next \in [Nodes -> Nodes]
    <3>1. next = [m \in Nodes |-> next[m]]
      OBVIOUS
    <3> HIDE DEF next, stop, side
    <3> QED BY <1>1, <2>1, <3>1
  <2> HIDE DEF next, stop
  <2> QED BY <1>1, <2>2, SizeIs DEF Nears
<1>3. \A f : f = E(f) <=> Leads(f, Nodes, stop, next)
  BY DEF Leads
<1>4. \E f : Leads(f, Nodes, stop, next)
  <2> HIDE DEF stop, next
  <2> QED BY <1>2, LeadsExists
<1>5. Leads(down, Nodes, stop, next)
  <2> HIDE DEF E, stop, next
  <2> QED BY <1>3, <1>4
<1>6. Descend(T, T.root, d) = down[T.root]
  BY DEF Descend
<1> HIDE DEF down
<1> DEFINE Q == {m \in S[T.root] : Fits(T, S, K, m, d) /\ \A a \in S[T.root] : K[a] = d => a \in S[m]}
<1>7. T.root \in Q
  <2>1. ASSUME NEW m \in Nodes, NEW q \in Sides, T.root \in S[T[q][m]] PROVE FALSE
    <3>1. T[q][m] # NULL
      BY <2>1 DEF Tied, Subtrees
    <3>2. m \in S[T.root] /\ T.root \in S[m] /\ m \notin S[T[q][m]] /\ T[q][m] \in Nodes
      BY <2>1, <3>1, InsideIs, ChildIs
    <3>3. S[T.root] \subseteq S[T[q][m]]
      BY <2>1, <3>2, Nested
    <3> QED BY <3>2, <3>3
  <2> QED BY <1>0, <2>1 DEF Fits
<1>8. ASSUME NEW m \in Nodes, m \in Q, m \notin stop PROVE next[m] \in Q
  <2> DEFINE s == side(m)
             c == T[s][m]
  <2>1. s \in Sides /\ c # NULL /\ c \in Nodes /\ K[m] # d /\ next[m] = c
    BY <1>0, <1>1, <1>8
  <2>2. c \in S[T.root] /\ m \in S[T.root]
    <3> HIDE DEF s
    <3> QED BY <2>1, InsideIs
  <2>3. Before(s, d, K[m])
    <3>1. K[m] \in Int
      BY <1>0
    <3> QED BY <2>1, <3>1 DEF Before
  <2> HIDE DEF s, side, Q, stop
  <2>4. ASSUME NEW k \in Nodes, NEW q \in Sides, c \in S[T[q][k]] PROVE Before(q, d, K[k])
    <3>1. T[q][k] # NULL /\ T[q][k] \in Nodes /\ T.parent[T[q][k]] = k
      <4>1. T[q][k] # NULL
        BY <2>4 DEF Tied, Subtrees
      <4> QED BY <4>1, ChildIs
    <3>2. T.parent[c] = m
      BY <2>1, ChildIs
    <3>3. CASE c = T[q][k]
      <4>1. k = m
        BY <3>1, <3>2, <3>3
      <4>2. q = s
        <5>1. c \in S[c]
          BY <2>1, ChildIs
        <5>2. q = s \/ q = Other(s)
          BY <2>1, SidesAre
        <5>3. c \notin S[T[Other(s)][m]]
          BY <2>1, <5>1, ChildIs, SMTT(30)
        <5> QED BY <2>4, <4>1, <5>2, <5>3
      <4> QED BY <2>3, <4>1, <4>2
    <3>4. CASE c # T[q][k]
      <4>1. m \in S[T[q][k]]
        BY <2>4, <3>1, <3>2, <3>4, Nested
      <4> QED BY <1>8, <4>1 DEF Q, Fits
    <3> QED BY <3>3, <3>4
  <2>5. ASSUME NEW a \in S[T.root], K[a] = d PROVE a \in S[c]
    <3>1. a \in S[m] /\ a # m
      BY <1>8, <2>1, <2>5 DEF Q
    <3>2. S[m] = {m} \cup S[c] \cup S[T[Other(s)][m]]
      BY <2>1, ChildIs
    <3>3. a \notin S[T[Other(s)][m]]
      <4> SUFFICES ASSUME a \in S[T[Other(s)][m]] PROVE FALSE
        OBVIOUS
      <4>1. Before(Other(s), K[a], K[m]) /\ Other(s) \in Sides
        BY <2>1, SidesAre DEF Tied, Ordered
      <4>2. d \in Int /\ K[m] \in Int
        BY <1>0
      <4> QED BY <2>1, <2>3, <2>5, <4>1, <4>2, BeforeIs
    <3> QED BY <3>1, <3>2, <3>3
  <2> QED BY <2>1, <2>2, <2>4, <2>5 DEF Q, Fits
<1>9. Stays(Q, Nodes, stop, next)
  <2> HIDE DEF Q, stop, next
  <2> QED BY <1>8 DEF Stays
<1>10. down[T.root] \in Q /\ down[T.root] \in stop
  <2> HIDE DEF Q, stop, next
  <2> QED BY <1>0, <1>2, <1>5, <1>7, <1>9, LeadsInto
<1> DEFINE at == down[T.root]
<1>11. ASSUME NEW a \in S[T.root], K[a] = d PROVE at = a
  <2>1. a \in S[at] /\ at \in Nodes /\ at \in S[T.root]
    BY <1>10, <1>11
  <2>2. CASE K[at] = d
    BY <1>0, <1>11, <2>1, <2>2, OneKey
  <2>3. CASE K[at] # d
    <3> DEFINE s == side(at)
    <3>1. s \in Sides /\ T[s][at] = NULL
      BY <1>0, <1>10, <2>1, <2>3
    <3>2. Before(s, d, K[at]) /\ K[at] \in Int
      <4>1. K[at] \in Int
        BY <1>0, <2>1
      <4> QED BY <2>3, <4>1 DEF Before
    <3> HIDE DEF s, side, at
    <3>3. a \in S[T[Other(s)][at]]
      <4>1. S[at] = {at} \cup S[T[s][at]] \cup S[T[Other(s)][at]] /\ S[NULL] = {}
        BY <2>1, <3>1, ChildIs DEF Tied, Subtrees
      <4> QED BY <1>11, <2>1, <2>3, <3>1, <4>1
    <3>4. Before(Other(s), d, K[at])
      BY <1>11, <2>1, <3>1, <3>3, SidesAre DEF Tied, Ordered
    <3> QED BY <3>1, <3>2, <3>4, BeforeIs
  <2> QED BY <2>2, <2>3
<1>12. /\ at \in S[T.root] /\ Fits(T, S, K, at, d)
       /\ K[at] # d => T[IF K[at] > d THEN "left" ELSE "right"][at] = NULL
  BY <1>10
<1>13. IsPlace(T, S, K, d, at)
  <2> HIDE DEF at, K
  <2> QED BY <1>11, <1>12 DEF IsPlace
<1> QED BY <1>6, <1>13

\* The search finds the node that holds d.
LEMMA FindIs ==
    ASSUME NEW T, NEW S, Tied(T, S, T.data), NEW d \in Int
    PROVE  LET n == FindSorted(T, d) IN
           /\ n # NULL => n \in S[T.root] /\ T.data[n] = d
           /\ n = NULL => \A a \in S[T.root] : T.data[a] # d
<1>1. CASE T.root = NULL
  BY <1>1, InsideIs DEF FindSorted
<1>2. CASE T.root # NULL
  <2> DEFINE at == Descend(T, T.root, d)
  <2>1. IsPlace(T, S, T.data, d, at)
    BY <1>2, DescendIs
  <2>2. FindSorted(T, d) = IF T.data[at] = d THEN at ELSE NULL
    BY <1>2 DEF FindSorted
  <2>3. at # NULL
    BY <2>1, InsideIs, NodesAre DEF IsPlace
  <2>4. at \in S[T.root] /\ \A a \in S[T.root] : T.data[a] = d => at = a
    BY <2>1 DEF IsPlace
  <2> HIDE DEF at
  <2> QED BY <2>2, <2>3, <2>4
<1> QED BY <1>1, <1>2

-----------------------------------------------------------------------------
\* Assignments to the links.

SameRest(T, A) == A.nodeCount = T.nodeCount /\ A.used = T.used /\ A.data = T.data

\* c is n's child on that side, with nothing said of c's parent.
LinkSet(T, A, n, side, c) ==
    /\ A \in Trees /\ SameRest(T, A) /\ A.rank = T.rank /\ A.root = T.root /\ A.parent = T.parent
    /\ \A m \in Nodes, q \in Sides : A[q][m] = IF m = n /\ q = side THEN c ELSE T[q][m]

\* A child is assigned.
LEMMA SetLink ==
    ASSUME NEW T \in Trees, NEW n \in Nodes, NEW side \in Sides, NEW c \in Ids
    PROVE  LinkSet(T, [T EXCEPT ![side][n] = c], n, side, c)
<1> DEFINE A == [T EXCEPT ![side][n] = c]
<1>1. CASE side = "left"
  <2>1. /\ A \in Trees /\ SameRest(T, A) /\ A.rank = T.rank /\ A.root = T.root /\ A.parent = T.parent
        /\ A.left = [T.left EXCEPT ![n] = c] /\ A.right = T.right /\ T.left \in [Nodes -> Ids]
    BY <1>1 DEF Trees, SameRest
  <2>2. LinkSet(T, A, n, side, c)
    <3> HIDE DEF A
    <3> QED BY <1>1, <2>1 DEF Sides, LinkSet
  <2> QED BY <2>2
<1>2. CASE side = "right"
  <2>1. /\ A \in Trees /\ SameRest(T, A) /\ A.rank = T.rank /\ A.root = T.root /\ A.parent = T.parent
        /\ A.right = [T.right EXCEPT ![n] = c] /\ A.left = T.left /\ T.right \in [Nodes -> Ids]
    BY <1>2 DEF Trees, SameRest
  <2>2. LinkSet(T, A, n, side, c)
    <3> HIDE DEF A
    <3> QED BY <1>2, <2>1 DEF Sides, LinkSet
  <2> QED BY <2>2
<1> QED BY <1>1, <1>2 DEF Sides

\* c, if there is such a node, has the parent p.
ParentSet(T, A, c, p) ==
    /\ A \in Trees /\ SameRest(T, A) /\ A.rank = T.rank /\ A.root = T.root
    /\ \A s \in Sides : A[s] = T[s]
    /\ \A m \in Nodes : A.parent[m] = IF m = c THEN p ELSE T.parent[m]

\* The parent of a child that may be NULL is assigned.
LEMMA SetParentIs ==
    ASSUME NEW T \in Trees, NEW p \in Ids, NEW c \in Ids
    PROVE  ParentSet(T, SetParent(T, c, p), c, p)
<1>1. CASE c = NULL
  BY <1>1, NodesAre DEF SetParent, SameRest, ParentSet
<1>2. CASE c # NULL
  <2>1. c \in Nodes
    BY <1>2, NodesAre
  <2> DEFINE A == [T EXCEPT !.parent[c] = p]
  <2>2. SetParent(T, c, p) = A
    BY <1>2 DEF SetParent
  <2>3. /\ A \in Trees /\ SameRest(T, A) /\ A.rank = T.rank /\ A.root = T.root
        /\ A.left = T.left /\ A.right = T.right /\ A.parent = [T.parent EXCEPT ![c] = p]
        /\ T.parent \in [Nodes -> Ids]
    BY <2>1 DEF Trees, SameRest
  <2> HIDE DEF A
  <2> QED BY <1>2, <2>2, <2>3 DEF Sides, ParentSet
<1> QED BY <1>1, <1>2

\* c becomes n's child on that side.
Attached(T, A, n, side, c) ==
    /\ A \in Trees /\ SameRest(T, A) /\ A.rank = T.rank /\ A.root = T.root
    /\ \A m \in Nodes, q \in Sides : A[q][m] = IF m = n /\ q = side THEN c ELSE T[q][m]
    /\ \A m \in Nodes : A.parent[m] = IF m = c THEN n ELSE T.parent[m]

\* Child and parent are assigned together.
LEMMA AttachIs ==
    ASSUME NEW T \in Trees, NEW n \in Nodes, NEW side \in Sides, NEW c \in Ids
    PROVE  Attached(T, Attach(T, n, side, c), n, side, c)
<1> DEFINE U == [T EXCEPT ![side][n] = c]
           A == SetParent(U, c, n)
<1>1. LinkSet(T, U, n, side, c)
  BY SetLink
<1>2. Attach(T, n, side, c) = A
  BY DEF Attach
<1> HIDE DEF U
<1>3. ParentSet(U, A, c, n)
  <2>1. U \in Trees /\ n \in Ids
    BY <1>1, NodesAre DEF LinkSet
  <2> QED BY <2>1, SetParentIs
<1> HIDE DEF A
<1> QED BY <1>1, <1>2, <1>3 DEF SameRest, LinkSet, ParentSet, Attached

\* Where a node hangs.
LEMMA SideIs ==
    ASSUME NEW T, NEW S, NEW K, Tied(T, S, K), NEW n \in S[T.root], T.parent[n] # NULL
    PROVE  /\ T.parent[n] \in Nodes /\ T.parent[n] \in S[T.root] /\ T.parent[n] # n /\ n \in Nodes
           /\ Side(T, n) \in Sides /\ Other(Side(T, n)) \in Sides
           /\ T[Side(T, n)][T.parent[n]] = n
           /\ Sibling(T, n) = T[Other(Side(T, n))][T.parent[n]] /\ Sibling(T, n) # n
           /\ \A m \in Nodes, q \in Sides : T[q][m] = n => m = T.parent[n] /\ q = Side(T, n)
<1> DEFINE p == T.parent[n]
           s == Side(T, n)
<1>1. n \in Nodes /\ p \in Nodes /\ p \in S[T.root] /\ p # n
  BY InsideIs
<1>2. PICK q \in Sides : T[q][p] = n
  BY InsideIs
<1>3. s \in Sides /\ Other(s) \in Sides
  BY SidesAre DEF Side, Sides
<1>4. s = IF n = T["left"][p] THEN "left" ELSE "right"
  BY DEF Side
<1>5. T[s][p] = n
  BY <1>2, <1>4 DEF Sides
<1> HIDE DEF s
<1>6. ASSUME NEW m \in Nodes, NEW k \in Sides, T[k][m] = n PROVE m = p /\ k = s
  <2>1. n # NULL
    BY <1>1, NodesAre
  <2>2. T.parent[n] = m
    BY <1>6, <2>1, ChildIs
  <2>3. CASE k # s
    <3>1. k = Other(s)
      BY <1>3, <2>3, SidesAre
    <3>2. n \in S[T[s][p]] /\ n \notin S[T[Other(s)][p]]
      <4>1. n \in S[n]
        BY <1>1, <1>3, ChildIs
      <4>2. n \in S[T[s][p]]
        BY <1>5, <4>1
      <4> HIDE DEF p
      <4> QED BY <1>1, <1>3, <4>2, ChildIs
    <3> QED BY <1>5, <1>6, <2>2, <3>1, <3>2
  <2> QED BY <2>2, <2>3
<1>7. Sibling(T, n) = T[Other(s)][p]
  BY DEF Sibling, s
<1>8. Sibling(T, n) # n
  <2>1. Other(s) # s
    BY <1>3, SidesAre
  <2> HIDE DEF p
  <2> QED BY <1>1, <1>3, <1>6, <1>7, <2>1
<1> QED BY <1>1, <1>3, <1>5, <1>6, <1>7, <1>8 DEF s

\* The heap gives out a node that is free.
LEMMA FreshIs ==
    ASSUME NEW T \in Trees, CanAlloc(T)
    PROVE  Fresh(T) \in Nodes \ T.used
<1> DEFINE U == Nodes \ T.used
<1>1. U \subseteq Nat /\ U # {}
  BY NodesAre DEF CanAlloc, Trees
<1>2. \E n \in U : \A m \in U : n <= m
  <2> HIDE DEF U
  <2> QED BY <1>1, SmallestOf
<1> QED BY <1>2 DEF Fresh

-----------------------------------------------------------------------------
\* The next node.

\* e is the next node of the tree after n on that side, or NULL.
IsNext(T, S, K, n, side, e) ==
    /\ e # NULL => e \in S[T.root] /\ Before(side, K[e], K[n])
    /\ \A a \in S[T.root] : Before(side, K[a], K[n]) => e # NULL /\ (a = e \/ Before(side, K[a], K[e]))

\* n is the last node on that side of what hangs below m.
EndsWith(S, K, n, side, m) == n \in S[m] /\ \A a \in S[m] : ~Before(side, K[a], K[n])

\* Where a node lies between its children.
LEMMA OrderIs ==
    ASSUME NEW T, NEW S, NEW K, Tied(T, S, K), NEW m \in Nodes, NEW s \in Sides
    PROVE  /\ K \in [Nodes -> Int] /\ S[m] \subseteq Nodes
           /\ \A a \in S[T[s][m]] : Before(s, K[a], K[m])
           /\ \A a \in S[T[Other(s)][m]] : Before(Other(s), K[a], K[m]) /\ Before(s, K[m], K[a])
<1>1. Other(s) \in Sides /\ K \in [Nodes -> Int] /\ S[m] \subseteq Nodes
  BY SidesAre, ChildIs DEF Tied, Ordered
<1>2. /\ \A a \in S[T[s][m]] : Before(s, K[a], K[m])
      /\ \A a \in S[T[Other(s)][m]] : Before(Other(s), K[a], K[m])
  BY <1>1 DEF Tied, Ordered
<1>3. ASSUME NEW a \in S[T[Other(s)][m]] PROVE Before(s, K[m], K[a])
  <2>1. K[a] \in Int /\ K[m] \in Int
    <3>1. S[T[Other(s)][m]] \subseteq S[m]
      BY <1>1, ChildIs
    <3> QED BY <1>1, <1>3, <3>1
  <2>2. Before(Other(s), K[a], K[m])
    BY <1>2, <1>3
  <2> QED BY <2>1, <2>2, BeforeIs
<1> QED BY <1>1, <1>2, <1>3

\* The climb passes the nodes whose subtree n ends.
LEMMA EndsHigher ==
    ASSUME NEW T, NEW S, NEW K, Tied(T, S, K), NEW n \in S[T.root], NEW side \in Sides, NEW m \in S[T.root],
           EndsWith(S, K, n, side, m), T.parent[m] # NULL, T[Other(side)][T.parent[m]] # m
    PROVE  EndsWith(S, K, n, side, T.parent[m])
<1> DEFINE p == T.parent[m]
           d == T[Other(side)][p]
<1>1. p \in Nodes /\ \E s \in Sides : T[s][p] = m
  BY InsideIs
<1>2. T[side][p] = m
  BY <1>1, SidesAre
<1>3. S[p] = {p} \cup S[m] \cup S[d] /\ S[m] \subseteq S[p] /\ S[p] \subseteq Nodes
  BY <1>1, <1>2, ChildIs
<1>4. /\ K \in [Nodes -> Int]
      /\ \A a \in S[m] : Before(side, K[a], K[p])
      /\ \A a \in S[d] : Before(side, K[p], K[a])
  BY <1>1, <1>2, OrderIs
<1>5. n \in S[m] /\ \A a \in S[m] : ~Before(side, K[a], K[n])
  BY DEF EndsWith
<1> HIDE DEF p, d
<1>6. Before(side, K[n], K[p]) /\ K[n] \in Int /\ K[p] \in Int
  BY <1>1, <1>3, <1>4, <1>5
<1>7. ASSUME NEW a \in S[p], Before(side, K[a], K[n]) PROVE FALSE
  <2>1. K[a] \in Int
    BY <1>3, <1>4, <1>7
  <2>2. a = p \/ Before(side, K[p], K[a])
    BY <1>3, <1>4, <1>5, <1>7
  <2>3. Before(side, K[p], K[n])
    BY <1>6, <1>7, <2>1, <2>2, BeforeIs
  <2> QED BY <1>6, <2>3, BeforeIs
<1>8. EndsWith(S, K, n, side, p)
  BY <1>3, <1>5, <1>7 DEF EndsWith
<1> QED BY <1>8 DEF p

\* The climb stops where n's subtree is entered from its other side.
LEMMA EndsBefore ==
    ASSUME NEW T, NEW S, NEW K, Tied(T, S, K), NEW n \in S[T.root], NEW side \in Sides, NEW m \in S[T.root],
           EndsWith(S, K, n, side, m), T.parent[m] = NULL \/ T[Other(side)][T.parent[m]] = m
    PROVE  IsNext(T, S, K, n, side, T.parent[m])
<1> DEFINE p == T.parent[m]
           X == S[T.root]
<1>1. n \in S[m] /\ \A a \in S[m] : ~Before(side, K[a], K[n])
  BY DEF EndsWith
<1>2. CASE p = NULL
  <2>1. m = T.root
    BY <1>2, InsideIs
  <2> QED BY <1>1, <1>2, <2>1 DEF IsNext
<1>3. CASE p # NULL
  <2> DEFINE c == T[side][p]
  <2>1. p \in Nodes /\ p \in X /\ T[Other(side)][p] = m /\ T.root \in Nodes /\ X \subseteq Nodes /\ p \in S[p]
    <3>1. p \in Nodes /\ p \in X /\ X \subseteq Nodes
      BY <1>3, InsideIs
    <3>2. T.root \in Nodes
      BY InsideIs, NodesAre
    <3>3. p \in S[p]
      <4> HIDE DEF p
      <4> QED BY <3>1, ChildIs
    <3> QED BY <1>3, <3>1, <3>2, <3>3
  <2>2. S[p] = {p} \cup S[c] \cup S[m] /\ n \in S[p]
    <3>1. S[p] = {p} \cup S[c] \cup S[m]
      BY <2>1, ChildIs
    <3> QED BY <1>1, <3>1
  <2>3. /\ K \in [Nodes -> Int]
        /\ \A a \in S[c] : Before(side, K[a], K[p])
        /\ \A a \in S[m] : Before(side, K[p], K[a])
    BY <2>1, OrderIs
  <2>4. Before(side, K[p], K[n])
    BY <1>1, <2>3
  <2> HIDE DEF p, c
  <2>5. ASSUME NEW a \in X, Before(side, K[a], K[n]), a # p PROVE Before(side, K[a], K[p])
    <3>0. K[a] \in Int /\ K[p] \in Int /\ K[n] \in Int /\ Other(side) \in Sides
      BY <2>1, <2>3, SidesAre
    <3>1. CASE a \in S[p]
      BY <1>1, <2>2, <2>3, <2>5, <3>1
    <3>2. CASE a \notin S[p]
      <4>1. K[a] # K[p]
        BY <2>1, <2>5, OneKey
      <4>2. Before(side, K[a], K[p]) \/ Before(Other(side), K[a], K[p])
        BY <3>0, <4>1, BeforeIs
      <4>3. ASSUME Before(Other(side), K[a], K[p]) PROVE FALSE
        <5>1. Before(Other(side), K[a], K[n])
          BY <2>1, <2>2, <3>0, <3>2, <4>3, Convex
        <5> QED BY <2>5, <3>0, <5>1, BeforeIs
      <4> QED BY <4>2, <4>3
    <3> QED BY <3>1, <3>2
  <2>6. IsNext(T, S, K, n, side, p)
    <3>1. p # NULL /\ p \in X
      BY <1>3, <2>1
    <3> QED BY <2>4, <2>5, <3>1 DEF IsNext
  <2> QED BY <2>6 DEF p
<1> QED BY <1>2, <1>3

\* Without a child on that side the next node is above.
LEMMA ClimbIs ==
    ASSUME NEW T, NEW S, NEW K, Tied(T, S, K), NEW n \in S[T.root], NEW side \in Sides, T[side][n] = NULL
    PROVE  IsNext(T, S, K, n, side, Step(T, n, side))
<1> DEFINE o == Other(side)
           E(f) == [m \in Nodes |->
                      LET p == T.parent[m] IN IF p = NULL \/ T[Other(side)][p] = m THEN p ELSE f[p]]
           climb == CHOOSE f : f = E(f)
           stop == {m \in Nodes : T.parent[m] = NULL \/ T[o][T.parent[m]] = m}
           up == [m \in Nodes |-> IF T.parent[m] = NULL THEN m ELSE T.parent[m]]
           h == [m \in Nodes |-> MaxNodes - Cardinality(S[m])]
<1>1. T.parent \in [Nodes -> Ids] /\ up \in [Nodes -> Nodes]
  <2>1. T.parent \in [Nodes -> Ids]
    BY FieldsAre DEF Tied
  <2> QED BY <2>1, NodesAre
<1>2. h \in [Nodes -> 0 .. MaxNodes] /\ MaxNodes \in Nat
  <2>1. ASSUME NEW m \in Nodes PROVE MaxNodes - Cardinality(S[m]) \in 0 .. MaxNodes
    <3>1. S[m] \in SUBSET Nodes
      BY OrderIs
    <3>2. Cardinality(S[m]) \in 0 .. MaxNodes
      BY <3>1, ManyNodes
    <3> QED BY <3>2, NodesAre
  <2> QED BY <2>1, NodesAre
<1>3. ASSUME NEW m \in Nodes, T.parent[m] # NULL
      PROVE  h[T.parent[m]] < h[m] /\ T.parent[m] \in Nodes
  <2> DEFINE p == T.parent[m]
  <2>1. m \in S[T.root]
    BY <1>3 DEF Tied, Linked
  <2>2. p \in Nodes /\ \E s \in Sides : T[s][p] = m
    BY <1>3, <2>1, InsideIs
  <2>3. Cardinality(S[m]) < Cardinality(S[p])
    BY <2>2, ChildIs
  <2>4. S[m] \in SUBSET Nodes /\ S[p] \in SUBSET Nodes
    BY <2>2, OrderIs
  <2>5. Cardinality(S[m]) \in 0 .. MaxNodes /\ Cardinality(S[p]) \in 0 .. MaxNodes
    BY <2>4, ManyNodes
  <2> QED BY <1>2, <2>2, <2>3, <2>5
<1>4. Nears(h, MaxNodes, Nodes, stop, up)
  <2>1. \A m \in Nodes : m \notin stop => T.parent[m] # NULL /\ up[m] = T.parent[m]
    OBVIOUS
  <2> HIDE DEF h, stop, up
  <2> QED BY <1>1, <1>2, <1>3, <2>1 DEF Nears
<1>5. PICK g : Leads(g, Nodes, stop, up)
  <2> HIDE DEF h, stop, up
  <2> QED BY <1>4, LeadsExists
<1> DEFINE f0 == [m \in Nodes |-> T.parent[g[m]]]
<1>6. f0 = E(f0)
  <2>1. ASSUME NEW m \in Nodes
        PROVE  f0[m] = LET p == T.parent[m] IN IF p = NULL \/ T[Other(side)][p] = m THEN p ELSE f0[p]
    <3>1. g[m] = IF m \in stop THEN m ELSE g[up[m]]
      <4> HIDE DEF stop, up
      <4> QED BY <1>5 DEF Leads
    <3>2. CASE m \in stop
      BY <3>1, <3>2
    <3>3. CASE m \notin stop
      <4>1. T.parent[m] # NULL /\ up[m] = T.parent[m] /\ T[Other(side)][T.parent[m]] # m /\ T.parent[m] \in Nodes
        BY <1>3, <3>3
      <4> QED BY <3>1, <3>3, <4>1
    <3> QED BY <3>2, <3>3
  <2> QED BY <2>1
<1>7. climb = E(climb)
  <2> HIDE DEF E, f0
  <2> QED BY <1>6
<1>8. Step(T, n, side) = climb[n]
  BY DEF Step
<1> HIDE DEF climb
<1>9. \A m \in Nodes : climb[m] = IF m \in stop THEN T.parent[m] ELSE climb[T.parent[m]]
  BY <1>7
<1> DEFINE U == {m \in Nodes : m \in S[T.root] /\ EndsWith(S, K, n, side, m) => IsNext(T, S, K, n, side, climb[m])}
<1>10. ASSUME NEW m \in Nodes, \A k \in Nodes : h[k] < h[m] => k \in U PROVE m \in U
  <2> SUFFICES ASSUME m \in S[T.root], EndsWith(S, K, n, side, m) PROVE IsNext(T, S, K, n, side, climb[m])
    OBVIOUS
  <2>1. CASE m \in stop
    <3>1. IsNext(T, S, K, n, side, T.parent[m])
      BY <2>1, EndsBefore
    <3> QED BY <1>9, <2>1, <3>1
  <2>2. CASE m \notin stop
    <3>1. T.parent[m] # NULL /\ T[Other(side)][T.parent[m]] # m
      BY <2>2
    <3>2. EndsWith(S, K, n, side, T.parent[m]) /\ T.parent[m] \in S[T.root]
      BY <3>1, EndsHigher, InsideIs
    <3>3. T.parent[m] \in U
      BY <1>3, <1>10, <3>1
    <3>4. climb[m] = climb[T.parent[m]]
      BY <1>9, <2>2
    <3> HIDE DEF h, stop, E
    <3>5. IsNext(T, S, K, n, side, climb[T.parent[m]])
      BY <3>2, <3>3
    <3> QED BY <3>4, <3>5
  <2> QED BY <2>1, <2>2
<1>11. Nodes \subseteq U
  <2>1. h \in [Nodes -> Nat]
    BY <1>2
  <2> HIDE DEF h, U
  <2> QED BY <1>10, <2>1, MeasureInduction
<1>12. EndsWith(S, K, n, side, n) /\ n \in Nodes
  <2>1. n \in Nodes
    BY InsideIs
  <2>2. n \in S[n] /\ S[n] = {n} \cup S[T[side][n]] \cup S[T[Other(side)][n]] /\ S[NULL] = {} /\ S[n] \subseteq Nodes
    BY <2>1, ChildIs DEF Tied, Subtrees
  <2>3. K \in [Nodes -> Int] /\ \A a \in S[T[Other(side)][n]] : Before(side, K[n], K[a])
    BY <2>1, OrderIs
  <2>4. ASSUME NEW a \in S[n] PROVE ~Before(side, K[a], K[n])
    <3>1. a = n \/ Before(side, K[n], K[a])
      BY <2>2, <2>3
    <3>2. K[a] \in Int /\ K[n] \in Int
      BY <2>1, <2>2, <2>3
    <3> QED BY <3>1, <3>2, BeforeIs
  <2> QED BY <2>1, <2>2, <2>4 DEF EndsWith
<1> QED BY <1>8, <1>11, <1>12

\* TreeNext and TreePrev lead to the next node on their side.
LEMMA StepIs ==
    ASSUME NEW T, NEW S, NEW K, Tied(T, S, K), NEW n \in S[T.root], NEW side \in Sides
    PROVE  IsNext(T, S, K, n, side, Step(T, n, side))
<1>1. CASE T[side][n] = NULL
  BY <1>1, ClimbIs
<1>2. CASE T[side][n] # NULL
  <2> DEFINE c == T[side][n]
             o == Other(side)
             e == Outermost(T, c, o)
  <2>1. Step(T, n, side) = e
    BY <1>2 DEF Step
  <2>2. n \in Nodes /\ c \in Nodes /\ o \in Sides /\ Other(o) = side /\ S[c] \subseteq S[n] /\ S[n] \subseteq S[T.root]
    BY <1>2, InsideIs, ChildIs, SidesAre
  <2>3. IsOutermost(T, S, K, c, o, e)
    <3> HIDE DEF c, o
    <3> QED BY <2>2, OutermostIs
  <2>4. /\ K \in [Nodes -> Int] /\ S[n] \subseteq Nodes
        /\ \A a \in S[c] : Before(side, K[a], K[n])
        /\ \A a \in S[T[o][n]] : Before(side, K[n], K[a])
    BY <2>2, OrderIs
  <2>5. S[n] = {n} \cup S[c] \cup S[T[o][n]]
    BY <2>2, ChildIs
  <2> HIDE DEF c, e
  <2>6. e \in S[c] /\ \A a \in S[c] : a = e \/ Before(o, K[e], K[a])
    BY <2>3 DEF IsOutermost
  <2> HIDE DEF o
  <2>7. ASSUME NEW a \in S[T.root], Before(side, K[a], K[n]), a # e PROVE Before(side, K[a], K[e])
    <3>1. S[T.root] \subseteq Nodes /\ T.root \in Nodes
      BY InsideIs, NodesAre
    <3>2. K[a] \in Int /\ K[n] \in Int /\ K[e] \in Int /\ e \in S[n]
      BY <2>2, <2>4, <2>6, <3>1
    <3>3. CASE a \in S[c]
      <4>1. Before(o, K[e], K[a])
        BY <2>6, <2>7, <3>3
      <4>2. Before(Other(o), K[a], K[e])
        BY <2>2, <3>2, <4>1, BeforeIs
      <4> QED BY <2>2, <4>2
    <3>4. CASE a \in S[n] /\ a \notin S[c]
      <4>1. a = n \/ Before(side, K[n], K[a])
        BY <2>4, <2>5, <3>4
      <4> QED BY <2>7, <3>2, <4>1, BeforeIs
    <3>5. CASE a \notin S[n]
      BY <2>7, <3>1, <3>2, <3>5, Convex
    <3> QED BY <3>3, <3>4, <3>5
  <2>8. e # NULL /\ e \in S[T.root] /\ Before(side, K[e], K[n])
    <3>1. e \in Nodes
      BY <2>2, <2>4, <2>6
    <3> QED BY <2>2, <2>4, <2>6, <3>1, NodesAre
  <2>9. IsNext(T, S, K, n, side, e)
    BY <2>7, <2>8 DEF IsNext
  <2> QED BY <2>1, <2>9
<1> QED BY <1>1, <1>2

-----------------------------------------------------------------------------
\* The walks from end to end.

\* The nodes a walk to that side has passed when it is at a.
Passed(T, S, K, side, a) == {b \in S[T.root] : ~Before(side, K[b], K[a])}

Rank(T, S, K, side, a) == Cardinality(Passed(T, S, K, side, a))

\* A node is at some place on the way.
LEMMA RankIs ==
    ASSUME NEW T, NEW S, NEW K, Tied(T, S, K), NEW side \in Sides, NEW a \in S[T.root]
    PROVE  /\ Rank(T, S, K, side, a) \in 1 .. Cardinality(S[T.root])
           /\ Passed(T, S, K, side, a) \in SUBSET S[T.root] /\ a \in Passed(T, S, K, side, a)
           /\ IsFiniteSet(Passed(T, S, K, side, a)) /\ Cardinality(S[T.root]) \in 0 .. MaxNodes
           /\ Rank(T, S, K, side, a) = Cardinality(S[T.root]) => Passed(T, S, K, side, a) = S[T.root]
           /\ K[a] \in Int
<1> DEFINE X == S[T.root]
           P == Passed(T, S, K, side, a)
<1>1. X \in SUBSET Nodes /\ K \in [Nodes -> Int]
  BY InsideIs DEF Tied, Ordered
<1>2. P \in SUBSET X /\ a \in P
  <2>1. ~Before(side, K[a], K[a])
    <3>1. K[a] \in Int
      BY <1>1
    <3> QED BY <3>1, BeforeIs
  <2> QED BY <2>1 DEF Passed
<1> HIDE DEF P, X
<1>3. {} \in SUBSET P /\ {} # P /\ P \in SUBSET Nodes
  BY <1>1, <1>2
<1>4. /\ Cardinality(X) \in 0 .. MaxNodes /\ Cardinality(P) \in 0 .. MaxNodes /\ IsFiniteSet(P)
      /\ Cardinality({}) < Cardinality(P) /\ Cardinality({}) = 0
      /\ P # X => Cardinality(P) < Cardinality(X)
  BY <1>1, <1>2, <1>3, ManyNodes, FS_EmptySet
<1>5. Cardinality(P) \in 1 .. Cardinality(X) /\ (Cardinality(P) = Cardinality(X) => P = X)
  BY <1>4, NodesAre
<1>6. K[a] \in Int
  BY <1>1, <1>2
<1> QED BY <1>2, <1>4, <1>5, <1>6 DEF Rank, P, X

\* Places ascend with the data.
LEMMA RankGrows ==
    ASSUME NEW T, NEW S, NEW K, Tied(T, S, K), NEW side \in Sides, NEW a \in S[T.root], NEW b \in S[T.root],
           Before(side, K[b], K[a])
    PROVE  Rank(T, S, K, side, a) < Rank(T, S, K, side, b)
<1> DEFINE A == Passed(T, S, K, side, a)
           B == Passed(T, S, K, side, b)
<1>1. /\ A \in SUBSET S[T.root] /\ B \in SUBSET S[T.root] /\ b \in B /\ K[a] \in Int /\ K[b] \in Int
      /\ \A x \in S[T.root] : K[x] \in Int
  BY RankIs
<1>2. b \notin A
  BY DEF Passed
<1>3. ASSUME NEW x \in A PROVE x \in B
  <2>1. x \in S[T.root] /\ ~Before(side, K[x], K[a]) /\ K[x] \in Int
    BY <1>1 DEF Passed
  <2>2. ~Before(side, K[x], K[b])
    BY <1>1, <2>1, BeforeIs
  <2> QED BY <2>1, <2>2 DEF Passed
<1>4. B \in SUBSET Nodes
  BY <1>1, InsideIs
<1> HIDE DEF A, B
<1>5. A \in SUBSET B /\ A # B
  BY <1>1, <1>2, <1>3
<1>6. Cardinality(A) < Cardinality(B)
  BY <1>4, <1>5, ManyNodes
<1> QED BY <1>6 DEF Rank, A, B

\* A place has one node.
LEMMA RankTells ==
    ASSUME NEW T, NEW S, NEW K, Tied(T, S, K), NEW side \in Sides, NEW a \in S[T.root], NEW b \in S[T.root]
    PROVE  /\ Rank(T, S, K, side, a) = Rank(T, S, K, side, b) => a = b
           /\ Rank(T, S, K, side, a) < Rank(T, S, K, side, b) => Before(side, K[b], K[a])
<1>1. /\ Rank(T, S, K, side, a) \in Int /\ Rank(T, S, K, side, b) \in Int /\ K[a] \in Int /\ K[b] \in Int
      /\ T.root \in Nodes
  <2>1. Rank(T, S, K, side, a) \in 1 .. Cardinality(S[T.root]) /\ K[a] \in Int
    BY RankIs
  <2>2. Rank(T, S, K, side, b) \in 1 .. Cardinality(S[T.root]) /\ K[b] \in Int
    BY RankIs
  <2>3. T.root \in Nodes
    BY InsideIs, NodesAre
  <2> QED BY <2>1, <2>2, <2>3
<1>2. K[a] = K[b] => a = b
  BY <1>1, OneKey
<1>3. a = b \/ Before(side, K[b], K[a]) \/ Before(side, K[a], K[b])
  BY <1>1, <1>2, BeforeIs
<1>4. Before(side, K[a], K[b]) => Rank(T, S, K, side, b) < Rank(T, S, K, side, a)
  BY RankGrows
<1>5. Before(side, K[b], K[a]) => Rank(T, S, K, side, a) < Rank(T, S, K, side, b)
  BY RankGrows
<1> QED BY <1>1, <1>3, <1>4, <1>5

\* From either end it is as far.
LEMMA RankMirrored ==
    ASSUME NEW T, NEW S, NEW K, Tied(T, S, K), NEW side \in Sides, NEW a \in S[T.root]
    PROVE  Rank(T, S, K, Other(side), a) = Cardinality(S[T.root]) + 1 - Rank(T, S, K, side, a)
<1> DEFINE A == Passed(T, S, K, side, a)
           B == Passed(T, S, K, Other(side), a)
<1>0. Other(side) \in Sides
  BY SidesAre
<1>1. /\ A \in SUBSET S[T.root] /\ IsFiniteSet(A) /\ a \in A
      /\ Rank(T, S, K, side, a) \in Nat /\ Cardinality(S[T.root]) \in Nat
  <2>1. Rank(T, S, K, side, a) \in 1 .. Cardinality(S[T.root]) /\ Cardinality(S[T.root]) \in 0 .. MaxNodes
    BY RankIs
  <2> QED BY <2>1, RankIs
<1>2. B \in SUBSET S[T.root] /\ IsFiniteSet(B) /\ a \in B /\ Rank(T, S, K, Other(side), a) \in Nat
  <2>1. Rank(T, S, K, Other(side), a) \in 1 .. Cardinality(S[T.root])
    BY <1>0, RankIs
  <2> QED BY <1>0, <2>1, RankIs
<1>3. ASSUME NEW b \in S[T.root]
      PROVE  b \in A \cup B /\ (b \in A /\ b \in B => b = a)
  <2>1. K[a] \in Int /\ K[b] \in Int
    BY RankIs
  <2>2. Before(Other(side), K[b], K[a]) <=> Before(side, K[a], K[b])
    BY <2>1, BeforeIs
  <2>3. K[a] = K[b] => a = b
    BY InsideIs, NodesAre, OneKey
  <2>4. b \in A <=> ~Before(side, K[b], K[a])
    BY DEF Passed
  <2>5. b \in B <=> ~Before(side, K[a], K[b])
    BY <2>2 DEF Passed
  <2>6. ~(Before(side, K[a], K[b]) /\ Before(side, K[b], K[a]))
    BY <2>1, BeforeIs
  <2>7. K[a] # K[b] => Before(side, K[a], K[b]) \/ Before(side, K[b], K[a])
    BY <2>1, BeforeIs
  <2> QED BY <2>3, <2>4, <2>5, <2>6, <2>7
<1>4. Cardinality(A) = Rank(T, S, K, side, a) /\ Cardinality(B) = Rank(T, S, K, Other(side), a)
  BY DEF Rank
<1> HIDE DEF A, B
<1>5. A \cup B = S[T.root] /\ A \cap B = {a}
  BY <1>1, <1>2, <1>3
<1>6. Cardinality(A \cup B) = Cardinality(A) + Cardinality(B) - Cardinality(A \cap B)
  BY <1>1, <1>2, FS_Union
<1>7. Cardinality({a}) = 1
  BY FS_Singleton
<1> DEFINE i == Rank(T, S, K, side, a)
           j == Rank(T, S, K, Other(side), a)
           n == Cardinality(S[T.root])
<1>8. i \in Nat /\ j \in Nat /\ n \in Nat
  BY <1>1, <1>2
<1>9. n = i + j - 1
  BY <1>4, <1>5, <1>6, <1>7
<1> HIDE DEF i, j, n
<1>10. j = n + 1 - i
  BY <1>8, <1>9
<1> QED BY <1>10 DEF i, j, n

\* A step adds one node.
LEMMA RankOfNext ==
    ASSUME NEW T, NEW S, NEW K, Tied(T, S, K), NEW side \in Sides, NEW a \in S[T.root],
           NEW e, IsNext(T, S, K, a, side, e)
    PROVE  /\ e = NULL => Rank(T, S, K, side, a) = Cardinality(S[T.root])
           /\ e # NULL => e \in S[T.root] /\ Rank(T, S, K, side, e) = Rank(T, S, K, side, a) + 1
<1> DEFINE X == S[T.root]
           A == Passed(T, S, K, side, a)
           B == Passed(T, S, K, side, e)
<1>1. /\ e # NULL => e \in X /\ Before(side, K[e], K[a])
      /\ \A x \in X : Before(side, K[x], K[a]) => e # NULL /\ (x = e \/ Before(side, K[x], K[e]))
  BY DEF IsNext
<1>2. CASE e = NULL
  <2>1. A = X
    BY <1>1, <1>2 DEF Passed
  <2> QED BY <1>2, <2>1 DEF Rank
<1>3. CASE e # NULL
  <2>1. e \in X /\ Before(side, K[e], K[a]) /\ IsFiniteSet(A) /\ \A x \in X : K[x] \in Int
    BY <1>1, <1>3, RankIs
  <2>2. e \notin A
    BY <2>1 DEF Passed
  <2>3. ASSUME NEW x \in X PROVE x \in B <=> x = e \/ x \in A
    <3>1. K[x] \in Int /\ K[e] \in Int /\ K[a] \in Int
      BY <2>1
    <3>2. x \in B <=> ~Before(side, K[x], K[e])
      BY DEF Passed
    <3>3. x \in A <=> ~Before(side, K[x], K[a])
      BY DEF Passed
    <3>4. Before(side, K[x], K[a]) => x = e \/ Before(side, K[x], K[e])
      BY <1>1
    <3>5. Before(side, K[x], K[e]) => Before(side, K[x], K[a])
      BY <2>1, <3>1, BeforeIs
    <3>6. ~Before(side, K[e], K[e])
      BY <3>1, BeforeIs
    <3> QED BY <3>2, <3>3, <3>4, <3>5, <3>6
  <2>4. A \subseteq X /\ B \subseteq X
    BY DEF Passed
  <2> HIDE DEF A, B
  <2>5. B = A \cup {e}
    BY <2>1, <2>3, <2>4
  <2>6. Cardinality(A \cup {e}) = Cardinality(A) + 1
    BY <2>1, <2>2, FS_AddElement
  <2> QED BY <1>3, <2>1, <2>5, <2>6 DEF Rank, A, B
<1> QED BY <1>2, <1>3

\* W[i] is the node at the i-th place on the way to that side.
Ranked(T, S, K, side, W) ==
    /\ W \in [1 .. Cardinality(S[T.root]) -> S[T.root]]
    /\ \A i \in 1 .. Cardinality(S[T.root]) : Rank(T, S, K, side, W[i]) = i

\* at[k] is the node at place k + 1, or NULL beyond the last.
Placed(T, S, K, side, k, m) ==
    IF k < Cardinality(S[T.root])
    THEN m \in S[T.root] /\ Rank(T, S, K, side, m) = k + 1
    ELSE m = NULL

\* The node from which a walk to that side starts.
StartOf(T, side) == IF T.root = NULL THEN NULL ELSE Outermost(T, T.root, Other(side))

\* The walk starts at the first place.
LEMMA StartIs ==
    ASSUME NEW T, NEW S, NEW K, Tied(T, S, K), NEW side \in Sides
    PROVE  Placed(T, S, K, side, 0, StartOf(T, side)) /\ Cardinality(S[T.root]) \in 0 .. MaxNodes
<1> DEFINE N == Cardinality(S[T.root])
           e == StartOf(T, side)
<1>1. N \in 0 .. MaxNodes /\ S[T.root] \in SUBSET Nodes
  BY InsideIs, ManyNodes
<1>2. CASE T.root = NULL
  <2>1. S[T.root] = {}
    BY <1>2, InsideIs
  <2>2. N = 0 /\ e = NULL
    BY <1>2, <2>1, FS_EmptySet DEF StartOf
  <2> HIDE DEF N, e
  <2>3. ~(0 < N)
    BY <2>2
  <2> QED BY <1>1, <2>2, <2>3 DEF Placed, N, e
<1>3. CASE T.root # NULL
  <2> DEFINE o == Other(side)
             r == T.root
             P == Passed(T, S, K, side, e)
  <2>1. r \in Nodes /\ o \in Sides /\ Other(o) = side /\ e = Outermost(T, r, o)
    BY <1>3, InsideIs, NodesAre, SidesAre DEF StartOf
  <2>2. IsOutermost(T, S, K, r, o, e)
    <3>1. IsOutermost(T, S, K, r, o, Outermost(T, r, o))
      <4> HIDE DEF r, o
      <4> QED BY <2>1, OutermostIs
    <3> QED BY <2>1, <3>1
  <2> HIDE DEF e, o
  <2>3. e \in S[r] /\ \A a \in S[r] : a = e \/ Before(o, K[e], K[a])
    BY <2>2 DEF IsOutermost
  <2>4. e \in P /\ P \in SUBSET S[r] /\ Rank(T, S, K, side, e) \in 1 .. N
    BY <2>3, RankIs
  <2>5. ASSUME NEW a \in P PROVE a = e
    <3>1. a \in S[r] /\ ~Before(side, K[a], K[e]) /\ K[a] \in Int /\ K[e] \in Int
      BY <2>3, RankIs DEF Passed
    <3>2. Before(o, K[e], K[a]) => Before(side, K[a], K[e])
      BY <2>1, <3>1, BeforeIs
    <3> QED BY <2>3, <3>1, <3>2
  <2> HIDE DEF P
  <2>6. P = {e}
    BY <2>4, <2>5
  <2>7. Rank(T, S, K, side, e) = 1
    BY <2>6, FS_Singleton DEF Rank, P
  <2> HIDE DEF N
  <2>8. 0 < N
    BY <1>1, <2>4, <2>7
  <2>9. Placed(T, S, K, side, 0, e)
    <3>1. e \in S[T.root] /\ Rank(T, S, K, side, e) = 0 + 1
      BY <2>3, <2>7
    <3> QED BY <2>8, <3>1 DEF Placed, N
  <2> QED BY <1>1, <2>9 DEF e, N
<1> QED BY <1>2, <1>3

\* A step leads to the next place, or off the end.
LEMMA OnwardIs ==
    ASSUME NEW T, NEW S, NEW K, Tied(T, S, K), NEW side \in Sides, NEW k \in Nat, NEW m,
           Placed(T, S, K, side, k, m)
    PROVE  Placed(T, S, K, side, k + 1, Onward(T, m, side))
<1> DEFINE N == Cardinality(S[T.root])
           e == Onward(T, m, side)
<1>1. N \in Nat
  BY StartIs, NodesAre
<1>2. CASE k < N
  <2>1. m \in S[T.root] /\ Rank(T, S, K, side, m) = k + 1
    BY <1>2 DEF Placed
  <2>2. m # NULL
    <3>1. m \in Nodes
      BY <2>1, InsideIs
    <3> QED BY <3>1, NodesAre
  <2>3. IsNext(T, S, K, m, side, e)
    <3>1. IsNext(T, S, K, m, side, Step(T, m, side))
      BY <2>1, StepIs
    <3> QED BY <2>2, <3>1 DEF Onward
  <2> HIDE DEF e
  <2>4. /\ e = NULL => k + 1 = N
        /\ e # NULL => e \in S[T.root] /\ Rank(T, S, K, side, e) = (k + 1) + 1
    BY <2>1, <2>3, RankOfNext
  <2>5. e # NULL => Rank(T, S, K, side, e) \in 1 .. N
    BY <2>4, RankIs
  <2> HIDE DEF N
  <2>6. CASE e = NULL
    <3>1. ~(k + 1 < N)
      BY <1>1, <2>4, <2>6
    <3> QED BY <2>6, <3>1 DEF Placed, N, e
  <2>7. CASE e # NULL
    <3>1. k + 1 < N
      BY <1>1, <2>4, <2>5, <2>7
    <3> QED BY <2>4, <2>7, <3>1 DEF Placed, N, e
  <2> QED BY <2>6, <2>7
<1>3. CASE ~(k < N)
  <2>1. m = NULL
    BY <1>3 DEF Placed
  <2>2. e = NULL
    BY <2>1 DEF Onward
  <2> HIDE DEF N
  <2>3. ~(k + 1 < N)
    BY <1>1, <1>3
  <2> QED BY <2>2, <2>3 DEF Placed, N, e
<1> QED BY <1>2, <1>3

\* A walk from one end to the other visits every node.
LEMMA WalkIs ==
    ASSUME NEW T, NEW S, NEW K, Tied(T, S, K), NEW side \in Sides
    PROVE  \E W : /\ Ranked(T, S, K, side, W)
                  /\ Walk(T, StartOf(T, side), side) = [i \in 1 .. Cardinality(S[T.root]) |-> T.data[W[i]]]
<1> DEFINE N == Cardinality(S[T.root])
           first == StartOf(T, side)
           E(f) == [k \in 0 .. MaxNodes |-> IF k = 0 THEN first ELSE Onward(T, f[k - 1], side)]
           at == CHOOSE f : f = E(f)
           Y == S[T.root] \cup {NULL}
           G(m) == IF m \in Y THEN Onward(T, m, side) ELSE NULL
           all == [i \in 1 .. MaxNodes |-> [m \in Y |-> G(m)]]
<1>1. Placed(T, S, K, side, 0, first) /\ N \in 0 .. MaxNodes /\ MaxNodes \in Nat
  BY StartIs, NodesAre
<1>2. \A k \in Nat : \A m : Placed(T, S, K, side, k, m) => m \in Y
  BY DEF Placed
<1>3. ASSUME NEW m \in Y PROVE Onward(T, m, side) \in Y
  <2>1. CASE m = NULL
    BY <2>1 DEF Onward
  <2>2. CASE m # NULL
    <3>1. m \in S[T.root]
      BY <2>2
    <3>2. IsNext(T, S, K, m, side, Step(T, m, side))
      BY <3>1, StepIs
    <3>3. Step(T, m, side) \in Y
      BY <3>2 DEF IsNext
    <3> QED BY <2>2, <3>3 DEF Onward
  <2> QED BY <2>1, <2>2
<1> HIDE DEF Y, first
<1>4. all \in [1 .. MaxNodes -> [Y -> Y]] /\ \A i \in 1 .. MaxNodes, m \in Y : all[i][m] = Onward(T, m, side)
  BY <1>3
<1>5. first \in Y
  BY <1>1, <1>2
<1>6. PICK F : Iterates(F, MaxNodes, Y, first, all)
  <2> HIDE DEF all
  <2> QED BY <1>1, <1>4, <1>5, IterateExists
<1>7. F = E(F)
  <2>1. F \in [0 .. MaxNodes -> Y] /\ F[0] = first /\ \A i \in 1 .. MaxNodes : F[i] = all[i][F[i - 1]]
    BY <1>6 DEF Iterates
  <2> HIDE DEF all
  <2>2. ASSUME NEW k \in 0 .. MaxNodes
        PROVE  F[k] = IF k = 0 THEN first ELSE Onward(T, F[k - 1], side)
    <3>1. CASE k = 0
      BY <2>1, <3>1
    <3>2. CASE k # 0
      <4>1. k \in 1 .. MaxNodes /\ k - 1 \in 0 .. MaxNodes
        BY <1>1, <3>2
      <4>2. F[k - 1] \in Y /\ F[k] = all[k][F[k - 1]]
        BY <2>1, <4>1
      <4> QED BY <1>4, <3>2, <4>1, <4>2
    <3> QED BY <3>1, <3>2
  <2> QED BY <2>1, <2>2
<1>8. at = E(at)
  <2> HIDE DEF E
  <2> QED BY <1>7
<1>9. Walk(T, first, side) = [i \in 1 .. Cardinality({k \in 0 .. MaxNodes : at[k] # NULL}) |-> T.data[at[i - 1]]]
  BY DEF Walk
<1> HIDE DEF at
<1>10. at[0] = first /\ \A k \in 1 .. MaxNodes : at[k] = Onward(T, at[k - 1], side)
  <2>1. \A k \in 0 .. MaxNodes : at[k] = IF k = 0 THEN first ELSE Onward(T, at[k - 1], side)
    BY <1>8
  <2> HIDE DEF E
  <2>2. 0 \in 0 .. MaxNodes /\ \A k \in 1 .. MaxNodes : k \in 0 .. MaxNodes /\ k # 0
    BY <1>1
  <2> QED BY <2>1, <2>2
<1> HIDE DEF E
<1> DEFINE Q == {k \in 0 .. MaxNodes : Placed(T, S, K, side, k, at[k])}
<1>11. 0 \in Q
  BY <1>1, <1>10
<1>12. ASSUME NEW k \in 1 .. MaxNodes, k - 1 \in Q PROVE k \in Q
  <2>1. k - 1 \in Nat /\ k \in 0 .. MaxNodes /\ (k - 1) + 1 = k /\ Placed(T, S, K, side, k - 1, at[k - 1])
    BY <1>1, <1>12
  <2>2. Placed(T, S, K, side, (k - 1) + 1, Onward(T, at[k - 1], side))
    BY <2>1, OnwardIs
  <2> QED BY <1>10, <2>1, <2>2
<1>13. \A k \in 0 .. MaxNodes : k \in Q
  <2> HIDE DEF Q
  <2> QED BY <1>1, <1>11, <1>12, Induction
<1>14. \A k \in 0 .. MaxNodes : /\ k < N => at[k] \in S[T.root] /\ Rank(T, S, K, side, at[k]) = k + 1
                                /\ ~(k < N) => at[k] = NULL
  BY <1>13 DEF Placed
<1>15. NULL \notin S[T.root]
  BY InsideIs, NodesAre
<1> HIDE DEF Q, N
<1>16. {k \in 0 .. MaxNodes : at[k] # NULL} = 0 .. N - 1
  <2>1. \A k \in 0 .. MaxNodes : at[k] # NULL <=> k < N
    BY <1>14, <1>15
  <2>2. \A k \in 0 .. N - 1 : k \in 0 .. MaxNodes /\ k < N
    BY <1>1
  <2>3. \A k \in 0 .. MaxNodes : k < N => k \in 0 .. N - 1
    BY <1>1
  <2> QED BY <2>1, <2>2, <2>3
<1>17. Cardinality(0 .. N - 1) = N
  <2>1. 0 \in Int /\ N - 1 \in Int
    BY <1>1
  <2>2. Cardinality(0 .. N - 1) = IF 0 > N - 1 THEN 0 ELSE (N - 1) - 0 + 1
    BY <2>1, FS_Interval
  <2> QED BY <1>1, <2>2
<1> DEFINE W == [i \in 1 .. N |-> at[i - 1]]
<1>18. \A i \in 1 .. N : W[i] = at[i - 1] /\ i - 1 \in 0 .. MaxNodes /\ i - 1 < N /\ (i - 1) + 1 = i
  BY <1>1
<1>19. Ranked(T, S, K, side, W)
  <2>1. \A i \in 1 .. N : W[i] \in S[T.root] /\ Rank(T, S, K, side, W[i]) = i
    BY <1>14, <1>18
  <2>2. W \in [1 .. N -> S[T.root]]
    BY <1>14, <1>18
  <2> HIDE DEF W
  <2> QED BY <2>1, <2>2 DEF Ranked, N
<1>20. Walk(T, first, side) = [i \in 1 .. N |-> T.data[W[i]]]
  BY <1>9, <1>16, <1>17
<1> QED BY <1>19, <1>20 DEF first, N

\* What the tree holds.
Keys(T, S) == {T.data[m] : m \in S[T.root]}

\* What the model calls the contents.
LEMMA ContentsAre ==
    ASSUME NEW T, NEW S, Tied(T, S, T.data)
    PROVE  Contents(T) = Keys(T, S)
<1>1. InTree(T) = S[T.root]
  BY InsideIs, BelowIs DEF InTree
<1> QED BY <1>1 DEF Contents, Keys

\* Next visits the nodes of a tree in ascending order, Prev the other way round.
LEMMA WalksAre ==
    ASSUME NEW T, NEW S, Tied(T, S, T.data)
    PROVE  WalksInOrder(T)
<1> DEFINE K == T.data
           N == Cardinality(S[T.root])
           up == Walk(T, FirstNode(T), "right")
           down == Walk(T, LastNode(T), "left")
<1>1. Tied(T, S, K) /\ "left" \in Sides /\ "right" \in Sides /\ Other("left") = "right" /\ Other("right") = "left"
  BY DEF Sides, Other
<1>2. FirstNode(T) = StartOf(T, "right") /\ LastNode(T) = StartOf(T, "left")
  BY <1>1 DEF FirstNode, LastNode, StartOf
<1>3. N \in Nat
  BY <1>1, StartIs, NodesAre
<1>4. PICK U : Ranked(T, S, K, "right", U) /\ up = [i \in 1 .. N |-> K[U[i]]]
  BY <1>1, <1>2, WalkIs
<1>5. PICK D : Ranked(T, S, K, "left", D) /\ down = [i \in 1 .. N |-> K[D[i]]]
  BY <1>1, <1>2, WalkIs
<1>6. /\ \A i \in 1 .. N : U[i] \in S[T.root] /\ Rank(T, S, K, "right", U[i]) = i
      /\ \A i \in 1 .. N : D[i] \in S[T.root] /\ Rank(T, S, K, "left", D[i]) = i
  BY <1>4, <1>5 DEF Ranked
<1>7. Contents(T) = {K[m] : m \in S[T.root]}
  BY ContentsAre DEF Keys
<1> HIDE DEF up, down, N, K
<1>8. {up[i] : i \in DOMAIN up} = Contents(T)
  <2>1. \A i \in DOMAIN up : up[i] \in Contents(T)
    BY <1>4, <1>6, <1>7
  <2>2. ASSUME NEW m \in S[T.root] PROVE \E i \in DOMAIN up : up[i] = K[m]
    <3> DEFINE i == Rank(T, S, K, "right", m)
    <3>1. i \in 1 .. N
      BY <1>1, RankIs DEF N
    <3>2. U[i] \in S[T.root] /\ Rank(T, S, K, "right", U[i]) = i
      BY <1>6, <3>1
    <3>3. U[i] = m
      BY <1>1, <3>2, RankTells
    <3> HIDE DEF i
    <3> QED BY <1>4, <3>1, <3>3
  <2> QED BY <1>7, <2>1, <2>2
<1>9. ASSUME NEW i \in DOMAIN up, NEW j \in DOMAIN up, i < j PROVE up[i] < up[j]
  <2>1. i \in 1 .. N /\ j \in 1 .. N /\ up[i] = K[U[i]] /\ up[j] = K[U[j]]
    BY <1>4
  <2>2. U[i] \in S[T.root] /\ U[j] \in S[T.root] /\ Rank(T, S, K, "right", U[i]) < Rank(T, S, K, "right", U[j])
    BY <1>6, <1>9, <2>1
  <2>3. Before("right", K[U[j]], K[U[i]])
    BY <1>1, <2>2, RankTells
  <2>4. K[U[j]] > K[U[i]] /\ K[U[i]] \in Int /\ K[U[j]] \in Int
    <3>1. K[U[i]] \in Int /\ K[U[j]] \in Int
      BY <1>1, <2>2, RankIs
    <3> QED BY <2>3, <3>1 DEF Before
  <2> QED BY <2>1, <2>4
<1>10. Len(up) = N /\ Len(down) = N
  BY <1>3, <1>4, <1>5
<1>11. ASSUME NEW i \in DOMAIN up PROVE down[i] = up[Len(up) + 1 - i]
  <2> DEFINE j == N + 1 - i
  <2>1. i \in 1 .. N /\ j \in 1 .. N
    <3>1. i \in 1 .. N
      BY <1>4
    <3> QED BY <1>3, <3>1
  <2>2. down[i] = K[D[i]] /\ up[j] = K[U[j]]
    BY <1>4, <1>5, <2>1
  <2>3. D[i] \in S[T.root] /\ U[j] \in S[T.root] /\ Rank(T, S, K, "left", D[i]) = i /\ Rank(T, S, K, "right", U[j]) = j
    BY <1>6, <2>1
  <2>4. Rank(T, S, K, "right", D[i]) = N + 1 - i
    <3>1. Rank(T, S, K, Other("left"), D[i]) = N + 1 - Rank(T, S, K, "left", D[i])
      BY <1>1, <2>3, RankMirrored DEF N
    <3> QED BY <1>1, <2>3, <3>1
  <2>5. D[i] = U[j]
    BY <1>1, <2>3, <2>4, RankTells
  <2> QED BY <1>10, <2>2, <2>5
<1>12. WalksInOrder(T)
  BY <1>8, <1>9, <1>10, <1>11 DEF WalksInOrder, up, down
<1> QED BY <1>12
=============================================================================
