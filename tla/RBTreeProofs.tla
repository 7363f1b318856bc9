---------------------------- MODULE RBTreeProofs ----------------------------
(***************************************************************************)
(* Proofs about RBTree, for every number of nodes and all data: the links  *)
(* agree, the colors are as RBBinaryTreeVerifyProperties wants them, the walks *)
(* visit the data in order, and the tree is the set SortedSet promises.    *)
(*                                                                         *)
(* Repairs are followed by what is still wrong.  Inserting: the new red node *)
(* may have a red parent.  Deleting: below a node one black node is missing. *)
(* A step of the repair moves the fault up or ends it, and what hangs below *)
(* the node it is at grows, so the climb ends within MaxNodes calls.       *)
(***************************************************************************)
EXTENDS RBTree, BinaryTreeProofs

-----------------------------------------------------------------------------
\* Colors and heights.

\* What a node adds to the black height; x, which is about to be removed, adds nothing.
Weight(T, x, m) == IF m = x THEN 0 ELSE T.rank[m]

Due(X, m) == IF m \in X THEN 1 ELSE 0

\* H[m] black nodes lie on every way from m down, and below a node of X one is missing.
Heights(T, H, X, x) ==
    /\ H \in [Ids -> Nat] /\ H[NULL] = 0
    /\ \A m \in Nodes, s \in Sides : H[m] = Weight(T, x, m) + H[T[s][m]] + Due(X, T[s][m])

\* No red node has a red child, but that c may be one, and x is not looked at.
Reds(T, c, x) ==
    \A m \in Nodes, s \in Sides :
        T[s][m] # NULL /\ T.rank[m] = RED /\ T.rank[T[s][m]] = RED => T[s][m] = c \/ T[s][m] = x \/ m = x

Colored(T, S) ==
    /\ \A m \in Nodes : T.rank[m] \in {RED, BLACK}
    /\ \A m \in Nodes \ S[T.root] : T.rank[m] = RED

\* What lies below a node, in numbers.
LEMMA HeightsAre ==
    ASSUME NEW T, NEW S, NEW K, Tied(T, S, K), NEW H, NEW X, NEW x, Heights(T, H, X, x), Colored(T, S),
           NEW m \in Nodes
    PROVE  /\ H[m] \in Nat /\ H[NULL] = 0 /\ T.rank[m] \in {0, 1} /\ Weight(T, x, m) \in {0, 1}
           /\ (m # x => Weight(T, x, m) = T.rank[m])
           /\ \A s \in Sides : /\ H[T[s][m]] \in Nat /\ Due(X, T[s][m]) \in {0, 1}
                               /\ H[m] = Weight(T, x, m) + H[T[s][m]] + Due(X, T[s][m])
<1>1. \A s \in Sides : T[s][m] \in Ids
  BY ChildIs
<1> QED BY <1>1, NodesAre DEF Heights, Colored, Weight, Due, RED, BLACK

\* A rotation below a red r that exchanges the colors keeps the heights.
LEMMA RotatedHeights ==
    ASSUME NEW T, NEW S, NEW K, Tied(T, S, K), NEW n \in Nodes, NEW s \in Sides, T[Other(s)][n] # NULL,
           NEW A, Rotated(T, A, n, s), NEW H, NEW X, NEW x, Heights(T, H, X, x), Colored(T, S),
           T.rank[T[Other(s)][n]] = RED,
           n # x, T[Other(s)][n] # x, n \notin X, T[Other(s)][n] \notin X,
           A.rank = [T.rank EXCEPT ![n] = RED, ![T[Other(s)][n]] = T.rank[n]]
    PROVE  \E G : Heights(A, G, X, x)
<1> DEFINE o == Other(s)
           r == T[o][n]
           a == T[s][n]
           b == T[s][r]
           c == T[o][r]
           G == [H EXCEPT ![r] = H[n], ![n] = H[b] + Due(X, b)]
<1>1. o \in Sides /\ o # s /\ Other(o) = s /\ \A q \in Sides : q = s \/ q = o
  BY SidesAre
<1>2. r \in Nodes /\ r # n /\ r \in S[r] /\ n \notin S[r] /\ a \in Ids /\ T.parent[r] = n /\ n # NULL /\ r # NULL
      /\ (a # NULL => T.parent[a] = n /\ a \in S[a] /\ a # n) /\ (\A k \in S[a] : k \notin S[r])
  <2>1. a \in Ids /\ (a # NULL => T.parent[a] = n /\ a \in S[a] /\ a # n) /\ (\A k \in S[a] : k \notin S[r])
    BY ChildIs
  <2>2. r \in Nodes /\ r # n /\ r \in S[r] /\ n \notin S[r] /\ T.parent[r] = n
    BY <1>1, ChildIs
  <2> HIDE DEF a, r
  <2> QED BY <2>1, <2>2, NodesAre
<1>3. /\ b \in Ids /\ c \in Ids
      /\ b # NULL => b # r /\ b \in S[r]
      /\ c # NULL => c # r /\ c \in S[r]
  <2> HIDE DEF r
  <2> QED BY <1>1, <1>2, ChildIs
<1>4. /\ H[n] = T.rank[n] + H[a] + Due(X, a) /\ H[n] = T.rank[n] + H[r]
      /\ H[r] = H[b] + Due(X, b) /\ H[r] = H[c] + Due(X, c)
      /\ H[a] \in Nat /\ H[b] \in Nat /\ H[c] \in Nat /\ H[n] \in Nat /\ H[r] \in Nat /\ T.rank[n] \in {0, 1}
      /\ Due(X, a) \in {0, 1} /\ Due(X, b) \in {0, 1} /\ Due(X, c) \in {0, 1}
  <2>1. H[n] = T.rank[n] + H[a] + Due(X, a) /\ H[n] = T.rank[n] + H[r] + Due(X, r) /\ Due(X, r) = 0
        /\ H[a] \in Nat /\ H[n] \in Nat /\ H[r] \in Nat /\ T.rank[n] \in {0, 1} /\ Due(X, a) \in {0, 1}
    <3>1. Due(X, r) = 0
      BY DEF Due
    <3>2. Weight(T, x, n) = T.rank[n]
      BY DEF Weight
    <3> HIDE DEF r, a
    <3> QED BY <1>1, <3>1, <3>2, HeightsAre DEF r, a
  <2>2. /\ H[r] = 0 + H[b] + Due(X, b) /\ H[r] = 0 + H[c] + Due(X, c) /\ H[b] \in Nat /\ H[c] \in Nat
        /\ Due(X, b) \in {0, 1} /\ Due(X, c) \in {0, 1}
    <3>1. Weight(T, x, r) = 0
      BY DEF Weight, RED
    <3> HIDE DEF r
    <3> QED BY <1>1, <1>2, <3>1, HeightsAre
  <2> HIDE DEF r, a, b, c
  <2> QED BY <2>1, <2>2
<1>5. a # n /\ a # r /\ b # n /\ b # r /\ c # n /\ c # r
  BY <1>2, <1>3
<1>6. \A m \in Nodes, q \in Sides : T[q][m] \in Ids /\ (T[q][m] = r => m = n) /\ (T[q][m] # NULL => T.parent[T[q][m]] = m)
  <2> TAKE m \in Nodes, q \in Sides
  <2>1. T[q][m] \in Ids /\ (T[q][m] # NULL => T.parent[T[q][m]] = m)
    BY ChildIs
  <2> HIDE DEF r
  <2> QED BY <1>2, <2>1
<1>7. \A m \in Nodes, q \in Sides :
            A[q][m] = IF m = n /\ q = o THEN b ELSE IF m = r /\ q = s THEN n
                        ELSE IF T[q][m] = n THEN r ELSE T[q][m]
  BY DEF Rotated
<1>8. H \in [Ids -> Nat] /\ H[NULL] = 0
  BY DEF Heights
<1>9. /\ n # x /\ r # x /\ Due(X, n) = 0 /\ Due(X, r) = 0 /\ A.rank = [T.rank EXCEPT ![n] = RED, ![r] = T.rank[n]]
      /\ T.rank \in [Nodes -> Int]
  <2>1. T.rank \in [Nodes -> Int]
    BY FieldsAre DEF Tied
  <2> QED BY <2>1 DEF Due
<1> HIDE DEF o, r, a, b, c
<1>10. /\ G \in [Ids -> Nat] /\ G[r] = H[n] /\ G[n] = H[b] + Due(X, b)
       /\ \A m \in Ids : m # n /\ m # r => G[m] = H[m]
  BY <1>2, <1>4, <1>8, NodesAre
<1> HIDE DEF G
<1>11. A[o][n] = b /\ A[s][n] = a /\ A[s][r] = n /\ A[o][r] = c
  BY <1>1, <1>2, <1>5, <1>7 DEF a, c
<1>12. Weight(A, x, n) = 0 /\ Weight(A, x, r) = T.rank[n] /\ \A m \in Nodes : m # n /\ m # r => Weight(A, x, m) = Weight(T, x, m)
  BY <1>2, <1>9 DEF Weight, RED
<1>13. ASSUME NEW m \in Nodes, NEW q \in Sides
       PROVE  G[m] = Weight(A, x, m) + G[A[q][m]] + Due(X, A[q][m])
  <2>1. CASE m = n
    BY <1>1, <1>3, <1>4, <1>2, <1>5, <1>10, <1>11, <1>12, <2>1
  <2>2. CASE m = r
    BY <1>1, <1>2, <1>3, <1>4, <1>5, <1>9, <1>10, <1>11, <1>12, <2>2
  <2>3. CASE m # n /\ m # r
    <3>1. G[m] = Weight(T, x, m) + H[T[q][m]] + Due(X, T[q][m])
      BY <1>10, <2>3, NodesAre DEF Heights
    <3>2. CASE T[q][m] = n
      <4>1. A[q][m] = r
        BY <1>7, <2>3, <3>2
      <4> QED BY <1>9, <1>10, <1>12, <2>3, <3>1, <3>2, <4>1
    <3>3. CASE T[q][m] # n
      <4>1. A[q][m] = T[q][m] /\ T[q][m] # r /\ T[q][m] \in Ids
        BY <1>6, <1>7, <2>3, <3>3
      <4> QED BY <1>10, <1>12, <2>3, <3>1, <3>3, <4>1
    <3> QED BY <3>2, <3>3
  <2> QED BY <2>1, <2>2, <2>3
<1>14. G[NULL] = 0
  BY <1>2, <1>8, <1>10, NodesAre
<1>15. Heights(A, G, X, x)
  BY <1>10, <1>13, <1>14 DEF Heights
<1> QED BY <1>15

-----------------------------------------------------------------------------
\* The assignments of the code.

\* A node is painted.
Painted(T, A, n, color) ==
    /\ A \in Trees /\ SameRest(T, A) /\ SameLinks(T, A) /\ A.rank = [T.rank EXCEPT ![n] = color]
    /\ A.rank \in [Nodes -> Int]
    /\ \A m \in Nodes : A.rank[m] = IF m = n THEN color ELSE T.rank[m]

\* A color is assigned.
LEMMA PaintIs ==
    ASSUME NEW T \in Trees, NEW n \in Nodes, NEW color \in Int
    PROVE  Painted(T, Paint(T, n, color), n, color)
<1> DEFINE A == Paint(T, n, color)
<1>1. /\ A \in Trees /\ SameRest(T, A) /\ A.root = T.root /\ A.parent = T.parent
      /\ A.left = T.left /\ A.right = T.right /\ A.rank = [T.rank EXCEPT ![n] = color]
      /\ T.rank \in [Nodes -> Int]
  BY DEF Paint, Trees, SameRest
<1> HIDE DEF A
<1>2. Painted(T, A, n, color)
  BY <1>1 DEF Sides, SameLinks, Painted
<1> QED BY <1>2 DEF A

\* new has old's place.
Replaced(T, A, old, new) ==
    /\ A \in Trees /\ SameRest(T, A) /\ A.rank = T.rank
    /\ A.root = IF T.root = old THEN new ELSE T.root
    /\ \A m \in Nodes, q \in Sides : A[q][m] = IF T[q][m] = old THEN new ELSE T[q][m]
    /\ \A m \in Nodes : A.parent[m] = IF m = new THEN T.parent[old] ELSE T.parent[m]

\* RBBinaryTreeReplaceNode.
LEMMA ReplaceIs ==
    ASSUME NEW T, NEW S, NEW K, Tied(T, S, K), NEW old \in S[T.root], NEW new \in Ids
    PROVE  Replaced(T, ReplaceNode(T, old, new), old, new)
<1> DEFINE p == T.parent[old]
           V == [T EXCEPT !.root = new]
           W == [T EXCEPT ![Side(T, old)][p] = new]
           U == IF p = NULL THEN V ELSE W
           A == SetParent(U, new, p)
<1>1. T \in Trees /\ p \in Ids /\ old \in Nodes /\ (p = NULL <=> old = T.root)
  BY InsideIs DEF Tied
<1>2. ReplaceNode(T, old, new) = A
  BY DEF ReplaceNode
<1>3. /\ U \in Trees /\ SameRest(T, U) /\ U.rank = T.rank /\ U.parent = T.parent
      /\ U.root = IF T.root = old THEN new ELSE T.root
      /\ \A m \in Nodes, q \in Sides : U[q][m] = IF T[q][m] = old THEN new ELSE T[q][m]
  <2>1. CASE p = NULL
    <3>1. /\ V \in Trees /\ SameRest(T, V) /\ V.rank = T.rank /\ V.root = new /\ V.parent = T.parent
          /\ V.left = T.left /\ V.right = T.right
      BY <1>1 DEF Trees, SameRest
    <3>2. U = V
      BY <2>1
    <3>3. ASSUME NEW m \in Nodes, NEW q \in Sides PROVE T[q][m] # old
      <4>1. T[q][m] # NULL => T.parent[T[q][m]] = m
        BY ChildIs
      <4> QED BY <1>1, <2>1, <4>1, NodesAre
    <3> HIDE DEF V, U
    <3> QED BY <1>1, <2>1, <3>1, <3>2, <3>3 DEF Sides
  <2>2. CASE p # NULL
    <3> DEFINE s == Side(T, old)
    <3>1. p \in Nodes /\ s \in Sides /\ T[s][p] = old /\ \A m \in Nodes, q \in Sides : T[q][m] = old => m = p /\ q = s
      BY <2>2, SideIs
    <3>2. LinkSet(T, W, p, s, new)
      <4> HIDE DEF s, p
      <4>1. LinkSet(T, [T EXCEPT ![s][p] = new], p, s, new)
        BY <1>1, <3>1, SetLink
      <4> QED BY <4>1 DEF s, p
    <3>3. U = W
      BY <2>2
    <3> HIDE DEF W, U, s
    <3> QED BY <1>1, <2>2, <3>1, <3>2, <3>3 DEF LinkSet
  <2> QED BY <2>1, <2>2
<1> HIDE DEF U
<1>4. ParentSet(U, A, new, p)
  <2> HIDE DEF p
  <2> QED BY <1>1, <1>3, SetParentIs
<1> HIDE DEF A
<1>5. Replaced(T, A, old, new)
  BY <1>3, <1>4 DEF SameRest, ParentSet, Replaced
<1> QED BY <1>2, <1>5

\* What the rotation of the code does.
LEMMA RotateIs ==
    ASSUME NEW T, NEW S, NEW K, Tied(T, S, K), NEW n \in S[T.root], NEW s \in Sides, T[Other(s)][n] # NULL
    PROVE  /\ Rotated(T, Rotate(T, n, s), n, s) /\ SameRest(T, Rotate(T, n, s))
           /\ Rotate(T, n, s).rank = T.rank
<1> DEFINE o == Other(s)
           r == T[o][n]
           b == T[s][r]
           U == ReplaceNode(T, n, r)
           V == Attach(U, n, o, b)
           A == Attach(V, r, s, n)
<1>1. o \in Sides /\ o # s /\ n \in Nodes /\ r \in Nodes /\ r # n /\ r \in Ids
  <2>1. n \in Nodes /\ o \in Sides /\ o # s
    BY InsideIs, SidesAre
  <2>2. r \in Nodes /\ r # n
    BY <2>1, ChildIs
  <2> QED BY <2>1, <2>2, NodesAre
<1>2. b \in Ids /\ n \notin S[r] /\ (b # NULL => b # r /\ b \in S[r])
  <2>1. n \notin S[r]
    BY <1>1, ChildIs
  <2> HIDE DEF r
  <2> QED BY <1>1, <2>1, ChildIs
<1>3. Rotate(T, n, s) = A
  BY DEF Rotate
<1> HIDE DEF o, r, b
<1>4. Replaced(T, U, n, r)
  BY <1>1, ReplaceIs
<1> HIDE DEF U
<1>5. Attached(U, V, n, o, b)
  BY <1>1, <1>2, <1>4, AttachIs DEF Replaced
<1> HIDE DEF V
<1>6. Attached(V, A, r, s, n)
  <2>1. V \in Trees /\ n \in Ids /\ r \in Nodes /\ s \in Sides
    BY <1>1, <1>5, NodesAre DEF Attached
  <2> QED BY <2>1, AttachIs
<1> HIDE DEF A
<1>7. A \in Trees /\ SameRest(T, A) /\ A.rank = T.rank /\ A.root = IF T.root = n THEN r ELSE T.root
  BY <1>4, <1>5, <1>6 DEF SameRest, Replaced, Attached
<1>8. ASSUME NEW m \in Nodes, NEW q \in Sides
      PROVE  A[q][m] = IF m = n /\ q = o THEN b ELSE IF m = r /\ q = s THEN n
                        ELSE IF T[q][m] = n THEN r ELSE T[q][m]
  BY <1>1, <1>4, <1>5, <1>6 DEF Replaced, Attached
<1>9. ASSUME NEW m \in Nodes
      PROVE  A.parent[m] = IF m = n THEN r ELSE IF m = r THEN T.parent[n] ELSE IF m = b THEN n
                            ELSE T.parent[m]
  BY <1>1, <1>2, <1>4, <1>5, <1>6, NodesAre DEF Replaced, Attached
<1>10. Rotated(T, A, n, s)
  BY <1>7, <1>8, <1>9 DEF Rotated, o, r, b
<1> QED BY <1>3, <1>7, <1>10

-----------------------------------------------------------------------------
\* Insertion: the repair.

\* n has just come to where it is, red: it may have a red parent, and nothing else is wrong.
Inserting(T, S, K, n) ==
    /\ Tied(T, S, K) /\ Colored(T, S)
    /\ n \in S[T.root] /\ T.rank[n] = RED
    /\ T.root = n \/ T.rank[T.root] = BLACK
    /\ Reds(T, n, NULL)
    /\ \E H : Heights(T, H, {}, NULL)

\* Nothing is wrong.
Repaired(T, S, K) ==
    /\ Tied(T, S, K) /\ Colored(T, S)
    /\ T.root = NULL \/ T.rank[T.root] = BLACK
    /\ Reds(T, NULL, NULL)
    /\ \E H : Heights(T, H, {}, NULL)

\* A is T repaired, with the same nodes.
Repairs(T, S, K, A) == SameRest(T, A) /\ \E R : Repaired(A, R, K) /\ R[A.root] = S[T.root]

\* Colors are no matter of a rotation.
LEMMA RotatedSame ==
    ASSUME NEW T, NEW P, SameLinks(T, P), NEW n \in Nodes, NEW s \in Sides, NEW A, Rotated(P, A, n, s)
    PROVE  Rotated(T, A, n, s)
BY SidesAre DEF SameLinks, Rotated

\* Nor are they of the order.
LEMMA PaintedTied ==
    ASSUME NEW T, NEW S, NEW K, Tied(T, S, K), NEW A \in Trees, SameLinks(T, A)
    PROVE  Tied(A, S, K)
<1>1. K \in [Nodes -> Int]
  BY DEF Tied, Ordered
<1> QED BY <1>1, TiedAgain

\* The family of a red node whose parent is red.
LEMMA RedParent ==
    ASSUME NEW T, NEW S, NEW K, NEW n, Inserting(T, S, K, n), T.parent[n] # NULL, T.rank[T.parent[n]] = RED
    PROVE  LET p == T.parent[n]
               g == T.parent[p]
           IN  /\ n \in Nodes /\ p \in S[T.root] /\ p \in Nodes /\ g # NULL /\ g \in S[T.root] /\ g \in Nodes
               /\ n # p /\ p # g /\ n # g /\ T.rank[g] = BLACK
               /\ Side(T, n) \in Sides /\ T[Side(T, n)][p] = n
               /\ Side(T, p) \in Sides /\ T[Side(T, p)][g] = p
               /\ Sibling(T, p) = T[Other(Side(T, p))][g]
               /\ \A m \in Nodes, q \in Sides : T[q][m] = n => m = p /\ q = Side(T, n)
               /\ \A m \in Nodes, q \in Sides : T[q][m] = p => m = g /\ q = Side(T, p)
<1> DEFINE p == T.parent[n]
           g == T.parent[p]
<1>1. Tied(T, S, K) /\ n \in S[T.root] /\ T.rank[n] = RED /\ Colored(T, S) /\ Reds(T, n, NULL)
      /\ (T.root = n \/ T.rank[T.root] = BLACK)
  BY DEF Inserting
<1>2. /\ n \in Nodes /\ p \in S[T.root] /\ p \in Nodes /\ n # p
      /\ Side(T, n) \in Sides /\ T[Side(T, n)][p] = n
      /\ \A m \in Nodes, q \in Sides : T[q][m] = n => m = p /\ q = Side(T, n)
  BY <1>1, SideIs
<1>3. p # T.root /\ n # T.root
  <2>1. n # T.root
    BY <1>1, InsideIs
  <2> QED BY <1>1, <2>1 DEF RED, BLACK
<1> HIDE DEF p
<1>4. g # NULL
  BY <1>1, <1>2, <1>3, InsideIs
<1>5. /\ g \in Nodes /\ g \in S[T.root] /\ p # g
      /\ Side(T, p) \in Sides /\ T[Side(T, p)][g] = p
      /\ Sibling(T, p) = T[Other(Side(T, p))][g]
      /\ \A m \in Nodes, q \in Sides : T[q][m] = p => m = g /\ q = Side(T, p)
  BY <1>1, <1>2, <1>4, SideIs
<1> HIDE DEF g
<1>6. n # g
  <2> SUFFICES ASSUME n = g PROVE FALSE
    OBVIOUS
  <2>1. n \in S[T[Side(T, n)][p]] /\ p \in S[T[Side(T, p)][n]] /\ p \in S[n]
    BY <1>1, <1>2, <1>5, ChildIs
  <2>2. p \notin S[T[Side(T, n)][p]]
    BY <1>1, <1>2, ChildIs
  <2> QED BY <1>2, <2>1, <2>2
<1>7. T.rank[g] = BLACK
  <2>1. T.rank[g] \in {RED, BLACK} /\ T.rank[p] = RED /\ p # NULL
    BY <1>1, <1>2, <1>5, NodesAre DEF Colored, p
  <2>2. T.rank[g] # RED
    <3> SUFFICES ASSUME T.rank[g] = RED PROVE FALSE
      OBVIOUS
    <3>1. T[Side(T, p)][g] = n \/ T[Side(T, p)][g] = NULL \/ g = NULL
      BY <1>1, <1>5, <2>1 DEF Reds
    <3> QED BY <1>2, <1>4, <1>5, <2>1, <3>1
  <2> QED BY <2>1, <2>2
<1> QED BY <1>2, <1>4, <1>5, <1>6, <1>7 DEF p, g

\* Case 5 repairs what is left: the parent is rotated above the grandparent.
LEMMA InsertCase5Is ==
    ASSUME NEW T, NEW S, NEW K, NEW n, Inserting(T, S, K, n), T.parent[n] # NULL, T.rank[T.parent[n]] = RED,
           ~RedUncle(T, n), Side(T, n) = Side(T, T.parent[n])
    PROVE  Repairs(T, S, K, InsertCase5(T, n))
<1> DEFINE p == T.parent[n]
           g == T.parent[p]
           s == Side(T, n)
           o == Other(s)
           P1 == Paint(T, p, BLACK)
           P == Paint(P1, g, RED)
           A == Rotate(P, g, o)
           b == T[o][p]
           u == T[o][g]
<1>1. Tied(T, S, K) /\ n \in S[T.root] /\ T.rank[n] = RED /\ Colored(T, S) /\ Reds(T, n, NULL)
      /\ (T.root = n \/ T.rank[T.root] = BLACK)
  BY DEF Inserting
<1>2. /\ n \in Nodes /\ p \in S[T.root] /\ p \in Nodes /\ g # NULL /\ g \in S[T.root] /\ g \in Nodes
      /\ n # p /\ p # g /\ n # g /\ T.rank[g] = BLACK
      /\ s \in Sides /\ T[s][p] = n /\ T[s][g] = p /\ Sibling(T, p) = u
      /\ \A m \in Nodes, q \in Sides : T[q][m] = n => m = p /\ q = s
      /\ \A m \in Nodes, q \in Sides : T[q][m] = p => m = g /\ q = s
  BY RedParent
<1>3. o \in Sides /\ o # s /\ Other(o) = s /\ \A q \in Sides : q = s \/ q = o
  BY <1>2, SidesAre
<1>4. InsertCase5(T, n) = A
  BY DEF InsertCase5, GrandParent
<1>5. u = NULL \/ T.rank[u] # RED
  BY <1>2 DEF RedUncle, Color
<1>6. T.rank[p] = RED /\ p # NULL
  BY <1>2, NodesAre
<1> HIDE DEF p, g, s, o, b, u
<1>7. Painted(T, P1, p, BLACK) /\ Painted(P1, P, g, RED)
  <2>1. T \in Trees /\ RED \in Int /\ BLACK \in Int
    BY <1>1 DEF Tied, RED, BLACK
  <2>2. Painted(T, P1, p, BLACK)
    BY <1>2, <2>1, PaintIs
  <2> HIDE DEF P1
  <2>3. P1 \in Trees
    BY <2>2 DEF Painted
  <2> QED BY <1>2, <2>1, <2>2, <2>3, PaintIs
<1> HIDE DEF P, P1
<1>8. /\ P \in Trees /\ SameLinks(T, P) /\ SameRest(T, P) /\ P.rank \in [Nodes -> Int]
      /\ \A m \in Nodes : P.rank[m] = IF m = g THEN RED ELSE IF m = p THEN BLACK ELSE T.rank[m]
  BY <1>2, <1>7 DEF Painted, SameLinks, SameRest
<1>9. Tied(P, S, K)
  BY <1>1, <1>8, PaintedTied
<1>10. P[s][g] # NULL /\ P.root = T.root
  BY <1>2, <1>6, <1>8 DEF SameLinks
<1>11. Rotated(P, A, g, o) /\ SameRest(P, A) /\ A.rank = P.rank
  BY <1>2, <1>3, <1>9, <1>10, RotateIs
<1> HIDE DEF A
<1>12. Rotated(T, A, g, o)
  BY <1>2, <1>3, <1>8, <1>11, RotatedSame
<1> DEFINE R == Turned(T, S, g, o)
<1>13. Tied(A, R, K) /\ R[A.root] = S[T.root]
  BY <1>1, <1>2, <1>3, <1>6, <1>12, RotatedTied
<1> HIDE DEF R
<1>14. /\ A.root = IF T.root = g THEN p ELSE T.root
       /\ \A m \in Nodes, q \in Sides :
              A[q][m] = IF m = g /\ q = s THEN b ELSE IF m = p /\ q = o THEN g
                        ELSE IF T[q][m] = g THEN p ELSE T[q][m]
  BY <1>2, <1>3, <1>12 DEF Rotated, b
<1>15. \A m \in Nodes : A.rank[m] = IF m = g THEN RED ELSE IF m = p THEN BLACK ELSE T.rank[m]
  BY <1>8, <1>11
<1>16. Colored(A, R)
  BY <1>1, <1>2, <1>13, <1>15 DEF Colored
<1>17. A.root = NULL \/ A.rank[A.root] = BLACK
  <2>1. n # T.root
    BY <1>1, <1>6, InsideIs DEF p
  <2>2. T.root \in Nodes
    BY <1>1, InsideIs, NodesAre
  <2> QED BY <1>1, <1>2, <1>6, <1>14, <1>15, <2>1, <2>2 DEF RED, BLACK
<1>18. Reds(A, NULL, NULL)
  <2> SUFFICES ASSUME NEW m \in Nodes, NEW q \in Sides, A[q][m] # NULL, A.rank[m] = RED,
                      A.rank[A[q][m]] = RED
               PROVE  FALSE
    BY DEF Reds
  <2> DEFINE d == A[q][m]
  <2>1. d \in Nodes
    BY <1>13, ChildIs
  <2>2. m # p /\ d # p
    BY <1>2, <1>15, <2>1 DEF RED, BLACK
  <2>3. CASE m = g
    <3>1. CASE q = s
      <4>1. d = b
        BY <1>14, <2>3, <3>1
      <4>2. b # g
        <5>1. b = g => T.parent[g] = p /\ g \in S[p] /\ p \notin S[b]
          BY <1>1, <1>2, <1>3, <2>1, <4>1, ChildIs DEF b
        <5>2. p \in S[g]
          BY <1>1, <1>2, <1>6, ChildIs
        <5> QED BY <5>1, <5>2
      <4>3. T.rank[b] = RED
        BY <1>15, <2>1, <2>2, <4>1, <4>2
      <4>4. b = n
        BY <1>1, <1>2, <1>3, <1>6, <2>1, <4>1, <4>3, NodesAre DEF Reds, b
      <4> QED BY <1>2, <1>3, <4>4 DEF b
    <3>2. CASE q = o
      <4>1. u # g
        BY <1>1, <1>2, <1>3, ChildIs DEF u
      <4>2. d = u
        BY <1>2, <1>3, <1>14, <2>3, <3>2, <4>1 DEF u
      <4> QED BY <1>5, <1>15, <2>1, <2>2, <4>1, <4>2, NodesAre
    <3> QED BY <1>3, <3>1, <3>2
  <2>4. CASE m # g
    <3>1. d = T[q][m] /\ T[q][m] # g
      BY <1>14, <2>2, <2>4
    <3>2. T.rank[m] = RED /\ T.rank[d] = RED
      BY <1>15, <2>1, <2>2, <2>4, <3>1
    <3>3. d = n
      BY <1>1, <2>1, <3>1, <3>2, NodesAre DEF Reds
    <3> QED BY <1>2, <2>2, <3>1, <3>3
  <2> QED BY <2>3, <2>4
<1>19. \E H : Heights(A, H, {}, NULL)
  <2>1. PICK H : Heights(T, H, {}, NULL)
    BY DEF Inserting
  <2>2. A.rank = [T.rank EXCEPT ![g] = RED, ![p] = T.rank[g]]
    <3>1. T.rank \in [Nodes -> Int] /\ A.rank \in [Nodes -> Int]
      BY <1>1, <1>13, FieldsAre DEF Tied
    <3> QED BY <1>2, <1>15, <3>1
  <2>3. T[Other(o)][g] = p /\ g # NULL /\ p # NULL
    BY <1>2, <1>3, <1>6
  <2> QED BY <1>1, <1>2, <1>3, <1>6, <1>12, <2>1, <2>2, <2>3, RotatedHeights
<1>20. Repaired(A, R, K)
  BY <1>13, <1>16, <1>17, <1>18, <1>19 DEF Repaired
<1>21. SameRest(T, A)
  BY <1>8, <1>11 DEF SameRest
<1> QED BY <1>4, <1>13, <1>20, <1>21 DEF Repairs

\* Case 4 brings the node outside first.
LEMMA InsertCase4Is ==
    ASSUME NEW T, NEW S, NEW K, NEW n, Inserting(T, S, K, n), T.parent[n] # NULL, T.rank[T.parent[n]] = RED,
           ~RedUncle(T, n)
    PROVE  Repairs(T, S, K, InsertCase4(T, n))
<1> DEFINE p == T.parent[n]
           g == T.parent[p]
           s == Side(T, p)
           o == Other(s)
           A == Rotate(T, p, s)
           b == T[s][n]
           u == T[o][g]
<1>1. CASE Side(T, n) = s
  <2>1. InsertCase4(T, n) = InsertCase5(T, n)
    BY <1>1 DEF InsertCase4
  <2> QED BY <1>1, <2>1, InsertCase5Is
<1>2. CASE Side(T, n) # s
  <2>1. Tied(T, S, K) /\ n \in S[T.root] /\ T.rank[n] = RED /\ Colored(T, S) /\ Reds(T, n, NULL)
        /\ (T.root = n \/ T.rank[T.root] = BLACK)
    BY DEF Inserting
  <2>2. /\ n \in Nodes /\ p \in S[T.root] /\ p \in Nodes /\ g # NULL /\ g \in S[T.root] /\ g \in Nodes
        /\ n # p /\ p # g /\ n # g /\ T.rank[g] = BLACK
        /\ s \in Sides /\ Side(T, n) \in Sides /\ T[Side(T, n)][p] = n /\ T[s][g] = p /\ Sibling(T, p) = u
        /\ \A m \in Nodes, q \in Sides : T[q][m] = n => m = p /\ q = Side(T, n)
        /\ \A m \in Nodes, q \in Sides : T[q][m] = p => m = g /\ q = s
    BY RedParent
  <2>3. o \in Sides /\ o # s /\ Other(o) = s /\ Side(T, n) = o /\ \A q \in Sides : q = s \/ q = o
    BY <1>2, <2>2, SidesAre
  <2>4. InsertCase4(T, n) = InsertCase5(A, p)
    BY <1>2 DEF InsertCase4
  <2>5. u = NULL \/ T.rank[u] # RED
    BY <2>2 DEF RedUncle, Color
  <2>6. T.rank[p] = RED /\ p # NULL /\ n # NULL /\ g = T.parent[p] /\ p = T.parent[n]
        /\ T[Other(s)][p] = n /\ T[Other(s)][p] # NULL
    BY <2>2, <2>3, NodesAre
  <2> HIDE DEF p, g, s, o, b, u
  <2>7. Rotated(T, A, p, s) /\ SameRest(T, A) /\ A.rank = T.rank
    <3>1. Tied(T, S, K) /\ p \in S[T.root] /\ s \in Sides /\ T[Other(s)][p] # NULL
      BY <2>1, <2>2, <2>6
    <3> QED BY <3>1, RotateIs
  <2> HIDE DEF A
  <2> DEFINE R == Turned(T, S, p, s)
  <2>8. Tied(A, R, K) /\ R[A.root] = S[T.root]
    BY <2>1, <2>2, <2>3, <2>6, <2>7, RotatedTied
  <2> HIDE DEF R
  <2>9. /\ A.root = IF T.root = p THEN n ELSE T.root
        /\ \A m \in Nodes, q \in Sides :
              A[q][m] = IF m = p /\ q = o THEN b ELSE IF m = n /\ q = s THEN p
                        ELSE IF T[q][m] = p THEN n ELSE T[q][m]
        /\ \A m \in Nodes :
              A.parent[m] = IF m = p THEN n ELSE IF m = n THEN g ELSE IF m = b THEN p
                            ELSE T.parent[m]
    <3>1. T[Other(s)][p] = n
      BY <2>2, <2>3 DEF o
    <3> QED BY <2>2, <2>3, <2>6, <2>7, <3>1 DEF Rotated, b, o
  <2>10. T.root # n /\ T.root # p
    BY <2>1, <2>2, <2>6, InsideIs DEF RED, BLACK
  <2>11. Colored(A, R)
    BY <2>1, <2>7, <2>8 DEF Colored
  <2>12. A.root = p \/ A.rank[A.root] = BLACK
    BY <2>1, <2>7, <2>9, <2>10
  <2>13. Reds(A, p, NULL)
    <3> SUFFICES ASSUME NEW m \in Nodes, NEW q \in Sides, A[q][m] # NULL, T.rank[m] = RED,
                        T.rank[A[q][m]] = RED
                 PROVE  A[q][m] = p
      BY <2>7 DEF Reds
    <3>1. \A k \in Nodes, r \in Sides : T[r][k] # NULL /\ T.rank[k] = RED /\ T.rank[T[r][k]] = RED => T[r][k] = n
      BY <2>1, NodesAre DEF Reds
    <3>2. CASE m = p /\ q = o
      <4>1. A[q][m] = b
        BY <2>2, <2>3, <2>9, <3>2
      <4>2. b = n
        BY <2>1, <2>2, <2>3, <3>1, <4>1 DEF b
      <4> QED BY <2>2, <2>3, <4>2 DEF b
    <3>3. CASE m = n /\ q = s
      BY <2>2, <2>9, <3>3
    <3>4. CASE ~(m = p /\ q = o) /\ ~(m = n /\ q = s)
      <4>1. A[q][m] = IF T[q][m] = p THEN n ELSE T[q][m]
        BY <2>9, <3>4
      <4>2. T[q][m] # p
        BY <2>2 DEF RED, BLACK
      <4>3. T[q][m] = n
        BY <3>1, <4>1, <4>2
      <4> QED BY <2>2, <2>3, <3>4, <4>3
    <3> QED BY <3>2, <3>3, <3>4
  <2>14. \E H : Heights(A, H, {}, NULL)
    <3>1. PICK H : Heights(T, H, {}, NULL)
      BY DEF Inserting
    <3>2. A.rank = [T.rank EXCEPT ![p] = RED, ![n] = T.rank[p]]
      <4>1. T.rank \in [Nodes -> Int] /\ A.rank \in [Nodes -> Int]
        BY <2>1, <2>8, FieldsAre DEF Tied
      <4> QED BY <2>1, <2>2, <2>6, <2>7, <4>1
    <3>3. T.rank[T[Other(s)][p]] = RED /\ p # NULL /\ T[Other(s)][p] # NULL /\ p \notin {} /\ T[Other(s)][p] \notin {}
          /\ A.rank = [T.rank EXCEPT ![p] = RED, ![T[Other(s)][p]] = T.rank[p]]
      BY <2>1, <2>6, <3>2
    <3>4. Tied(T, S, K) /\ p \in Nodes /\ s \in Sides /\ Rotated(T, A, p, s) /\ Colored(T, S)
      BY <2>1, <2>2, <2>7
    <3> QED BY <3>1, <3>3, <3>4, RotatedHeights
  <2>15. Inserting(A, R, K, p)
    BY <2>2, <2>6, <2>7, <2>8, <2>11, <2>12, <2>13, <2>14 DEF Inserting
  <2>16. A.parent[p] = n /\ A.parent[n] = g /\ A.rank[n] = RED
    BY <2>1, <2>2, <2>7, <2>9
  <2>17. Side(A, n) = s /\ Sibling(A, n) = A[o][g] /\ Side(A, p) = s
    <3>1. A[s][n] = p /\ A[s][g] = n
      BY <2>2, <2>3, <2>9
    <3>2. Side(A, n) = s /\ Sibling(A, n) = A[o][g]
      <4>1. n \in R[A.root] /\ A.parent[n] # NULL
        BY <2>1, <2>2, <2>8, <2>16
      <4> QED BY <2>2, <2>8, <2>16, <3>1, <4>1, SideIs DEF o
    <3>3. Side(A, p) = s
      <4>1. p \in R[A.root] /\ A.parent[p] # NULL
        BY <2>2, <2>6, <2>8, <2>16
      <4> QED BY <2>2, <2>8, <2>16, <3>1, <4>1, SideIs
    <3> QED BY <3>2, <3>3
  <2>18. A[o][g] = u
    <3>1. T[o][g] # p
      BY <2>2, <2>3
    <3> QED BY <2>2, <2>3, <2>9, <3>1 DEF u
  <2>19. ~RedUncle(A, p)
    BY <2>5, <2>7, <2>16, <2>17, <2>18 DEF RedUncle, Color, RED, BLACK
  <2>20. Repairs(A, R, K, InsertCase5(A, p))
    BY <2>6, <2>15, <2>16, <2>17, <2>19, InsertCase5Is
  <2> QED BY <2>4, <2>7, <2>8, <2>20 DEF Repairs, SameRest
<1> QED BY <1>1, <1>2

\* Cases 2 to 5 repair the tree when there is no red uncle.
LEMMA InsertCase2Is ==
    ASSUME NEW T, NEW S, NEW K, NEW n, Inserting(T, S, K, n), ~RedUncle(T, n)
    PROVE  Repairs(T, S, K, InsertCase2(T, n))
<1>1. Tied(T, S, K) /\ n \in S[T.root] /\ T.rank[n] = RED /\ Colored(T, S) /\ Reds(T, n, NULL)
      /\ (T.root = n \/ T.rank[T.root] = BLACK) /\ n \in Nodes /\ T.parent[n] \in Ids /\ T.root \in Ids
  BY InsideIs DEF Inserting
<1>2. PICK H : Heights(T, H, {}, NULL)
  BY DEF Inserting
<1>3. CASE T.parent[n] = NULL
  <2> DEFINE A == Paint(T, n, BLACK)
             G == [H EXCEPT ![n] = H[n] + 1]
  <2>1. InsertCase2(T, n) = A
    BY <1>3 DEF InsertCase2
  <2>2. Painted(T, A, n, BLACK)
    BY <1>1, PaintIs DEF Tied, BLACK
  <2> HIDE DEF A
  <2>3. T.root = n
    BY <1>1, <1>3, InsideIs
  <2>4. Tied(A, S, K)
    BY <1>1, <2>2, PaintedTied DEF Painted
  <2>5. ASSUME NEW m \in Nodes, NEW q \in Sides PROVE A[q][m] = T[q][m] /\ T[q][m] # n /\ T[q][m] \in Ids
    <3>1. T[q][m] = n => T.parent[n] = m
      BY <1>1, ChildIs, NodesAre
    <3> QED BY <1>3, <2>2, <3>1, ChildIs, NodesAre, <1>1 DEF Painted, SameLinks
  <2>6. Colored(A, S) /\ A.root = T.root /\ A.rank[n] = BLACK
    BY <1>1, <2>2, <2>3 DEF Colored, Painted, SameLinks
  <2>7. Reds(A, NULL, NULL)
    <3> SUFFICES ASSUME NEW m \in Nodes, NEW q \in Sides, A[q][m] # NULL, A.rank[m] = RED,
                        A.rank[A[q][m]] = RED
                 PROVE  FALSE
      BY DEF Reds
    <3>1. T[q][m] # n /\ T[q][m] \in Nodes /\ A[q][m] = T[q][m] /\ T[q][m] # NULL
      BY <2>5, NodesAre
    <3>2. T.rank[m] = RED /\ T.rank[T[q][m]] = RED
      BY <2>2, <3>1 DEF Painted, RED, BLACK
    <3> QED BY <1>1, <3>1, <3>2, NodesAre DEF Reds
  <2>8. Heights(A, G, {}, NULL)
    <3>1. H \in [Ids -> Nat] /\ H[NULL] = 0 /\ n \in Ids /\ n # NULL
      BY <1>1, <1>2, NodesAre DEF Heights
    <3>2. G \in [Ids -> Nat] /\ G[NULL] = 0 /\ G[n] = H[n] + 1 /\ \A m \in Ids : m # n => G[m] = H[m]
      BY <3>1, NodesAre
    <3> HIDE DEF G
    <3>3. ASSUME NEW m \in Nodes, NEW q \in Sides
          PROVE  G[m] = Weight(A, NULL, m) + G[A[q][m]] + Due({}, A[q][m])
      <4>1. H[m] = T.rank[m] + H[T[q][m]] + Due({}, T[q][m]) /\ H[T[q][m]] \in Nat
            /\ Due({}, T[q][m]) = 0
        <5>1. Weight(T, NULL, m) = T.rank[m]
          BY NodesAre DEF Weight
        <5> QED BY <1>1, <1>2, <5>1, HeightsAre DEF Due
      <4>2. Weight(A, NULL, m) = A.rank[m] /\ A.rank[m] = IF m = n THEN 1 ELSE T.rank[m]
        BY <2>2, NodesAre DEF Weight, Painted, BLACK
      <4>3. T.rank[n] = 0 /\ G[m] = (IF m = n THEN H[n] + 1 ELSE H[m]) /\ G[A[q][m]] = H[T[q][m]]
        BY <1>1, <2>5, <3>2, NodesAre DEF RED
      <4>4. Due({}, A[q][m]) = 0
        BY DEF Due
      <4>5. T.rank[m] \in {0, 1}
        BY <1>1 DEF Colored, RED, BLACK
      <4> QED BY <4>1, <4>2, <4>3, <4>4, <4>5
    <3> QED BY <3>2, <3>3 DEF Heights
  <2>9. Repaired(A, S, K)
    BY <2>3, <2>4, <2>6, <2>7, <2>8 DEF Repaired
  <2> QED BY <2>1, <2>2, <2>6, <2>9 DEF Repairs, Painted
<1>4. CASE T.parent[n] # NULL /\ T.rank[T.parent[n]] # RED
  <2>1. Color(T, T.parent[n]) = BLACK /\ T.parent[n] \in Nodes
    BY <1>1, <1>4, NodesAre DEF Color, Colored
  <2>2. InsertCase2(T, n) = T
    BY <1>4, <2>1 DEF InsertCase2
  <2>3. Reds(T, NULL, NULL)
    <3> SUFFICES ASSUME NEW m \in Nodes, NEW q \in Sides, T[q][m] # NULL, T.rank[m] = RED,
                        T.rank[T[q][m]] = RED
                 PROVE  FALSE
      BY DEF Reds
    <3>1. T[q][m] = n
      BY <1>1, NodesAre DEF Reds
    <3>2. T.parent[n] = m
      BY <1>1, <3>1, ChildIs, NodesAre
    <3> QED BY <1>4, <3>2
  <2>4. T.rank[T.root] = BLACK
    BY <1>1, <1>4, InsideIs
  <2> QED BY <1>1, <1>2, <2>2, <2>3, <2>4 DEF Repairs, Repaired, SameRest
<1>5. CASE T.parent[n] # NULL /\ T.rank[T.parent[n]] = RED
  <2>1. InsertCase2(T, n) = InsertCase4(T, n)
    BY <1>5 DEF InsertCase2, Color, RED, BLACK
  <2> QED BY <1>5, <2>1, InsertCase4Is
<1> QED BY <1>3, <1>4, <1>5

\* A climb that gets higher with every step that changes something has ended after N steps.
Climbs(f, N, X, x, step) ==
    f \in [0 .. N -> X] /\ f[0] = x /\ (\A k \in 1 .. N : f[k] = step[f[k - 1]]) /\ step[f[N]] = f[N]

\* A climb that goes on comes to an end before the bound of the model is met.
LEMMA ClimbEnds ==
    ASSUME NEW N \in Nat, NEW X, NEW x \in X, NEW step \in [X -> X], NEW size \in [X -> 1 .. N],
           \A y \in X : step[y] = y \/ size[step[y]] > size[y]
    PROVE  \E f : Climbs(f, N, X, x, step)
<1> DEFINE all == [i \in 1 .. N |-> step]
<1>1. all \in [1 .. N -> [X -> X]]
  OBVIOUS
<1>2. PICK f : Iterates(f, N, X, x, all)
  <2> HIDE DEF all
  <2> QED BY <1>1, IterateExists
<1>3. f \in [0 .. N -> X] /\ f[0] = x /\ \A k \in 1 .. N : f[k] = step[f[k - 1]]
  BY <1>2 DEF Iterates
<1> DEFINE U == {k \in 0 .. N : step[f[k]] = f[k] \/ size[f[k]] > k}
<1>4. 0 \in U
  BY <1>3
<1>5. ASSUME NEW k \in 1 .. N, k - 1 \in U PROVE k \in U
  <2>1. k - 1 \in 0 .. N /\ k \in 0 .. N /\ f[k - 1] \in X /\ f[k] \in X /\ f[k] = step[f[k - 1]]
    BY <1>3, SMTT(30)
  <2>2. CASE step[f[k - 1]] = f[k - 1]
    BY <2>1, <2>2
  <2>3. CASE step[f[k - 1]] # f[k - 1]
    <3>1. size[f[k]] > size[f[k - 1]] /\ size[f[k - 1]] > k - 1
      BY <1>5, <2>1, <2>3
    <3>2. size[f[k]] \in Int /\ size[f[k - 1]] \in Int
      BY <2>1
    <3> QED BY <2>1, <3>1, <3>2
  <2> QED BY <2>2, <2>3
<1>6. N \in U
  <2> HIDE DEF U
  <2> QED BY <1>4, <1>5, Induction, SMTT(30)
<1>7. step[f[N]] = f[N]
  <2>1. f[N] \in X /\ size[f[N]] \in 1 .. N
    BY <1>3
  <2> QED BY <1>6, <2>1
<1> QED BY <1>3, <1>7 DEF Climbs

\* Case 3 moves the fault up to the grandparent.
LEMMA InsertCase3Is ==
    ASSUME NEW T, NEW S, NEW K, NEW n, Inserting(T, S, K, n), RedUncle(T, n)
    PROVE  LET next == InsertCase3([tree |-> T, node |-> n]) IN
           /\ next = [tree |-> next.tree, node |-> next.node]
           /\ Inserting(next.tree, S, K, next.node) /\ SameRest(T, next.tree) /\ SameLinks(T, next.tree)
           /\ Cardinality(S[next.node]) > Cardinality(S[n])
<1> DEFINE p == T.parent[n]
           g == T.parent[p]
           s == Side(T, p)
           o == Other(s)
           u == T[o][g]
           P1 == Paint(T, p, BLACK)
           P2 == Paint(P1, u, BLACK)
           A == Paint(P2, g, RED)
<1>1. /\ Tied(T, S, K) /\ n \in S[T.root] /\ T.rank[n] = RED /\ Colored(T, S) /\ Reds(T, n, NULL)
      /\ (T.root = n \/ T.rank[T.root] = BLACK)
  BY DEF Inserting
<1>2. p # NULL /\ T.rank[p] = RED
  BY DEF RedUncle, Color, RED, BLACK
<1>3. /\ n \in Nodes /\ p \in S[T.root] /\ p \in Nodes /\ g # NULL /\ g \in S[T.root] /\ g \in Nodes
      /\ n # p /\ p # g /\ n # g /\ T.rank[g] = BLACK
      /\ s \in Sides /\ T[s][g] = p /\ Sibling(T, p) = u /\ T[Side(T, n)][p] = n /\ Side(T, n) \in Sides
      /\ \A m \in Nodes, q \in Sides : T[q][m] = n => m = p
      /\ \A m \in Nodes, q \in Sides : T[q][m] = p => m = g
  BY <1>2, RedParent
<1>4. u # NULL /\ T.rank[u] = RED
  BY <1>3 DEF RedUncle, Color, RED, BLACK
<1>5. o \in Sides /\ o # s /\ \A q \in Sides : q = s \/ q = o
  BY <1>3, SidesAre
<1>6. InsertCase3([tree |-> T, node |-> n]) = [tree |-> A, node |-> g]
  <2>1. Sibling(T, p) = u
    BY <1>3
  <2> QED BY <2>1 DEF InsertCase3, GrandParent
<1>7. u \in Nodes /\ T.parent[u] = g /\ u # g /\ u # n /\ u # p /\ \A m \in Nodes, q \in Sides : T[q][m] = u => m = g
  <2>1. u \in Nodes /\ T.parent[u] = g /\ u # g
    <3>1. Tied(T, S, K) /\ g \in Nodes /\ o \in Sides /\ T[o][g] = u /\ u # NULL
      BY <1>1, <1>3, <1>4, <1>5
    <3> HIDE DEF g, o, u
    <3> QED BY <3>1, HangsIs
  <2>2. u # p
    <3>1. p \in S[T[s][g]] /\ p \notin S[T[o][g]]
      <4>1. p \in S[p]
        BY <1>1, <1>3, <1>5, ChildIs
      <4>2. p \in S[T[s][g]]
        BY <1>3, <4>1
      <4> HIDE DEF p, g, s
      <4> QED BY <1>1, <1>3, <1>5, <4>2, ChildIs
    <3>2. u \in S[u]
      <4>1. Tied(T, S, K) /\ u \in Nodes
        BY <1>1, <2>1
      <4> HIDE DEF u
      <4> QED BY <4>1, SelfIs
    <3> QED BY <3>1, <3>2
  <2>3. \A m \in Nodes, q \in Sides : T[q][m] = u => m = g
    <3> HIDE DEF g, u
    <3> QED BY <1>1, <1>4, <2>1, ChildIs
  <2> HIDE DEF p, g, u
  <2> QED BY <1>3, <2>1, <2>2, <2>3
<1>8. T.parent[n] = p /\ T.parent[p] = g
  OBVIOUS
<1> HIDE DEF p, g, s, o, u
<1>9. Painted(T, P1, p, BLACK) /\ Painted(P1, P2, u, BLACK) /\ Painted(P2, A, g, RED)
  <2>1. T \in Trees /\ RED \in Int /\ BLACK \in Int
    BY <1>1 DEF Tied, RED, BLACK
  <2>2. Painted(T, P1, p, BLACK)
    BY <1>3, <2>1, PaintIs
  <2> HIDE DEF P1
  <2>3. Painted(P1, P2, u, BLACK)
    <3>1. P1 \in Trees
      BY <2>2 DEF Painted
    <3> QED BY <1>7, <2>1, <3>1, PaintIs
  <2> HIDE DEF P2
  <2>4. Painted(P2, A, g, RED)
    BY <1>3, <2>1, <2>3, PaintIs, SMTT(30) DEF Painted
  <2> QED BY <2>2, <2>3, <2>4
<1> HIDE DEF A, P1, P2
<1>10. /\ A \in Trees /\ SameLinks(T, A) /\ SameRest(T, A)
       /\ \A m \in Nodes : A.rank[m] = IF m = g THEN RED ELSE IF m = p \/ m = u THEN BLACK ELSE T.rank[m]
  BY <1>3, <1>7, <1>9 DEF Painted, SameLinks, SameRest
<1>11. Tied(A, S, K)
  BY <1>1, <1>10, PaintedTied
<1>12. A.root = T.root /\ (\A q \in Sides : A[q] = T[q]) /\ A.parent = T.parent
  BY <1>10 DEF SameLinks
<1>13. u \in S[T.root]
  BY <1>1, <1>3, <1>4, <1>5, InsideIs DEF u
<1>14. Colored(A, S)
  BY <1>1, <1>3, <1>10, <1>12, <1>13 DEF Colored
<1>15. T.root # n /\ T.root # p /\ T.root # u /\ T.root \in Nodes
  <2>1. T.root \in S[T.root] => T.parent[T.root] = NULL /\ T.root \in Nodes
    BY <1>1, InsideIs
  <2>2. T.root \in S[T.root]
    BY <1>1, InsideIs
  <2> QED BY <1>2, <1>3, <1>7, <1>8, <2>1, <2>2
<1>16. A.root = g \/ A.rank[A.root] = BLACK
  BY <1>1, <1>10, <1>12, <1>15
<1>17. Reds(A, g, NULL)
  <2> SUFFICES ASSUME NEW m \in Nodes, NEW q \in Sides, A[q][m] # NULL, A.rank[m] = RED,
                      A.rank[A[q][m]] = RED, A[q][m] # g
               PROVE  FALSE
    BY DEF Reds
  <2> DEFINE d == T[q][m]
  <2>1. d \in Nodes /\ d # NULL /\ A[q][m] = d /\ d # g
    BY <1>1, <1>12, ChildIs
  <2>2. m # p /\ m # u /\ d # p /\ d # u
    BY <1>3, <1>7, <1>10, <2>1 DEF RED, BLACK
  <2>3. m # g
    BY <1>3, <1>5, <2>1, <2>2 DEF u
  <2>4. T.rank[m] = RED /\ T.rank[d] = RED
    BY <1>10, <2>1, <2>2, <2>3
  <2>5. d = n
    BY <1>1, <2>1, <2>4, NodesAre DEF Reds
  <2> QED BY <1>3, <2>2, <2>5
<1>18. \E H : Heights(A, H, {}, NULL)
  <2>1. PICK H : Heights(T, H, {}, NULL)
    BY DEF Inserting
  <2> DEFINE x == H[p] + 1
             y == H[u] + 1
             G == [H EXCEPT ![p] = x, ![u] = y]
  <2>2. /\ G \in [Ids -> Nat] /\ G[NULL] = 0 /\ G[p] = H[p] + 1 /\ G[u] = H[u] + 1
        /\ \A m \in Ids : m # p /\ m # u => G[m] = H[m]
    <3>1. H \in [Ids -> Nat] /\ H[NULL] = 0
      BY <2>1 DEF Heights
    <3>2. p \in Ids /\ u \in Ids /\ p # NULL /\ u # NULL
      BY <1>2, <1>3, <1>4, <1>7, NodesAre
    <3>3. p # u
      BY <1>2, <1>3, <1>4, <1>7
    <3>4. x \in Nat /\ y \in Nat
      BY <3>1, <3>2
    <3>5. x = H[p] + 1 /\ y = H[u] + 1
      OBVIOUS
    <3> HIDE DEF x, y
    <3>6. G \in [Ids -> Nat]
      BY <3>1, <3>4
    <3>7. G[p] = x /\ G[u] = y
      BY <3>1, <3>2, <3>3
    <3>8. \A m \in Ids : m # p /\ m # u => G[m] = H[m]
      BY <3>1
    <3>9. G[NULL] = H[NULL]
      BY <3>2, <3>8, NodesAre
    <3> HIDE DEF G
    <3> QED BY <3>1, <3>5, <3>6, <3>7, <3>8, <3>9
  <2> HIDE DEF G
  <2>3. ASSUME NEW m \in Nodes, NEW q \in Sides
        PROVE  G[m] = Weight(A, NULL, m) + G[A[q][m]] + Due({}, A[q][m])
    <3> DEFINE d == T[q][m]
    <3>1. H[m] = T.rank[m] + H[d] /\ H[d] \in Nat /\ H[m] \in Nat /\ d \in Ids
      <4>1. Weight(T, NULL, m) = T.rank[m] /\ Due({}, d) = 0
        BY NodesAre DEF Weight, Due
      <4>2. H[m] = Weight(T, NULL, m) + H[d] + Due({}, d) /\ H[d] \in Nat /\ H[m] \in Nat /\ T.rank[m] \in {0, 1}
        BY <1>1, <2>1, HeightsAre
      <4>3. d \in Ids
        BY <1>1, ChildIs
      <4> QED BY <4>1, <4>2, <4>3
    <3>2. Weight(A, NULL, m) = A.rank[m] /\ Due({}, A[q][m]) = 0 /\ A[q][m] = d
      BY <1>12, NodesAre DEF Weight, Due
    <3>3. d = p \/ d = u => m = g
      BY <1>3, <1>7
    <3>4. m = g => d = p \/ d = u
      BY <1>3, <1>5 DEF u
    <3> HIDE DEF d
    <3>5. CASE m = g
      <4>1. H[g] = 1 + H[d] /\ A.rank[g] = 0 /\ G[d] = H[d] + 1 /\ G[g] = H[g]
        BY <1>3, <1>7, <1>10, <2>2, <3>1, <3>4, <3>5, NodesAre DEF RED, BLACK
      <4> QED BY <3>1, <3>2, <3>5, <4>1
    <3>6. CASE m # g /\ (m = p \/ m = u)
      <4>1. T.rank[m] = 0 /\ A.rank[m] = 1 /\ G[d] = H[d] /\ G[m] = H[m] + 1
        BY <1>2, <1>4, <1>10, <2>2, <3>1, <3>3, <3>6 DEF RED, BLACK
      <4> QED BY <3>1, <3>2, <4>1
    <3>7. CASE m # g /\ m # p /\ m # u
      <4>1. A.rank[m] = T.rank[m] /\ G[d] = H[d] /\ G[m] = H[m]
        BY <1>10, <2>2, <3>1, <3>3, <3>7, NodesAre
      <4> QED BY <1>1, <3>1, <3>2, <4>1
    <3> QED BY <3>5, <3>6, <3>7
  <2> QED BY <2>2, <2>3 DEF Heights
<1>19. A.rank[g] = RED /\ g \in S[A.root]
  BY <1>3, <1>10, <1>12
<1>20. Inserting(A, S, K, g)
  BY <1>11, <1>14, <1>16, <1>17, <1>18, <1>19 DEF Inserting
<1>21. Cardinality(S[g]) > Cardinality(S[n])
  <2>1. Cardinality(S[T[s][g]]) < Cardinality(S[g]) /\ Cardinality(S[T[Side(T, n)][p]]) < Cardinality(S[p])
    BY <1>1, <1>3, ChildIs
  <2>2. S[g] \in SUBSET Nodes /\ S[p] \in SUBSET Nodes /\ S[n] \in SUBSET Nodes
    BY <1>1, <1>3, NodesAre DEF Tied, Subtrees
  <2>3. Cardinality(S[g]) \in Nat /\ Cardinality(S[p]) \in Nat /\ Cardinality(S[n]) \in Nat
    BY <2>2, ManyNodes
  <2> QED BY <1>3, <2>1, <2>3
<1> QED BY <1>6, <1>10, <1>20, <1>21

\* Where the repair of an insertion into T can be on its way up.
InsertClimb(T, S, K) ==
    {at \in [tree : Trees, node : Nodes] :
        Inserting(at.tree, S, K, at.node) /\ SameRest(T, at.tree) /\ SameLinks(T, at.tree)}

\* The calls of case 1 by way of case 3 end without a red uncle.
LEMMA InsertLastIs ==
    ASSUME NEW T, NEW S, NEW K, NEW n, Inserting(T, S, K, n)
    PROVE  LET last == InsertLast(T, n) IN
           /\ Inserting(last.tree, S, K, last.node) /\ SameRest(T, last.tree) /\ SameLinks(T, last.tree)
           /\ ~RedUncle(last.tree, last.node)
<1> DEFINE X == InsertClimb(T, S, K)
           x == [tree |-> T, node |-> n]
           step == [at \in X |-> InsertCase3(at)]
           size == [at \in X |-> Cardinality(S[at.node])]
           E(f) == [k \in 0 .. MaxNodes |-> IF k = 0 THEN x ELSE InsertCase3(f[k - 1])]
           call == CHOOSE f : f = E(f)
<1>1. T \in Trees /\ n \in Nodes /\ Tied(T, S, K) /\ MaxNodes \in Nat
  BY InsideIs, NodesAre DEF Inserting, Tied
<1>2. x \in X
  BY <1>1 DEF InsertClimb, SameRest, SameLinks
<1>3. ASSUME NEW at \in X
      PROVE  /\ at.node \in Nodes /\ at.tree \in Trees /\ at = [tree |-> at.tree, node |-> at.node]
             /\ Inserting(at.tree, S, K, at.node) /\ SameRest(T, at.tree) /\ SameLinks(T, at.tree)
  BY DEF InsertClimb
<1>4. ASSUME NEW at \in X
      PROVE  /\ InsertCase3(at) \in X
             /\ IF RedUncle(at.tree, at.node)
                THEN Cardinality(S[InsertCase3(at).node]) > Cardinality(S[at.node])
                ELSE InsertCase3(at) = at
  <2> HIDE DEF X
  <2>1. CASE RedUncle(at.tree, at.node)
    <3> DEFINE next == InsertCase3([tree |-> at.tree, node |-> at.node])
    <3>1. InsertCase3(at) = next
      BY <1>3
    <3>2. /\ next = [tree |-> next.tree, node |-> next.node]
          /\ Inserting(next.tree, S, K, next.node) /\ SameRest(at.tree, next.tree) /\ SameLinks(at.tree, next.tree)
          /\ Cardinality(S[next.node]) > Cardinality(S[at.node])
      BY <1>3, <2>1, InsertCase3Is
    <3> HIDE DEF next
    <3>3. SameRest(T, next.tree) /\ SameLinks(T, next.tree)
      BY <1>3, <3>2 DEF SameRest, SameLinks
    <3>4. next.tree \in Trees /\ next.node \in Nodes
      BY <3>2, InsideIs DEF Inserting, Tied
    <3>5. next \in [tree : Trees, node : Nodes]
      BY <3>2, <3>4
    <3>6. next \in X
      BY <3>2, <3>3, <3>5 DEF X, InsertClimb
    <3> QED BY <2>1, <3>1, <3>2, <3>6
  <2>2. CASE ~RedUncle(at.tree, at.node)
    <3>1. InsertCase3(at) = at
      BY <2>2 DEF InsertCase3
    <3> QED BY <2>2, <3>1
  <2> QED BY <2>1, <2>2
<1>5. \A at \in X : S[at.node] \in SUBSET Nodes /\ Cardinality(S[at.node]) \in 1 .. MaxNodes
  <2> TAKE at \in X
  <2>1. at.node \in Nodes
    BY <1>3
  <2>2. at.node \in S[at.node] /\ S[at.node] \in SUBSET Nodes
    <3>1. "left" \in Sides
      BY DEF Sides
    <3> QED BY <1>1, <2>1, <3>1, ChildIs
  <2>3. Cardinality(S[at.node]) \in 0 .. MaxNodes /\ Cardinality({}) < Cardinality(S[at.node]) /\ Cardinality({}) \in 0 .. MaxNodes
    BY <2>2, ManyNodes
  <2> QED BY <1>1, <2>2, <2>3
<1>6. step \in [X -> X] /\ \A at \in X : step[at] = InsertCase3(at)
  <2> HIDE DEF X
  <2> QED BY <1>4
<1>7. size \in [X -> 1 .. MaxNodes] /\ \A at \in X : size[at] = Cardinality(S[at.node])
  <2> HIDE DEF X
  <2> QED BY <1>5
<1> HIDE DEF X, x, step, size
<1>8. \A y \in X : step[y] = y \/ size[step[y]] > size[y]
  BY <1>4, <1>6, <1>7
<1>9. PICK f : Climbs(f, MaxNodes, X, x, step)
  BY <1>1, <1>2, <1>6, <1>7, <1>8, ClimbEnds
<1>10. f \in [0 .. MaxNodes -> X] /\ f[0] = x /\ (\A k \in 1 .. MaxNodes : f[k] = step[f[k - 1]])
       /\ step[f[MaxNodes]] = f[MaxNodes]
  BY <1>9 DEF Climbs
<1>11. ASSUME NEW k \in 1 .. MaxNodes PROVE f[k - 1] \in X /\ f[k] = InsertCase3(f[k - 1])
  <2>1. k - 1 \in 0 .. MaxNodes
    BY <1>1
  <2> QED BY <1>6, <1>10, <2>1
<1>12. f = E(f)
  <2>1. \A k \in 0 .. MaxNodes : f[k] = IF k = 0 THEN x ELSE InsertCase3(f[k - 1])
    BY <1>1, <1>10, <1>11
  <2> QED BY <1>10, <2>1
<1>13. call = E(call)
  <2> HIDE DEF E
  <2> QED BY <1>12
<1>14. InsertLast(T, n) = call[MaxNodes]
  BY DEF InsertLast, x
<1> HIDE DEF call
<1> DEFINE U == {k \in 0 .. MaxNodes : call[k] = f[k]}
<1>15. call[0] = x /\ \A k \in 1 .. MaxNodes : call[k] = InsertCase3(call[k - 1])
  <2>1. \A k \in 0 .. MaxNodes : call[k] = IF k = 0 THEN x ELSE InsertCase3(call[k - 1])
    BY <1>13
  <2> HIDE DEF E
  <2>2. 0 \in 0 .. MaxNodes /\ \A k \in 1 .. MaxNodes : k \in 0 .. MaxNodes /\ k # 0
    BY <1>1
  <2> QED BY <2>1, <2>2
<1>16. 0 \in U
  BY <1>1, <1>10, <1>15
<1>17. ASSUME NEW k \in 1 .. MaxNodes, k - 1 \in U PROVE k \in U
  <2>1. k \in 0 .. MaxNodes /\ call[k - 1] = f[k - 1]
    BY <1>1, <1>17
  <2> QED BY <1>11, <1>15, <2>1
<1>18. MaxNodes \in U
  <2>1. MaxNodes \in 0 .. MaxNodes
    BY <1>1
  <2> HIDE DEF U
  <2> QED BY <1>1, <1>16, <1>17, <2>1, Induction
<1> DEFINE last == f[MaxNodes]
<1>19. InsertLast(T, n) = last /\ last \in X /\ InsertCase3(last) = last
  <2>1. last \in X
    BY <1>1, <1>10
  <2> QED BY <1>6, <1>10, <1>14, <1>18, <2>1
<1> HIDE DEF last
<1>20. ~RedUncle(last.tree, last.node)
  <2> SUFFICES ASSUME RedUncle(last.tree, last.node) PROVE FALSE
    OBVIOUS
  <2>1. Cardinality(S[last.node]) > Cardinality(S[last.node])
    BY <1>4, <1>19
  <2>2. Cardinality(S[last.node]) \in 1 .. MaxNodes
    BY <1>5, <1>19
  <2> QED BY <2>1, <2>2
<1> QED BY <1>3, <1>19, <1>20

\* RBBinaryTreeInsertCase1 repairs the tree.
LEMMA InsertCase1Is ==
    ASSUME NEW T, NEW S, NEW K, NEW n, Inserting(T, S, K, n)
    PROVE  Repairs(T, S, K, InsertCase1(T, n))
<1> DEFINE last == InsertLast(T, n)
           A == InsertCase2(last.tree, last.node)
<1>1. /\ Inserting(last.tree, S, K, last.node) /\ SameRest(T, last.tree) /\ SameLinks(T, last.tree)
      /\ ~RedUncle(last.tree, last.node)
  BY InsertLastIs
<1>2. InsertCase1(T, n) = A
  BY DEF InsertCase1
<1> HIDE DEF last
<1>3. Repairs(last.tree, S, K, A)
  BY <1>1, InsertCase2Is
<1> HIDE DEF A
<1> QED BY <1>1, <1>2, <1>3 DEF Repairs, SameRest, SameLinks

-----------------------------------------------------------------------------
\* Deletion: the repair.

\* One black node is missing below n.  x, somewhere below n, is the node about to be removed.
Deleting(T, S, K, n, x) ==
    /\ Tied(T, S, K) /\ Colored(T, S)
    /\ n \in S[T.root] /\ x \in S[n]
    /\ T.root = x \/ T.rank[T.root] = BLACK
    /\ Reds(T, NULL, x)
    /\ n = x \/ (T.rank[n] = BLACK /\ T.rank[T.parent[x]] = BLACK)
    /\ \E H : Heights(T, H, {n}, x)

\* All is well but for x, and its child may take its place.
Removable(T, S, K, x) ==
    /\ Tied(T, S, K) /\ Colored(T, S)
    /\ x \in S[T.root]
    /\ T.root = x \/ (T.rank[T.root] = BLACK /\ T.rank[T.parent[x]] = BLACK)
    /\ Reds(T, NULL, x)
    /\ \E H : Heights(T, H, {}, x)

SameChildren(T, A, x) == \A q \in Sides : A[q][x] = T[q][x]

\* A is T mended, with the same nodes, and x has its children still.
Mends(T, S, K, x, A) ==
    /\ SameRest(T, A) /\ SameChildren(T, A, x)
    /\ \E R : Removable(A, R, K, x) /\ R[A.root] = S[T.root]

\* A rotation under a black node n with a red child that exchanges the colors.
Swapped(T, n, s) == Rotate(Paint(Paint(T, n, RED), T[Other(s)][n], BLACK), n, s)

IsSwapped(T, S, K, A, n, s, X, x) ==
    LET r == T[Other(s)][n]
        R == Turned(T, S, n, s)
    IN  /\ Rotated(T, A, n, s) /\ SameRest(T, A)
        /\ Tied(A, R, K) /\ R[A.root] = S[T.root] /\ Colored(A, R)
        /\ \A m \in Nodes : A.rank[m] = IF m = n THEN RED ELSE IF m = r THEN BLACK ELSE T.rank[m]
        /\ \E H : Heights(A, H, X, x)

\* A rotation with an exchange of two colors, as the deletion does it.
LEMMA SwappedIs ==
    ASSUME NEW T, NEW S, NEW K, Tied(T, S, K), Colored(T, S), NEW n \in S[T.root], NEW s \in Sides,
           T[Other(s)][n] # NULL, T.rank[n] = BLACK, T.rank[T[Other(s)][n]] = RED,
           NEW X, NEW x, n # x, T[Other(s)][n] # x, n \notin X, T[Other(s)][n] \notin X,
           \E H : Heights(T, H, X, x)
    PROVE  IsSwapped(T, S, K, Swapped(T, n, s), n, s, X, x)
<1> DEFINE r == T[Other(s)][n]
           P1 == Paint(T, n, RED)
           P == Paint(P1, r, BLACK)
           A == Rotate(P, n, s)
           R == Turned(T, S, n, s)
<1>1. Swapped(T, n, s) = A
  BY DEF Swapped
<1>2. n \in Nodes /\ r \in Nodes /\ r # n /\ r # NULL /\ Other(s) \in Sides /\ r \in S[T.root]
  <2>1. n \in Nodes /\ Other(s) \in Sides
    BY InsideIs, SidesAre
  <2>2. r \in Nodes /\ r # n
    BY <2>1, ChildIs
  <2>3. r \in S[T.root]
    BY <2>1, InsideIs
  <2> QED BY <2>1, <2>2, <2>3
<1>3. T[Other(s)][n] = r
  OBVIOUS
<1> HIDE DEF r
<1>4. Painted(T, P1, n, RED) /\ Painted(P1, P, r, BLACK)
  <2>1. T \in Trees /\ RED \in Int /\ BLACK \in Int
    BY DEF Tied, RED, BLACK
  <2>2. Painted(T, P1, n, RED)
    BY <1>2, <2>1, PaintIs
  <2> HIDE DEF P1
  <2>3. P1 \in Trees
    BY <2>2 DEF Painted
  <2> QED BY <1>2, <2>1, <2>2, <2>3, PaintIs
<1> HIDE DEF P, P1
<1>5. /\ P \in Trees /\ SameLinks(T, P) /\ SameRest(T, P) /\ P.rank \in [Nodes -> Int]
      /\ \A m \in Nodes : P.rank[m] = IF m = n THEN RED ELSE IF m = r THEN BLACK ELSE T.rank[m]
  BY <1>2, <1>4 DEF Painted, SameLinks, SameRest
<1>6. Tied(P, S, K)
  BY <1>5, PaintedTied
<1>7. P[Other(s)][n] # NULL /\ P.root = T.root
  BY <1>2, <1>3, <1>5 DEF SameLinks
<1>8. Rotated(P, A, n, s) /\ SameRest(P, A) /\ A.rank = P.rank
  <2>1. n \in S[P.root]
    BY <1>7
  <2> QED BY <1>6, <1>7, <2>1, RotateIs
<1> HIDE DEF A
<1>9. Rotated(T, A, n, s)
  BY <1>2, <1>5, <1>8, RotatedSame
<1>10. Tied(A, R, K) /\ R[A.root] = S[T.root]
  BY <1>2, <1>9, RotatedTied
<1> HIDE DEF R
<1>11. \A m \in Nodes : A.rank[m] = IF m = n THEN RED ELSE IF m = r THEN BLACK ELSE T.rank[m]
  BY <1>5, <1>8
<1>12. Colored(A, R)
  BY <1>2, <1>10, <1>11 DEF Colored
<1>13. \E H : Heights(A, H, X, x)
  <2>1. PICK H : Heights(T, H, X, x)
    OBVIOUS
  <2>2. A.rank = [T.rank EXCEPT ![n] = RED, ![T[Other(s)][n]] = T.rank[n]]
    <3>1. T.rank \in [Nodes -> Int] /\ A.rank \in [Nodes -> Int]
      BY <1>10, FieldsAre DEF Tied
    <3> QED BY <1>2, <1>3, <1>11, <3>1
  <2> QED BY <1>2, <1>9, <2>1, <2>2, RotatedHeights
<1>14. SameRest(T, A)
  BY <1>5, <1>8 DEF SameRest
<1> QED BY <1>1, <1>9, <1>10, <1>11, <1>12, <1>13, <1>14 DEF IsSwapped, r, R

\* The family of a node below which a black node is missing.
LEMMA DeleteFamily ==
    ASSUME NEW T, NEW S, NEW K, NEW n, NEW x, Deleting(T, S, K, n, x), T.parent[n] # NULL
    PROVE  LET p == T.parent[n]
               s == Sibling(T, n)
               side == Side(T, n)
           IN  /\ n \in Nodes /\ x \in Nodes /\ p \in Nodes /\ p \in S[T.root] /\ n # p /\ p # x
               /\ side \in Sides /\ T[side][p] = n
               /\ s = T[Other(side)][p] /\ s # NULL /\ s \in Nodes /\ s \in S[T.root]
               /\ s # p /\ s # n /\ s # x /\ T.parent[s] = p
               /\ \A m \in Nodes, q \in Sides : T[q][m] = n => m = p /\ q = side
               /\ \A m \in Nodes, q \in Sides : T[q][m] = s => m = p /\ q = Other(side)
               /\ \A q \in Sides : T[q][x] # p /\ T[q][x] # s
               /\ T.root # x /\ T.root # n /\ T.root # s /\ T.rank[T.root] = BLACK /\ T.root # NULL
               /\ p \notin S[n] /\ s \notin S[n]
               /\ \A a \in S[s] : a \notin S[n]
<1> DEFINE p == T.parent[n]
           s == Sibling(T, n)
           side == Side(T, n)
           o == Other(side)
<1>1. Tied(T, S, K) /\ Colored(T, S) /\ n \in S[T.root] /\ x \in S[n]
      /\ (T.root = x \/ T.rank[T.root] = BLACK)
  BY DEF Deleting
<1>2. /\ n \in Nodes /\ p \in Nodes /\ p \in S[T.root] /\ n # p /\ p # NULL
      /\ side \in Sides /\ T[side][p] = n /\ s = T[o][p] /\ s # n
      /\ \A m \in Nodes, q \in Sides : T[q][m] = n => m = p /\ q = side
  BY <1>1, SideIs
<1>3. o \in Sides /\ o # side /\ Other(o) = side /\ \A q \in Sides : q = side \/ q = o
  BY <1>2, SidesAre
<1>4. p = T.parent[n]
  OBVIOUS
<1> HIDE DEF p, s, side, o
<1>5. x \in Nodes /\ S[n] \subseteq S[T.root]
  BY <1>1, InsideIs
<1>6. p \notin S[n] /\ S[n] \subseteq S[p]
  BY <1>1, <1>2, ChildIs
<1>7. s # NULL
  <2>1. PICK H : Heights(T, H, {n}, x)
    BY DEF Deleting
  <2>2. H[p] = Weight(T, x, p) + H[n] + Due({n}, n) /\ H[p] = Weight(T, x, p) + H[s] + Due({n}, s)
        /\ H[n] \in Nat /\ H[NULL] = 0 /\ Weight(T, x, p) \in {0, 1}
    BY <1>1, <1>2, <1>3, <2>1, HeightsAre
  <2>3. Due({n}, n) = 1 /\ Due({n}, s) = 0
    BY <1>2 DEF Due
  <2> QED BY <2>2, <2>3
<1>8. s \in Nodes /\ s \in S[T.root] /\ s # p /\ T.parent[s] = p /\ s \in S[s]
  BY <1>1, <1>2, <1>3, <1>7, ChildIs, InsideIs
<1>9. \A a \in S[s] : a \notin S[n]
  <2>1. \A a \in S[T[o][p]] : a \notin S[T[Other(o)][p]]
    BY <1>1, <1>2, <1>3, ChildIs
  <2> QED BY <1>2, <1>3, <2>1
<1>10. s \notin S[n] /\ s # x /\ p # x
  BY <1>1, <1>6, <1>8, <1>9
<1>11. \A m \in Nodes, q \in Sides : T[q][m] = s => m = p /\ q = o
  <2> TAKE m \in Nodes, q \in Sides
  <2> HAVE T[q][m] = s
  <2>1. T.parent[s] = m
    BY <1>1, <1>7, ChildIs
  <2>2. m = p
    BY <1>8, <2>1
  <2>3. q # side
    BY <1>2, <2>2
  <2> QED BY <1>3, <2>2, <2>3
<1>12. ASSUME NEW q \in Sides PROVE T[q][x] # p /\ T[q][x] # s
  <2>1. T[q][x] # s
    BY <1>5, <1>10, <1>11
  <2>2. T[q][x] = p => p \in S[x]
    BY <1>1, <1>2, <1>5, ChildIs
  <2>3. S[x] \subseteq S[n]
    BY <1>1, <1>2, Nested
  <2> QED BY <1>6, <2>1, <2>2, <2>3
<1>13. T.root # x /\ T.root # n /\ T.root # s /\ T.root # NULL
  <2>1. T.root \in S[T.root] /\ T.root \in Nodes /\ T.root # NULL /\ T.parent[T.root] = NULL
    <3>1. T.root # NULL /\ T.root \in S[T.root]
      BY <1>1, InsideIs
    <3> QED BY <1>1, <3>1, InsideIs
  <2>2. T.root # x
    <3> SUFFICES ASSUME T.root = x PROVE FALSE
      OBVIOUS
    <3>1. T.root \in S[n]
      BY <1>1
    <3>2. S[T.root] \subseteq S[n]
      BY <1>1, <1>2, <3>1, Nested
    <3> QED BY <1>2, <1>6, <3>2
  <2> QED BY <1>2, <1>4, <1>8, <2>1, <2>2
<1> QED BY <1>1, <1>2, <1>5, <1>6, <1>7, <1>8, <1>9, <1>10, <1>11, <1>12, <1>13 DEF p, s, side, o

\* What case 2 hands on: n's sibling is black, and it had to turn the tree only for a red parent.
Settled(T, S, K, n, x, A) ==
    /\ SameRest(T, A) /\ SameChildren(T, A, x)
    /\ \E R : Deleting(A, R, K, n, x) /\ R[A.root] = S[T.root]
    /\ A.parent[n] # NULL /\ A.rank[Sibling(A, n)] = BLACK
    /\ A = T \/ A.rank[A.parent[n]] = RED

\* Case 2: afterwards the sibling is black.
LEMMA DeleteCase2Is ==
    ASSUME NEW T, NEW S, NEW K, NEW n, NEW x, Deleting(T, S, K, n, x), T.parent[n] # NULL
    PROVE  Settled(T, S, K, n, x, DeleteCase2(T, n))
<1> DEFINE p == T.parent[n]
           s == Sibling(T, n)
           side == Side(T, n)
           o == Other(side)
           b == T[side][s]
           A == Swapped(T, p, side)
           R == Turned(T, S, p, side)
<1>1. Tied(T, S, K) /\ Colored(T, S) /\ n \in S[T.root] /\ x \in S[n] /\ Reds(T, NULL, x)
      /\ (n = x \/ (T.rank[n] = BLACK /\ T.rank[T.parent[x]] = BLACK)) /\ \E H : Heights(T, H, {n}, x)
  BY DEF Deleting
<1>2. /\ n \in Nodes /\ x \in Nodes /\ p \in Nodes /\ p \in S[T.root] /\ n # p /\ p # x
      /\ side \in Sides /\ T[side][p] = n
      /\ s = T[o][p] /\ s # NULL /\ s \in Nodes /\ s \in S[T.root]
      /\ s # p /\ s # n /\ s # x /\ T.parent[s] = p
      /\ \A m \in Nodes, q \in Sides : T[q][m] = n => m = p /\ q = side
      /\ \A m \in Nodes, q \in Sides : T[q][m] = s => m = p /\ q = o
      /\ \A q \in Sides : T[q][x] # p /\ T[q][x] # s
      /\ T.root # x /\ T.root # n /\ T.root # s /\ T.rank[T.root] = BLACK /\ T.root # NULL
      /\ p \notin S[n] /\ s \notin S[n]
      /\ \A a \in S[s] : a \notin S[n]
  BY DeleteFamily
<1>3. o \in Sides /\ o # side /\ Other(o) = side /\ \A q \in Sides : q = side \/ q = o
  BY <1>2, SidesAre
<1>4. T.rank[s] \in {RED, BLACK}
  BY <1>1, <1>2 DEF Colored
<1>5. CASE T.rank[s] = BLACK
  <2>1. DeleteCase2(T, n) = T
    BY <1>2, <1>5 DEF DeleteCase2, Color, RED, BLACK
  <2> QED BY <1>2, <1>5, <2>1 DEF Settled, SameRest, SameChildren
<1>6. CASE T.rank[s] = RED
  <2>1. DeleteCase2(T, n) = A
    <3>1. T[Other(side)][p] = s
      BY <1>2
    <3>2. Color(T, s) = RED
      BY <1>2, <1>6 DEF Color
    <3>3. A = Rotate(Paint(Paint(T, p, RED), s, BLACK), p, side)
      BY <3>1 DEF Swapped
    <3> QED BY <3>2, <3>3 DEF DeleteCase2
  <2>2. p = T.parent[n] /\ b = T[side][s] /\ s = Sibling(T, n) /\ side = Side(T, n)
    OBVIOUS
  <2>3. o = Other(side)
    OBVIOUS
  <2> HIDE DEF p, s, side, o, b
  <2>4. T.rank[p] = BLACK
    <3>1. T.rank[p] \in {RED, BLACK}
      BY <1>1, <1>2 DEF Colored
    <3> QED BY <1>1, <1>2, <1>3, <1>6, <3>1 DEF Reds
  <2>5. IsSwapped(T, S, K, A, p, side, {n}, x)
    <3>1. /\ Tied(T, S, K) /\ Colored(T, S) /\ p \in S[T.root] /\ side \in Sides
          /\ T[Other(side)][p] # NULL /\ T.rank[p] = BLACK /\ T.rank[T[Other(side)][p]] = RED
          /\ p # x /\ T[Other(side)][p] # x /\ p \notin {n} /\ T[Other(side)][p] \notin {n}
          /\ \E H : Heights(T, H, {n}, x)
      BY <1>1, <1>2, <1>6, <2>3, <2>4
    <3> QED BY <3>1, SwappedIs
  <2> HIDE DEF A, R
  <2>6. /\ Rotated(T, A, p, side) /\ SameRest(T, A)
        /\ Tied(A, R, K) /\ R[A.root] = S[T.root] /\ Colored(A, R)
        /\ \A m \in Nodes : A.rank[m] = IF m = p THEN RED ELSE IF m = s THEN BLACK ELSE T.rank[m]
        /\ \E H : Heights(A, H, {n}, x)
    BY <1>2, <2>3, <2>5 DEF IsSwapped, R
  <2>7. /\ A.root = IF T.root = p THEN s ELSE T.root
        /\ \A m \in Nodes, q \in Sides :
              A[q][m] = IF m = p /\ q = o THEN b ELSE IF m = s /\ q = side THEN p
                        ELSE IF T[q][m] = p THEN s ELSE T[q][m]
        /\ \A m \in Nodes :
              A.parent[m] = IF m = p THEN s ELSE IF m = s THEN T.parent[p] ELSE IF m = b THEN p
                            ELSE T.parent[m]
    <3>1. T[Other(side)][p] = s
      BY <1>2, <2>3
    <3> QED BY <2>2, <2>3, <2>6, <3>1 DEF Rotated
  <2>8. R[n] = S[n]
    <3>1. T[Other(side)][p] = s /\ T[Other(side)][p] # NULL /\ n \in Ids
      BY <1>2, <2>3, NodesAre
    <3> QED BY <1>1, <1>2, <3>1, TurnedIs DEF R
  <2>9. b \in Ids /\ b # p /\ b # s /\ b \notin S[n] /\ (b # NULL => T.parent[b] = s /\ b \in Nodes)
    <3>1. b \in Ids /\ (b # NULL => b \in S[s] /\ b # s /\ T.parent[b] = s /\ b \in Nodes)
      <4>1. Tied(T, S, K) /\ s \in Nodes /\ side \in Sides /\ T[side][s] = b
        BY <1>1, <1>2, <2>2
      <4> QED BY <4>1, HangsIs
    <3>2. NULL \notin Nodes /\ S[n] \subseteq Nodes
      BY <1>1, <1>2, NodesAre, ChildIs
    <3>3. p \notin S[s]
      BY <1>1, <1>2, <1>3, ChildIs
    <3> QED BY <1>2, <3>1, <3>2, <3>3
  <2>10. A.root = x \/ A.rank[A.root] = BLACK
    <3>1. T.root \in Nodes
      BY <1>1, <1>2, InsideIs
    <3> QED BY <1>2, <2>6, <2>7, <3>1
  <2>11. Reds(A, NULL, x)
    <3> SUFFICES ASSUME NEW m \in Nodes, NEW q \in Sides, A[q][m] # NULL, A.rank[m] = RED,
                        A.rank[A[q][m]] = RED, A[q][m] # x, m # x
                 PROVE  FALSE
      BY DEF Reds
    <3> DEFINE d == A[q][m]
    <3>1. d \in Nodes
      BY <2>6, ChildIs
    <3>2. m # s /\ d # s
      BY <1>2, <2>6, <3>1 DEF RED, BLACK
    <3>3. CASE m = p
      <4>1. CASE q = o
        <5>1. d = b
          BY <1>2, <2>7, <3>3, <4>1
        <5>2. T.rank[b] = RED
          BY <2>6, <2>9, <3>1, <5>1
        <5>3. b \in Nodes /\ b # NULL
          BY <3>1, <5>1, NodesAre
        <5>4. Reds(T, NULL, x) /\ s \in Nodes /\ side \in Sides /\ T[side][s] = b /\ T.rank[s] = RED
              /\ b # x /\ s # x
          BY <1>1, <1>2, <1>6, <2>2, <5>1
        <5> QED BY <5>2, <5>3, <5>4 DEF Reds
      <4>2. CASE q = side
        <5>1. d = n
          BY <1>2, <1>3, <2>7, <3>3, <4>2
        <5> QED BY <1>1, <1>2, <2>6, <5>1 DEF RED, BLACK
      <4> QED BY <1>3, <4>1, <4>2
    <3>4. CASE m # p
      <4>1. d = T[q][m] /\ d # p
        BY <2>7, <3>2, <3>4
      <4>2. T.rank[m] = RED /\ T.rank[d] = RED
        BY <2>6, <3>1, <3>2, <3>4, <4>1
      <4> QED BY <1>1, <3>1, <4>1, <4>2, NodesAre DEF Reds
    <3> QED BY <3>3, <3>4
  <2>12. n = x \/ (A.rank[n] = BLACK /\ A.rank[A.parent[x]] = BLACK)
    <3> SUFFICES ASSUME n # x PROVE A.rank[n] = BLACK /\ A.rank[A.parent[x]] = BLACK
      OBVIOUS
    <3>1. T.parent[x] \in S[n] /\ T.parent[x] \in Nodes
      BY <1>1, <1>2, Nested
    <3>2. A.parent[x] = T.parent[x]
      BY <1>1, <1>2, <2>7, <2>9
    <3> QED BY <1>1, <1>2, <2>6, <3>1, <3>2
  <2>13. Deleting(A, R, K, n, x)
    BY <1>1, <2>6, <2>8, <2>10, <2>11, <2>12 DEF Deleting
  <2>14. A.parent[n] = p /\ A.parent[n] # NULL
    <3>1. n \in S[n]
      BY <1>1, <1>2, ChildIs
    <3> QED BY <1>2, <2>2, <2>7, <2>9, <3>1, NodesAre
  <2>15. A.rank[Sibling(A, n)] = BLACK
    <3>1. /\ Side(A, n) \in Sides /\ A[Side(A, n)][p] = n /\ Sibling(A, n) = A[Other(Side(A, n))][p]
          /\ Sibling(A, n) # NULL /\ Sibling(A, n) # x
          /\ \A m \in Nodes, q \in Sides : A[q][m] = n => m = p /\ q = Side(A, n)
      BY <2>13, <2>14, DeleteFamily
    <3>2. A[side][p] = n
      BY <1>2, <1>3, <2>7
    <3>3. Sibling(A, n) = b
      <4>1. Side(A, n) = side
        BY <1>2, <3>1, <3>2
      <4>2. A[o][p] = b
        BY <1>2, <1>3, <2>7
      <4> QED BY <2>3, <3>1, <4>1, <4>2
    <3>4. T.rank[b] # RED
      BY <1>1, <1>2, <1>6, <2>2, <3>1, <3>3 DEF Reds
    <3>5. b \in Nodes
      BY <2>9, <3>1, <3>3
    <3> QED BY <1>1, <2>6, <2>9, <3>3, <3>4, <3>5 DEF Colored
  <2>16. SameChildren(T, A, x)
    BY <1>2, <2>7 DEF SameChildren
  <2> QED BY <1>2, <2>1, <2>6, <2>13, <2>14, <2>15, <2>16 DEF Settled
<1> QED BY <1>4, <1>5, <1>6

\* Case 3 applies.
Climbing(T, n) ==
    LET A == DeleteCase2(T, n) IN
    T.parent[n] # NULL /\ Color(A, A.parent[n]) = BLACK /\ BlackFamily(A, n)

\* Case 3 moves the fault up to the parent.
LEMMA DeleteCase3Is ==
    ASSUME NEW T, NEW S, NEW K, NEW n, NEW x, Deleting(T, S, K, n, x), Climbing(T, n)
    PROVE  LET next == DeleteCase3([tree |-> T, node |-> n]) IN
           /\ next = [tree |-> next.tree, node |-> next.node]
           /\ Deleting(next.tree, S, K, next.node, x) /\ SameRest(T, next.tree) /\ SameLinks(T, next.tree)
           /\ Cardinality(S[next.node]) > Cardinality(S[n])
<1> DEFINE p == T.parent[n]
           s == Sibling(T, n)
           side == Side(T, n)
           o == Other(side)
           A == Paint(T, s, RED)
           B == DeleteCase2(T, n)
<1>1. Tied(T, S, K) /\ Colored(T, S) /\ n \in S[T.root] /\ x \in S[n] /\ Reds(T, NULL, x)
      /\ (n = x \/ (T.rank[n] = BLACK /\ T.rank[T.parent[x]] = BLACK)) /\ p # NULL
  BY DEF Deleting, Climbing
<1>2. /\ n \in Nodes /\ x \in Nodes /\ p \in Nodes /\ p \in S[T.root] /\ n # p /\ p # x
      /\ side \in Sides /\ T[side][p] = n
      /\ s = T[o][p] /\ s # NULL /\ s \in Nodes /\ s \in S[T.root]
      /\ s # p /\ s # n /\ s # x /\ T.parent[s] = p
      /\ \A m \in Nodes, q \in Sides : T[q][m] = n => m = p /\ q = side
      /\ \A m \in Nodes, q \in Sides : T[q][m] = s => m = p /\ q = o
      /\ T.root # x /\ T.root # n /\ T.root # s /\ T.rank[T.root] = BLACK /\ T.root # NULL
      /\ p \notin S[n] /\ s \notin S[n]
  BY <1>1, DeleteFamily
<1>3. o \in Sides /\ o # side /\ Other(o) = side /\ \A q \in Sides : q = side \/ q = o
  BY <1>2, SidesAre
<1>4. B = T
  <2>1. Settled(T, S, K, n, x, B)
    BY <1>1, DeleteCase2Is
  <2>2. Color(B, B.parent[n]) = BLACK
    BY DEF Climbing
  <2> HIDE DEF B
  <2> QED BY <2>1, <2>2 DEF Settled, Color, RED, BLACK
<1>5. Color(T, p) = BLACK /\ BlackFamily(T, n)
  <2>1. Color(B, B.parent[n]) = BLACK /\ BlackFamily(B, n)
    BY DEF Climbing
  <2> QED BY <1>4, <2>1
<1>6. T.rank[p] = BLACK /\ T.rank[s] = BLACK /\ \A q \in Sides : T[q][s] = NULL \/ T.rank[T[q][s]] = BLACK
  <2>1. T.rank[p] = BLACK /\ Color(T, s) = BLACK /\ Color(T, T["left"][s]) = BLACK /\ Color(T, T["right"][s]) = BLACK
    BY <1>1, <1>5 DEF BlackFamily, Color
  <2>2. T.rank[s] = BLACK
    BY <1>2, <2>1 DEF Color
  <2> QED BY <2>1, <2>2 DEF Color, Sides
<1>7. DeleteCase3([tree |-> T, node |-> n]) = [tree |-> A, node |-> p]
  <2>1. DeleteCase3([tree |-> T, node |-> n])
          = IF p # NULL /\ Color(B, B.parent[n]) = BLACK /\ BlackFamily(B, n)
            THEN [tree |-> Paint(B, Sibling(B, n), RED), node |-> B.parent[n]]
            ELSE [tree |-> T, node |-> n]
    BY DEF DeleteCase3
  <2> HIDE DEF B
  <2> QED BY <1>1, <1>4, <1>5, <2>1
<1>8. p = T.parent[n]
  OBVIOUS
<1> HIDE DEF p, s, side, o, B
<1>9. Painted(T, A, s, RED)
  BY <1>1, <1>2, PaintIs DEF Tied, RED
<1> HIDE DEF A
<1>10. /\ A \in Trees /\ SameRest(T, A) /\ SameLinks(T, A) /\ A.root = T.root /\ A.parent = T.parent
       /\ \A q \in Sides : A[q] = T[q]
       /\ \A m \in Nodes : A.rank[m] = IF m = s THEN RED ELSE T.rank[m]
  BY <1>9 DEF Painted, SameLinks
<1>11. Tied(A, S, K)
  BY <1>1, <1>10, PaintedTied
<1>12. Colored(A, S)
  BY <1>1, <1>2, <1>10 DEF Colored
<1>13. A.rank[A.root] = BLACK /\ A.rank[p] = BLACK
  <2>1. T.root \in Nodes
    BY <1>1, <1>2, InsideIs
  <2> QED BY <1>2, <1>6, <1>10, <2>1
<1>14. Reds(A, NULL, x)
  <2> SUFFICES ASSUME NEW m \in Nodes, NEW q \in Sides, A[q][m] # NULL, A.rank[m] = RED,
                      A.rank[A[q][m]] = RED, A[q][m] # x, m # x
               PROVE  FALSE
    BY DEF Reds
  <2> DEFINE d == A[q][m]
  <2>1. d \in Nodes /\ d = T[q][m]
    BY <1>10, <1>11, ChildIs
  <2>2. d # s
    BY <1>2, <1>6, <1>10, <2>1 DEF RED, BLACK
  <2>3. m # s
    BY <1>6, <1>10, <2>1, <2>2, NodesAre DEF RED, BLACK
  <2> QED BY <1>1, <1>10, <2>1, <2>2, <2>3, NodesAre DEF Reds
<1>15. A.rank[A.parent[x]] = BLACK
  <2>1. CASE n = x
    BY <1>8, <1>10, <1>13, <2>1
  <2>2. CASE n # x
    <3>1. T.parent[x] \in S[n] /\ T.parent[x] \in Nodes
      BY <1>1, <1>2, <2>2, Nested
    <3> QED BY <1>1, <1>2, <1>10, <2>2, <3>1
  <2> QED BY <2>1, <2>2
<1>16. \E H : Heights(A, H, {p}, x)
  <2>1. PICK H : Heights(T, H, {n}, x)
    BY DEF Deleting
  <2>2. /\ H \in [Ids -> Nat] /\ H[NULL] = 0 /\ H[p] \in Nat /\ H[s] \in Nat /\ H[n] \in Nat
        /\ H[p] = 1 + H[s] /\ H[p] = 2 + H[n]
        /\ \A q \in Sides : H[s] = 1 + H[T[q][s]] /\ H[T[q][s]] \in Nat
    <3>1. H \in [Ids -> Nat] /\ H[NULL] = 0
      BY <2>1 DEF Heights
    <3>2. Due({n}, n) = 1 /\ Due({n}, s) = 0 /\ Weight(T, x, p) = 1 /\ Weight(T, x, s) = 1
      BY <1>2, <1>6 DEF Due, Weight, BLACK
    <3>3. H[p] = Weight(T, x, p) + H[s] + Due({n}, s) /\ H[p] = Weight(T, x, p) + H[n] + Due({n}, n)
          /\ H[p] \in Nat /\ H[s] \in Nat /\ H[n] \in Nat
      BY <1>1, <1>2, <1>3, <2>1, HeightsAre
    <3>4. ASSUME NEW q \in Sides PROVE H[s] = 1 + H[T[q][s]] /\ H[T[q][s]] \in Nat
      <4>1. T[q][s] # n
        BY <1>2
      <4>2. Due({n}, T[q][s]) = 0
        BY <4>1 DEF Due
      <4>3. H[s] = Weight(T, x, s) + H[T[q][s]] + Due({n}, T[q][s]) /\ H[T[q][s]] \in Nat
        BY <1>1, <1>2, <2>1, HeightsAre
      <4> QED BY <3>2, <4>2, <4>3
    <3> QED BY <3>1, <3>2, <3>3, <3>4
  <2>3. H[s] - 1 \in Nat /\ H[p] - 1 \in Nat
    <3>1. "left" \in Sides
      BY DEF Sides
    <3> QED BY <2>2, <3>1
  <2> DEFINE G == [H EXCEPT ![s] = H[s] - 1, ![p] = H[p] - 1]
  <2>4. /\ G \in [Ids -> Nat] /\ G[NULL] = 0 /\ G[s] = H[s] - 1 /\ G[p] = H[p] - 1
        /\ \A m \in Ids : m # p /\ m # s => G[m] = H[m]
    BY <1>1, <1>2, <2>2, <2>3, NodesAre
  <2> HIDE DEF G
  <2>5. ASSUME NEW m \in Nodes, NEW q \in Sides
        PROVE  G[m] = Weight(A, x, m) + G[A[q][m]] + Due({p}, A[q][m])
    <3> DEFINE d == T[q][m]
    <3>1. H[m] = Weight(T, x, m) + H[d] + Due({n}, d) /\ H[d] \in Nat /\ H[m] \in Nat /\ d \in Ids
          /\ Weight(T, x, m) \in {0, 1}
      <4>1. d \in Ids
        BY <1>1, ChildIs
      <4> QED BY <1>1, <2>1, <4>1, HeightsAre
    <3>2. A[q][m] = d /\ (m # s => Weight(A, x, m) = Weight(T, x, m)) /\ (m = s => Weight(A, x, m) = 0)
      BY <1>2, <1>10 DEF Weight, RED
    <3>3. (d = n => m = p /\ q = side) /\ (d = s => m = p /\ q = o)
      BY <1>2
    <3>4. Due({p}, d) = (IF d = p THEN 1 ELSE 0) /\ Due({n}, d) = (IF d = n THEN 1 ELSE 0)
      BY DEF Due
    <3>5. d # NULL => d # m /\ (m = s => d # p)
      <4>1. d # NULL => d # m /\ d \in S[m]
        BY <1>1, ChildIs
      <4>2. p \notin S[s]
        BY <1>1, <1>2, <1>3, ChildIs
      <4> QED BY <4>1, <4>2
    <3>6. CASE m = p
      <4>1. d = n \/ d = s
        BY <1>2, <1>3, <3>6
      <4>2. Weight(A, x, m) = 1 /\ d # p
        BY <1>2, <1>6, <3>2, <3>6, <4>1 DEF Weight, BLACK
      <4>3. G[n] = H[n]
        BY <1>2, <2>4, NodesAre
      <4> HIDE DEF d
      <4>4. CASE d = n
        BY <1>2, <2>2, <2>4, <3>2, <3>4, <3>6, <4>2, <4>3, <4>4
      <4>5. CASE d = s
        BY <1>2, <2>2, <2>4, <3>2, <3>4, <3>6, <4>2, <4>5
      <4> QED BY <4>1, <4>4, <4>5
    <3>7. CASE m = s
      <4>1. d # p /\ d # s /\ d # n /\ H[s] = 1 + H[d]
        BY <1>2, <2>2, <3>3, <3>5, <3>7, NodesAre
      <4> HIDE DEF d
      <4>2. G[d] = H[d]
        BY <2>4, <3>1, <4>1
      <4> QED BY <2>2, <2>4, <3>1, <3>2, <3>4, <3>7, <4>1, <4>2
    <3>8. CASE m # p /\ m # s
      <4> HIDE DEF d
      <4>1. d # n /\ d # s /\ G[m] = H[m]
        BY <2>4, <3>3, <3>8, NodesAre
      <4>2. CASE d = p
        BY <2>2, <2>4, <3>1, <3>2, <3>4, <3>8, <4>1, <4>2
      <4>3. CASE d # p
        <5>1. G[d] = H[d]
          BY <2>4, <3>1, <4>1, <4>3
        <5> QED BY <3>1, <3>2, <3>4, <3>8, <4>1, <4>3, <5>1
      <4> QED BY <4>2, <4>3
    <3> QED BY <3>6, <3>7, <3>8
  <2> QED BY <2>4, <2>5 DEF Heights
<1>17. x \in S[p]
  BY <1>1, <1>2, ChildIs
<1>18. Deleting(A, S, K, p, x)
  BY <1>2, <1>10, <1>11, <1>12, <1>13, <1>14, <1>15, <1>16, <1>17 DEF Deleting
<1>19. Cardinality(S[p]) > Cardinality(S[n])
  <2>1. Cardinality(S[T[side][p]]) < Cardinality(S[p]) /\ S[p] \in SUBSET Nodes /\ S[n] \in SUBSET Nodes
    BY <1>1, <1>2, ChildIs
  <2>2. Cardinality(S[p]) \in 0 .. MaxNodes /\ Cardinality(S[n]) \in 0 .. MaxNodes
    BY <2>1, ManyNodes
  <2> QED BY <1>2, <2>1, <2>2
<1> QED BY <1>7, <1>10, <1>18, <1>19

\* Where the repair of a deletion from T can be on its way up.
DeleteClimb(T, S, K, x) ==
    {at \in [tree : Trees, node : Nodes] :
        Deleting(at.tree, S, K, at.node, x) /\ SameRest(T, at.tree) /\ SameLinks(T, at.tree)}

\* The calls of case 1 by way of case 3 end.
LEMMA DeleteLastIs ==
    ASSUME NEW T, NEW S, NEW K, NEW n, NEW x, Deleting(T, S, K, n, x)
    PROVE  LET last == DeleteLast(T, n) IN
           /\ Deleting(last.tree, S, K, last.node, x) /\ SameRest(T, last.tree) /\ SameLinks(T, last.tree)
           /\ ~Climbing(last.tree, last.node)
<1> DEFINE X == DeleteClimb(T, S, K, x)
           first == [tree |-> T, node |-> n]
           step == [at \in X |-> DeleteCase3(at)]
           size == [at \in X |-> Cardinality(S[at.node])]
           E(f) == [k \in 0 .. MaxNodes |-> IF k = 0 THEN first ELSE DeleteCase3(f[k - 1])]
           call == CHOOSE f : f = E(f)
<1>1. T \in Trees /\ n \in Nodes /\ Tied(T, S, K) /\ MaxNodes \in Nat
  BY InsideIs, NodesAre DEF Deleting, Tied
<1>2. first \in X
  BY <1>1 DEF DeleteClimb, SameRest, SameLinks
<1>3. ASSUME NEW at \in X
      PROVE  /\ at.node \in Nodes /\ at.tree \in Trees /\ at = [tree |-> at.tree, node |-> at.node]
             /\ Deleting(at.tree, S, K, at.node, x) /\ SameRest(T, at.tree) /\ SameLinks(T, at.tree)
  BY DEF DeleteClimb
<1>4. ASSUME NEW at \in X
      PROVE  /\ DeleteCase3(at) \in X
             /\ IF Climbing(at.tree, at.node)
                THEN Cardinality(S[DeleteCase3(at).node]) > Cardinality(S[at.node])
                ELSE DeleteCase3(at) = at
  <2> HIDE DEF X
  <2>1. CASE Climbing(at.tree, at.node)
    <3> DEFINE next == DeleteCase3([tree |-> at.tree, node |-> at.node])
    <3>1. DeleteCase3(at) = next
      BY <1>3
    <3>2. /\ next = [tree |-> next.tree, node |-> next.node]
          /\ Deleting(next.tree, S, K, next.node, x) /\ SameRest(at.tree, next.tree) /\ SameLinks(at.tree, next.tree)
          /\ Cardinality(S[next.node]) > Cardinality(S[at.node])
      BY <1>3, <2>1, DeleteCase3Is
    <3> HIDE DEF next
    <3>3. SameRest(T, next.tree) /\ SameLinks(T, next.tree)
      BY <1>3, <3>2 DEF SameRest, SameLinks
    <3>4. next.tree \in Trees /\ next.node \in Nodes
      BY <3>2, InsideIs DEF Deleting, Tied
    <3>5. next \in [tree : Trees, node : Nodes]
      BY <3>2, <3>4
    <3>6. next \in X
      BY <3>2, <3>3, <3>5 DEF X, DeleteClimb
    <3> QED BY <2>1, <3>1, <3>2, <3>6
  <2>2. CASE ~Climbing(at.tree, at.node)
    <3>1. DeleteCase3(at) = at
      BY <2>2 DEF DeleteCase3, Climbing
    <3> QED BY <2>2, <3>1
  <2> QED BY <2>1, <2>2
<1>5. \A at \in X : S[at.node] \in SUBSET Nodes /\ Cardinality(S[at.node]) \in 1 .. MaxNodes
  <2> TAKE at \in X
  <2>1. at.node \in Nodes
    BY <1>3
  <2>2. at.node \in S[at.node] /\ S[at.node] \in SUBSET Nodes
    <3>1. "left" \in Sides
      BY DEF Sides
    <3> QED BY <1>1, <2>1, <3>1, ChildIs
  <2>3. Cardinality(S[at.node]) \in 0 .. MaxNodes /\ Cardinality({}) < Cardinality(S[at.node]) /\ Cardinality({}) \in 0 .. MaxNodes
    BY <2>2, ManyNodes
  <2> QED BY <1>1, <2>2, <2>3
<1>6. step \in [X -> X] /\ \A at \in X : step[at] = DeleteCase3(at)
  <2> HIDE DEF X
  <2> QED BY <1>4
<1>7. size \in [X -> 1 .. MaxNodes] /\ \A at \in X : size[at] = Cardinality(S[at.node])
  <2> HIDE DEF X
  <2> QED BY <1>5
<1> HIDE DEF X, first, step, size
<1>8. \A y \in X : step[y] = y \/ size[step[y]] > size[y]
  BY <1>4, <1>6, <1>7
<1>9. PICK f : Climbs(f, MaxNodes, X, first, step)
  BY <1>1, <1>2, <1>6, <1>7, <1>8, ClimbEnds
<1>10. f \in [0 .. MaxNodes -> X] /\ f[0] = first /\ (\A k \in 1 .. MaxNodes : f[k] = step[f[k - 1]])
       /\ step[f[MaxNodes]] = f[MaxNodes]
  BY <1>9 DEF Climbs
<1>11. ASSUME NEW k \in 1 .. MaxNodes PROVE f[k - 1] \in X /\ f[k] = DeleteCase3(f[k - 1])
  <2>1. k - 1 \in 0 .. MaxNodes
    BY <1>1
  <2> QED BY <1>6, <1>10, <2>1
<1>12. f = E(f)
  <2>1. \A k \in 0 .. MaxNodes : f[k] = IF k = 0 THEN first ELSE DeleteCase3(f[k - 1])
    BY <1>1, <1>10, <1>11
  <2> QED BY <1>10, <2>1
<1>13. call = E(call)
  <2> HIDE DEF E
  <2> QED BY <1>12
<1>14. DeleteLast(T, n) = call[MaxNodes]
  BY DEF DeleteLast, first
<1> HIDE DEF call
<1> DEFINE U == {k \in 0 .. MaxNodes : call[k] = f[k]}
<1>15. call[0] = first /\ \A k \in 1 .. MaxNodes : call[k] = DeleteCase3(call[k - 1])
  <2>1. \A k \in 0 .. MaxNodes : call[k] = IF k = 0 THEN first ELSE DeleteCase3(call[k - 1])
    BY <1>13
  <2> HIDE DEF E
  <2>2. 0 \in 0 .. MaxNodes /\ \A k \in 1 .. MaxNodes : k \in 0 .. MaxNodes /\ k # 0
    BY <1>1
  <2> QED BY <2>1, <2>2
<1>16. 0 \in U
  BY <1>1, <1>10, <1>15
<1>17. ASSUME NEW k \in 1 .. MaxNodes, k - 1 \in U PROVE k \in U
  <2>1. k \in 0 .. MaxNodes /\ call[k - 1] = f[k - 1]
    BY <1>1, <1>17
  <2> QED BY <1>11, <1>15, <2>1
<1>18. MaxNodes \in U
  <2>1. MaxNodes \in 0 .. MaxNodes
    BY <1>1
  <2> HIDE DEF U
  <2> QED BY <1>1, <1>16, <1>17, <2>1, Induction
<1> DEFINE last == f[MaxNodes]
<1>19. DeleteLast(T, n) = last /\ last \in X /\ DeleteCase3(last) = last
  <2>1. last \in X
    BY <1>1, <1>10
  <2> QED BY <1>6, <1>10, <1>14, <1>18, <2>1
<1> HIDE DEF last
<1>20. ~Climbing(last.tree, last.node)
  <2> SUFFICES ASSUME Climbing(last.tree, last.node) PROVE FALSE
    OBVIOUS
  <2>1. Cardinality(S[last.node]) > Cardinality(S[last.node])
    BY <1>4, <1>19
  <2>2. Cardinality(S[last.node]) \in 1 .. MaxNodes
    BY <1>5, <1>19
  <2> QED BY <2>1, <2>2
<1> QED BY <1>3, <1>19, <1>20

\* Case 6 mends the tree.
LEMMA DeleteCase6Is ==
    ASSUME NEW T, NEW S, NEW K, NEW n, NEW x, Deleting(T, S, K, n, x), T.parent[n] # NULL,
           T.rank[Sibling(T, n)] = BLACK, T[Other(Side(T, n))][Sibling(T, n)] # NULL,
           T.rank[T[Other(Side(T, n))][Sibling(T, n)]] = RED
    PROVE  Mends(T, S, K, x, DeleteCase6(T, n))
<1> DEFINE p == T.parent[n]
           s == Sibling(T, n)
           side == Side(T, n)
           o == Other(side)
           c == T[o][s]
           b == T[side][s]
           P1 == Paint(T, s, T.rank[p])
           P2 == Paint(P1, p, BLACK)
           P == Paint(P2, c, BLACK)
           A == Rotate(P, p, side)
           R == Turned(T, S, p, side)
<1>1. Tied(T, S, K) /\ Colored(T, S) /\ n \in S[T.root] /\ x \in S[n] /\ Reds(T, NULL, x)
      /\ (n = x \/ (T.rank[n] = BLACK /\ T.rank[T.parent[x]] = BLACK)) /\ p # NULL
  BY DEF Deleting
<1>2. /\ n \in Nodes /\ x \in Nodes /\ p \in Nodes /\ p \in S[T.root] /\ n # p /\ p # x
      /\ side \in Sides /\ T[side][p] = n
      /\ s = T[o][p] /\ s # NULL /\ s \in Nodes /\ s \in S[T.root]
      /\ s # p /\ s # n /\ s # x /\ T.parent[s] = p
      /\ \A m \in Nodes, q \in Sides : T[q][m] = n => m = p /\ q = side
      /\ \A m \in Nodes, q \in Sides : T[q][m] = s => m = p /\ q = o
      /\ \A q \in Sides : T[q][x] # p /\ T[q][x] # s
      /\ T.root # x /\ T.root # n /\ T.root # s /\ T.rank[T.root] = BLACK /\ T.root # NULL
      /\ p \notin S[n] /\ s \notin S[n]
      /\ \A a \in S[s] : a \notin S[n]
  BY <1>1, DeleteFamily
<1>3. o \in Sides /\ o # side /\ Other(o) = side /\ \A q \in Sides : q = side \/ q = o
  BY <1>2, SidesAre
<1>4. DeleteCase6(T, n) = A
  BY DEF DeleteCase6
<1>5. T.rank[s] = BLACK /\ c # NULL /\ T.rank[c] = RED /\ p = T.parent[n] /\ o = Other(side)
      /\ c = T[o][s] /\ b = T[side][s]
  OBVIOUS
<1> HIDE DEF p, s, side, o, b, c
<1>6. /\ c \in Nodes /\ c # s /\ c # p /\ c # n /\ c # x /\ c \in S[T.root] /\ c \notin S[n] /\ T.parent[c] = s
      /\ b \in Ids /\ b # p /\ b # s /\ b # c /\ b # n /\ b # x /\ b \notin S[n] /\ (b # NULL => T.parent[b] = s)
      /\ \A m \in Nodes, q \in Sides : T[q][m] = c => m = s
  <2>1. c \in Nodes /\ c \in S[s] /\ c # s /\ T.parent[c] = s /\ c \in S[c]
    <3>1. Tied(T, S, K) /\ s \in Nodes /\ o \in Sides /\ T[o][s] = c /\ c # NULL
      BY <1>1, <1>2, <1>3, <1>5
    <3> QED BY <3>1, HangsIs
  <2>2. b \in Ids /\ (b # NULL => b \in S[s] /\ b # s /\ T.parent[b] = s /\ b \in Nodes)
    <3>1. Tied(T, S, K) /\ s \in Nodes /\ side \in Sides /\ T[side][s] = b
      BY <1>1, <1>2, <1>5
    <3> QED BY <3>1, HangsIs
  <2>3. p \notin S[s] /\ S[s] \subseteq S[T.root] /\ n \in S[n]
    <3>1. n \in S[n]
      BY <1>1, <1>2, ChildIs
    <3> QED BY <1>1, <1>2, <1>3, <3>1, ChildIs, InsideIs
  <2>4. b # c
    <3>1. c \in S[T[o][s]] /\ c \notin S[T[Other(o)][s]]
      BY <1>1, <1>2, <1>3, <1>5, <2>1, ChildIs, ZenonT(60)
    <3>2. b = c => c \in S[T[Other(o)][s]]
      BY <1>3, <1>5, <2>1
    <3> QED BY <3>1, <3>2
  <2>5. NULL \notin Nodes
    BY NodesAre
  <2>6. ASSUME NEW m \in Nodes, NEW q \in Sides, T[q][m] = c PROVE m = s
    BY <1>1, <1>5, <2>1, <2>6, ChildIs
  <2>7. S[n] \subseteq Nodes
    BY <1>1, <1>2, ChildIs
  <2> QED BY <1>1, <1>2, <2>1, <2>2, <2>3, <2>4, <2>5, <2>6, <2>7
<1>7. Painted(T, P1, s, T.rank[p]) /\ Painted(P1, P2, p, BLACK) /\ Painted(P2, P, c, BLACK)
  <2>1. T \in Trees /\ BLACK \in Int /\ T.rank[p] \in Int
    BY <1>1, <1>2 DEF Tied, Colored, RED, BLACK
  <2>2. Painted(T, P1, s, T.rank[p])
    BY <1>2, <2>1, PaintIs
  <2> HIDE DEF P1
  <2>3. Painted(P1, P2, p, BLACK)
    <3>1. P1 \in Trees
      BY <2>2 DEF Painted
    <3> QED BY <1>2, <2>1, <3>1, PaintIs
  <2> HIDE DEF P2
  <2>4. Painted(P2, P, c, BLACK)
    BY <1>6, <2>1, <2>3, PaintIs DEF Painted
  <2> QED BY <2>2, <2>3, <2>4
<1> HIDE DEF P1, P2, P
<1>8. /\ P \in Trees /\ SameLinks(T, P) /\ SameRest(T, P)
      /\ \A m \in Nodes : P.rank[m] = IF m = c \/ m = p THEN BLACK ELSE IF m = s THEN T.rank[p] ELSE T.rank[m]
  BY <1>2, <1>6, <1>7 DEF Painted, SameLinks, SameRest
<1>9. Tied(P, S, K)
  BY <1>1, <1>8, PaintedTied
<1>10. Rotated(P, A, p, side) /\ SameRest(P, A) /\ A.rank = P.rank
  <2>1. p \in S[P.root] /\ P[Other(side)][p] # NULL
    BY <1>2, <1>3, <1>5, <1>8 DEF SameLinks
  <2>2. Tied(P, S, K) /\ side \in Sides
    BY <1>2, <1>9
  <2> QED BY <2>1, <2>2, RotateIs
<1> HIDE DEF A
<1>11. Rotated(T, A, p, side)
  BY <1>2, <1>8, <1>10, RotatedSame
<1>12. T[Other(side)][p] = s /\ T[Other(side)][p] # NULL
  BY <1>2, <1>5
<1>13. Tied(A, R, K) /\ R[A.root] = S[T.root]
  BY <1>1, <1>2, <1>11, <1>12, RotatedTied
<1> HIDE DEF R
<1>14. /\ A.root = IF T.root = p THEN s ELSE T.root
       /\ \A m \in Nodes, q \in Sides :
              A[q][m] = IF m = p /\ q = o THEN b ELSE IF m = s /\ q = side THEN p
                        ELSE IF T[q][m] = p THEN s ELSE T[q][m]
       /\ \A m \in Nodes :
              A.parent[m] = IF m = p THEN s ELSE IF m = s THEN T.parent[p] ELSE IF m = b THEN p
                            ELSE T.parent[m]
  BY <1>5, <1>11, <1>12 DEF Rotated
<1>15. \A m \in Nodes : A.rank[m] = IF m = c \/ m = p THEN BLACK ELSE IF m = s THEN T.rank[p] ELSE T.rank[m]
  BY <1>8, <1>10
<1>25. A[o][s] = c /\ A[side][s] = p
  <2>1. A[o][s] = IF s = p /\ o = o THEN b ELSE IF s = s /\ o = side THEN p
                  ELSE IF T[o][s] = p THEN s ELSE T[o][s]
    BY <1>2, <1>3, <1>14
  <2>2. A[side][s] = IF s = p /\ side = o THEN b ELSE IF s = s /\ side = side THEN p
                     ELSE IF T[side][s] = p THEN s ELSE T[side][s]
    BY <1>2, <1>3, <1>14
  <2> QED BY <1>2, <1>3, <1>5, <1>6, <2>1, <2>2
<1>16. Colored(A, R)
  BY <1>1, <1>2, <1>6, <1>13, <1>15 DEF Colored
<1>17. A.rank[A.root] = BLACK
  <2>1. T.root \in Nodes
    BY <1>1, <1>2, InsideIs
  <2> QED BY <1>2, <1>6, <1>14, <1>15, <2>1
<1>18. A.rank[A.parent[x]] = BLACK
  <2>1. A.parent[x] = T.parent[x]
    BY <1>2, <1>6, <1>14
  <2>2. CASE n = x
    BY <1>2, <1>5, <1>15, <2>1, <2>2
  <2>3. CASE n # x
    <3>1. T.parent[x] \in S[n] /\ T.parent[x] \in Nodes
      BY <1>1, <1>2, <2>3, Nested
    <3> QED BY <1>1, <1>2, <1>15, <2>1, <2>3, <3>1
  <2> QED BY <2>2, <2>3
<1>19. Reds(A, NULL, x)
  <2> SUFFICES ASSUME NEW m \in Nodes, NEW q \in Sides, A[q][m] # NULL, A.rank[m] = RED,
                      A.rank[A[q][m]] = RED, A[q][m] # x, m # x
               PROVE  FALSE
    BY DEF Reds
  <2> DEFINE d == A[q][m]
  <2>1. d \in Nodes
    BY <1>13, ChildIs
  <2>2. m # p /\ d # p /\ m # c /\ d # c
    BY <1>15, <2>1 DEF RED, BLACK
  <2>3. m # s
    <3>1. (m = s /\ q = side => d = p) /\ (m = s /\ q = o => d = c)
      BY <1>25
    <3> QED BY <1>3, <2>2, <3>1
  <2>4. T.rank[m] = RED
    BY <1>15, <2>2, <2>3
  <2>5. CASE T[q][m] = p
    <3>1. d = s
      BY <1>14, <2>2, <2>3, <2>5
    <3>2. T.rank[p] = RED
      BY <1>2, <1>6, <1>15, <3>1
    <3> QED BY <1>1, <1>2, <2>4, <2>5, <3>2 DEF Reds
  <2>6. CASE T[q][m] # p
    <3>1. d = T[q][m] /\ d # s
      BY <1>2, <1>14, <2>2, <2>3, <2>6
    <3>2. T.rank[d] = RED
      BY <1>15, <2>1, <2>2, <3>1
    <3> QED BY <1>1, <2>1, <2>4, <3>1, <3>2, NodesAre DEF Reds
  <2> QED BY <2>5, <2>6
<1>20. \E H : Heights(A, H, {}, x)
  <2>1. PICK H : Heights(T, H, {n}, x)
    BY DEF Deleting
  <2>2. /\ H \in [Ids -> Nat] /\ H[NULL] = 0 /\ H[p] \in Nat /\ H[n] \in Nat /\ H[b] \in Nat /\ H[c] \in Nat
        /\ T.rank[p] \in {0, 1}
        /\ H[p] = T.rank[p] + H[n] + 1 /\ H[b] = H[n] /\ H[c] = H[n]
        /\ \A q \in Sides : H[c] = H[T[q][c]] /\ H[T[q][c]] \in Nat
    <3>1. H \in [Ids -> Nat] /\ H[NULL] = 0
      BY <2>1 DEF Heights
    <3>2. Due({n}, n) = 1 /\ Due({n}, s) = 0 /\ Due({n}, b) = 0 /\ Due({n}, c) = 0 /\ Weight(T, x, p) = T.rank[p]
          /\ Weight(T, x, s) = 1 /\ Weight(T, x, c) = 0
      BY <1>2, <1>5, <1>6 DEF Due, Weight, RED, BLACK
    <3>3. H[p] = Weight(T, x, p) + H[s] + Due({n}, s) /\ H[p] = Weight(T, x, p) + H[n] + Due({n}, n)
          /\ H[p] \in Nat /\ H[s] \in Nat /\ H[n] \in Nat /\ T.rank[p] \in {0, 1}
      BY <1>1, <1>2, <1>3, <2>1, HeightsAre
    <3>4. H[s] = Weight(T, x, s) + H[b] + Due({n}, b) /\ H[s] = Weight(T, x, s) + H[c] + Due({n}, c)
          /\ H[b] \in Nat /\ H[c] \in Nat
      <4>1. Tied(T, S, K) /\ Heights(T, H, {n}, x) /\ Colored(T, S) /\ s \in Nodes
            /\ T[side][s] = b /\ T[o][s] = c /\ side \in Sides /\ o \in Sides
        BY <1>1, <1>2, <1>3, <1>5, <2>1
      <4> QED BY <4>1, HeightsAre
    <3>5. ASSUME NEW q \in Sides PROVE H[c] = H[T[q][c]] /\ H[T[q][c]] \in Nat
      <4>1. T[q][c] # n
        BY <1>2, <1>6
      <4>2. Due({n}, T[q][c]) = 0
        BY <4>1 DEF Due
      <4>3. H[c] = Weight(T, x, c) + H[T[q][c]] + Due({n}, T[q][c]) /\ H[T[q][c]] \in Nat
        BY <1>1, <1>6, <2>1, HeightsAre
      <4> QED BY <3>2, <4>2, <4>3
    <3> QED BY <3>1, <3>2, <3>3, <3>4, <3>5
  <2> DEFINE G == [H EXCEPT ![p] = H[n] + 1, ![s] = H[p], ![c] = H[c] + 1]
  <2>3. /\ G \in [Ids -> Nat] /\ G[NULL] = 0 /\ G[p] = H[n] + 1 /\ G[s] = H[p] /\ G[c] = H[c] + 1
        /\ \A m \in Ids : m # p /\ m # s /\ m # c => G[m] = H[m]
    <3>1. p \in Ids /\ s \in Ids /\ c \in Ids /\ p # NULL /\ s # NULL /\ c # NULL
      BY <1>2, <1>6, NodesAre
    <3>2. p # s /\ p # c /\ s # c
      BY <1>2, <1>6
    <3>3. H \in [Ids -> Nat] /\ H[NULL] = 0 /\ H[n] + 1 \in Nat /\ H[p] \in Nat /\ H[c] + 1 \in Nat
      BY <2>2
    <3> DEFINE u == H[n] + 1
               v == H[p]
               w == H[c] + 1
    <3>4. u \in Nat /\ v \in Nat /\ w \in Nat
      BY <3>3
    <3> HIDE DEF u, v, w
    <3>5. /\ [H EXCEPT ![p] = u, ![s] = v, ![c] = w] \in [Ids -> Nat]
          /\ [H EXCEPT ![p] = u, ![s] = v, ![c] = w][NULL] = 0
          /\ [H EXCEPT ![p] = u, ![s] = v, ![c] = w][p] = u
          /\ [H EXCEPT ![p] = u, ![s] = v, ![c] = w][s] = v
          /\ [H EXCEPT ![p] = u, ![s] = v, ![c] = w][c] = w
          /\ \A m \in Ids : m # p /\ m # s /\ m # c => [H EXCEPT ![p] = u, ![s] = v, ![c] = w][m] = H[m]
      BY <3>1, <3>2, <3>3, <3>4, NodesAre
    <3> QED BY <3>5 DEF u, v, w
  <2> HIDE DEF G
  <2>4. ASSUME NEW m \in Nodes, NEW q \in Sides
        PROVE  G[m] = Weight(A, x, m) + G[A[q][m]] + Due({}, A[q][m])
    <3> DEFINE d == T[q][m]
    <3>1. H[m] = Weight(T, x, m) + H[d] + Due({n}, d) /\ H[d] \in Nat /\ H[m] \in Nat /\ d \in Ids
          /\ Weight(T, x, m) \in {0, 1}
      <4>1. d \in Ids
        BY <1>1, ChildIs
      <4> QED BY <1>1, <2>1, <4>1, HeightsAre
    <3>2. /\ m # p /\ m # s /\ m # c => Weight(A, x, m) = Weight(T, x, m)
          /\ Weight(A, x, p) = 1 /\ Weight(A, x, c) = 1 /\ Weight(A, x, s) = T.rank[p]
          /\ Due({}, A[q][m]) = 0
      BY <1>2, <1>6, <1>15 DEF Weight, Due, BLACK
    <3>3. (d = n => m = p /\ q = side) /\ (d = s => m = p /\ q = o) /\ (d = c => m = s)
      BY <1>2, <1>6
    <3>4. CASE m = p
      <4>1. A[q][m] = IF q = o THEN b ELSE n
        BY <1>2, <1>3, <1>14, <3>4
      <4>2. G[b] = H[b] /\ G[n] = H[n]
        BY <1>2, <1>6, <2>3, NodesAre
      <4> QED BY <2>2, <2>3, <3>2, <3>4, <4>1, <4>2
    <3>5. CASE m = s
      <4>1. A[q][m] = IF q = o THEN c ELSE p
        BY <1>3, <1>25, <3>5
      <4> QED BY <2>2, <2>3, <3>2, <3>5, <4>1
    <3>6. CASE m = c
      <4>1. d # p /\ d # s /\ d # c /\ A[q][m] = d
        <5>1. d # p
          <6>1. d = p => d \in S[c]
            BY <1>1, <1>2, <3>6, ChildIs, NodesAre
          <6>2. S[c] \subseteq S[s] /\ p \notin S[s]
            <7>1. Tied(T, S, K) /\ s \in Nodes /\ o \in Sides /\ T[o][s] = c
                  /\ p \in Nodes /\ T[o][p] = s
              BY <1>1, <1>2, <1>3, <1>5
            <7> QED BY <7>1, HangsIs
          <6> QED BY <6>1, <6>2
        <5> QED BY <1>6, <1>14, <3>3, <3>6, <5>1
      <4>2. H[c] = H[d]
        BY <2>2, <3>6
      <4>3. G[d] = H[d]
        BY <2>3, <3>1, <4>1
      <4> HIDE DEF d
      <4> QED BY <2>2, <2>3, <3>1, <3>2, <3>6, <4>1, <4>2, <4>3
    <3>7. CASE m # p /\ m # s /\ m # c
      <4>1. G[m] = H[m] /\ d # n /\ d # s /\ d # c /\ Weight(A, x, m) = Weight(T, x, m) /\ Due({n}, d) = 0
        BY <2>3, <3>2, <3>3, <3>7, NodesAre DEF Due
      <4>2. A[q][m] = IF d = p THEN s ELSE d
        BY <1>14, <3>7
      <4> HIDE DEF d
      <4>3. G[A[q][m]] = H[d]
        BY <2>3, <3>1, <4>1, <4>2
      <4> QED BY <3>1, <3>2, <4>1, <4>3
    <3> QED BY <3>4, <3>5, <3>6, <3>7
  <2> QED BY <2>3, <2>4 DEF Heights
<1>21. x \in R[A.root]
  BY <1>1, <1>13, InsideIs
<1>22. Removable(A, R, K, x)
  BY <1>13, <1>16, <1>17, <1>18, <1>19, <1>20, <1>21 DEF Removable
<1>23. SameChildren(T, A, x)
  BY <1>2, <1>14 DEF SameChildren
<1>24. SameRest(T, A)
  BY <1>8, <1>10 DEF SameRest
<1> QED BY <1>4, <1>13, <1>22, <1>23, <1>24 DEF Mends

\* What is mended after a step that kept the fault is mended.
LEMMA MendsAfter ==
    ASSUME NEW T, NEW S, NEW K, NEW x, NEW A, NEW R, NEW B, SameRest(T, A), SameChildren(T, A, x),
           R[A.root] = S[T.root], Mends(A, R, K, x, B)
    PROVE  Mends(T, S, K, x, B)
BY DEF Mends, SameRest, SameChildren

\* Cases 5 and 6 mend the tree.
LEMMA DeleteCase5Is ==
    ASSUME NEW T, NEW S, NEW K, NEW n, NEW x, Deleting(T, S, K, n, x), T.parent[n] # NULL,
           T.rank[Sibling(T, n)] = BLACK, ~BlackFamily(T, n)
    PROVE  Mends(T, S, K, x, DeleteCase5(T, n))
<1> DEFINE p == T.parent[n]
           s == Sibling(T, n)
           side == Side(T, n)
           o == Other(side)
           c == T[o][s]
           b == T[side][s]
           e == T[o][b]
           A == Swapped(T, s, o)
           R == Turned(T, S, s, o)
<1>1. Tied(T, S, K) /\ Colored(T, S) /\ n \in S[T.root] /\ x \in S[n] /\ Reds(T, NULL, x)
      /\ (n = x \/ (T.rank[n] = BLACK /\ T.rank[T.parent[x]] = BLACK)) /\ \E H : Heights(T, H, {n}, x)
  BY DEF Deleting
<1>2. /\ n \in Nodes /\ x \in Nodes /\ p \in Nodes /\ p \in S[T.root] /\ n # p /\ p # x
      /\ side \in Sides /\ T[side][p] = n
      /\ s = T[o][p] /\ s # NULL /\ s \in Nodes /\ s \in S[T.root]
      /\ s # p /\ s # n /\ s # x /\ T.parent[s] = p
      /\ \A m \in Nodes, q \in Sides : T[q][m] = n => m = p /\ q = side
      /\ \A m \in Nodes, q \in Sides : T[q][m] = s => m = p /\ q = o
      /\ \A q \in Sides : T[q][x] # p /\ T[q][x] # s
      /\ T.root # x /\ T.root # n /\ T.root # s /\ T.rank[T.root] = BLACK /\ T.root # NULL
      /\ p \notin S[n] /\ s \notin S[n]
      /\ \A a \in S[s] : a \notin S[n]
  BY <1>1, DeleteFamily
<1>3. o \in Sides /\ o # side /\ Other(o) = side /\ \A q \in Sides : q = side \/ q = o
  BY <1>2, SidesAre
<1>4. c \in Ids /\ b \in Ids
  <2>1. Tied(T, S, K) /\ s \in Nodes /\ side \in Sides /\ o \in Sides /\ T[o][s] = c /\ T[side][s] = b
    BY <1>1, <1>2, <1>3
  <2> HIDE DEF s, side, o, b, c
  <2> QED BY <2>1, HangsIs
<1>5. Color(T, s) = BLACK /\ Color(T, c) \in {RED, BLACK} /\ Color(T, b) \in {RED, BLACK}
      /\ (Color(T, c) = RED \/ Color(T, b) = RED)
  <2>1. Color(T, s) = BLACK
    BY DEF Color
  <2>2. Color(T, c) \in {RED, BLACK} /\ Color(T, b) \in {RED, BLACK}
    BY <1>1, <1>4, NodesAre DEF Color, Colored
  <2>3. Color(T, T["left"][s]) # BLACK \/ Color(T, T["right"][s]) # BLACK
    BY <2>1 DEF BlackFamily
  <2>4. (side = "left" /\ o = "right") \/ (side = "right" /\ o = "left")
    BY <1>2, <1>3 DEF Sides
  <2> QED BY <2>1, <2>2, <2>3, <2>4
<1>6. CASE Color(T, c) = RED
  <2>1. DeleteCase5(T, n) = DeleteCase6(T, n)
    BY <1>6 DEF DeleteCase5, RED, BLACK
  <2>2. c # NULL /\ T.rank[c] = RED
    BY <1>6 DEF Color, RED, BLACK
  <2> QED BY <1>6, <2>1, <2>2, DeleteCase6Is
<1>7. CASE Color(T, c) = BLACK
  <2>1. b # NULL /\ T.rank[b] = RED /\ Color(T, b) = RED
    BY <1>5, <1>7 DEF Color, RED, BLACK
  <2>2. DeleteCase5(T, n) = DeleteCase6(A, n)
    <3>1. T[Other(o)][s] = b
      BY <1>3
    <3>2. A = Rotate(Paint(Paint(T, s, RED), b, BLACK), s, o)
      BY <3>1 DEF Swapped
    <3> QED BY <1>5, <1>7, <2>1, <3>2 DEF DeleteCase5
  <2>3. p = T.parent[n] /\ o = Other(side) /\ c = T[o][s] /\ b = T[side][s] /\ e = T[o][b] /\ T.rank[s] = BLACK
        /\ T[Other(o)][s] = b
    BY <1>3
  <2> HIDE DEF p, s, side, o, b, c, e
  <2>4. /\ b \in Nodes /\ b # s /\ b # p /\ b # n /\ b # x /\ b \notin S[n] /\ b \in S[T.root]
        /\ c # s /\ c # b
        /\ e \in Ids /\ e # s /\ e # b /\ e # n /\ e # x /\ e \notin S[n]
        /\ \A m \in Nodes, q \in Sides : T[q][m] = b => m = s
    <3>1. b \in Nodes /\ b # s /\ b \in S[s] /\ b \in S[b] /\ T.parent[b] = s /\ p \notin S[s] /\ S[b] \subseteq S[s]
          /\ s \notin S[b] /\ S[s] \subseteq S[T.root] /\ n \in S[n] /\ (c # NULL => c # s)
      <4>1. n \in S[n] /\ p \notin S[s]
        BY <1>1, <1>2, <1>3, ChildIs
      <4>2. b \in Nodes /\ b # s /\ b \in S[s] /\ b \in S[b] /\ T.parent[b] = s /\ s \notin S[b] /\ S[b] \subseteq S[s]
        <5>1. T[side][s] # NULL
          BY <2>1, <2>3
        <5>2. /\ T[side][s] \in Nodes /\ T[side][s] # s /\ T[side][s] \in S[s] /\ T[side][s] \in S[T[side][s]]
              /\ T.parent[T[side][s]] = s /\ s \notin S[T[side][s]] /\ S[T[side][s]] \subseteq S[s]
          BY <1>1, <1>2, <5>1, ChildIs
        <5> QED BY <2>3, <5>2
      <4>3. c # NULL => c # s
        <5>1. T[o][s] # NULL => T[o][s] # s
          BY <1>1, <1>2, <1>3, ChildIs
        <5> QED BY <2>3, <5>1
      <4> QED BY <1>1, <1>2, <4>1, <4>2, <4>3, InsideIs
    <3>2. c # b
      <4>1. b \in S[T[side][s]] /\ b \notin S[T[Other(side)][s]]
        BY <1>1, <1>2, <2>3, <3>1, ChildIs
      <4> QED BY <2>3, <3>1, <4>1
    <3>3. e \in Ids /\ (e # NULL => e \in S[b] /\ e # b)
      BY <1>1, <1>3, <2>3, <3>1, ChildIs
    <3>4. NULL \notin Nodes /\ S[n] \subseteq Nodes
      BY <1>1, <1>2, ChildIs, NodesAre
    <3>5. ASSUME NEW m \in Nodes, NEW q \in Sides, T[q][m] = b PROVE m = s
      BY <1>1, <2>1, <3>1, <3>5, ChildIs
    <3> QED BY <1>1, <1>2, <3>1, <3>2, <3>3, <3>4, <3>5
  <2>5. IsSwapped(T, S, K, A, s, o, {n}, x)
    <3>1. /\ Tied(T, S, K) /\ Colored(T, S) /\ s \in S[T.root] /\ o \in Sides
          /\ T[Other(o)][s] # NULL /\ T.rank[s] = BLACK /\ T.rank[T[Other(o)][s]] = RED
          /\ s # x /\ T[Other(o)][s] # x /\ s \notin {n} /\ T[Other(o)][s] \notin {n}
          /\ \E H : Heights(T, H, {n}, x)
      BY <1>1, <1>2, <1>3, <2>1, <2>3, <2>4
    <3> QED BY <3>1, SwappedIs
  <2> HIDE DEF A, R
  <2>6. /\ Rotated(T, A, s, o) /\ SameRest(T, A)
        /\ Tied(A, R, K) /\ R[A.root] = S[T.root] /\ Colored(A, R)
        /\ \A m \in Nodes : A.rank[m] = IF m = s THEN RED ELSE IF m = b THEN BLACK ELSE T.rank[m]
        /\ \E H : Heights(A, H, {n}, x)
    BY <2>3, <2>5 DEF IsSwapped, R
  <2>7. /\ A.root = IF T.root = s THEN b ELSE T.root
        /\ \A m \in Nodes, q \in Sides :
              A[q][m] = IF m = s /\ q = side THEN e ELSE IF m = b /\ q = o THEN s
                        ELSE IF T[q][m] = s THEN b ELSE T[q][m]
        /\ \A m \in Nodes :
              A.parent[m] = IF m = s THEN b ELSE IF m = b THEN T.parent[s] ELSE IF m = e THEN s
                            ELSE T.parent[m]
    BY <1>3, <2>3, <2>6 DEF Rotated
  <2>8. R[n] = S[n]
    <3>1. T[Other(o)][s] # NULL /\ n \in Ids /\ n # s /\ n # T[Other(o)][s]
      BY <1>2, <2>1, <2>3, <2>4, NodesAre
    <3> QED BY <1>1, <1>2, <1>3, <3>1, TurnedIs DEF R
  <2>9. A.rank[A.root] = BLACK
    <3>1. T.root \in Nodes
      BY <1>1, <1>2, InsideIs
    <3> QED BY <1>2, <2>6, <2>7, <3>1
  <2>10. Reds(A, NULL, x)
    <3> SUFFICES ASSUME NEW m \in Nodes, NEW q \in Sides, A[q][m] # NULL, A.rank[m] = RED,
                        A.rank[A[q][m]] = RED, A[q][m] # x, m # x
                 PROVE  FALSE
      BY DEF Reds
    <3> DEFINE d == A[q][m]
    <3>1. d \in Nodes
      BY <2>6, ChildIs
    <3>2. m # b /\ d # b
      BY <2>4, <2>6, <3>1 DEF RED, BLACK
    <3>3. CASE m = s
      <4>1. CASE q = side
        <5>1. d = e
          BY <1>2, <2>7, <3>3, <4>1
        <5>2. T.rank[e] = RED
          BY <2>4, <2>6, <3>1, <5>1
        <5> QED BY <1>1, <1>3, <2>1, <2>3, <2>4, <3>1, <5>1, <5>2, NodesAre DEF Reds
      <4>2. CASE q = o
        <5>1. d = c
          BY <1>2, <1>3, <2>3, <2>4, <2>7, <3>3, <4>2
        <5>2. T.rank[c] = RED
          BY <2>4, <2>6, <3>1, <5>1
        <5> QED BY <1>7, <3>1, <5>1, <5>2, NodesAre DEF Color, RED, BLACK
      <4> QED BY <1>3, <4>1, <4>2
    <3>4. CASE m # s
      <4>1. d = T[q][m] /\ d # s
        BY <2>7, <3>2, <3>4
      <4>2. T.rank[m] = RED /\ T.rank[d] = RED
        BY <2>6, <3>1, <3>2, <3>4, <4>1
      <4> QED BY <1>1, <3>1, <4>1, <4>2, NodesAre DEF Reds
    <3> QED BY <3>3, <3>4
  <2>11. n = x \/ (A.rank[n] = BLACK /\ A.rank[A.parent[x]] = BLACK)
    <3> SUFFICES ASSUME n # x PROVE A.rank[n] = BLACK /\ A.rank[A.parent[x]] = BLACK
      OBVIOUS
    <3>1. T.parent[x] \in S[n] /\ T.parent[x] \in Nodes
      BY <1>1, <1>2, Nested
    <3>2. A.parent[x] = T.parent[x]
      BY <1>2, <2>4, <2>7
    <3> QED BY <1>1, <1>2, <2>4, <2>6, <3>1, <3>2
  <2>12. Deleting(A, R, K, n, x)
    BY <1>1, <2>6, <2>8, <2>9, <2>10, <2>11 DEF Deleting
  <2>13. A.parent[n] = p /\ A.parent[n] # NULL
    BY <1>2, <2>3, <2>4, <2>7, NodesAre
  <2>14. Side(A, n) = side /\ Sibling(A, n) = b
    <3>1. /\ Side(A, n) \in Sides /\ Sibling(A, n) = A[Other(Side(A, n))][p]
          /\ \A m \in Nodes, q \in Sides : A[q][m] = n => m = p /\ q = Side(A, n)
      BY <2>12, <2>13, DeleteFamily
    <3>2. A[side][p] = n
      BY <1>2, <2>4, <2>7
    <3>3. Side(A, n) = side
      BY <1>2, <3>1, <3>2
    <3>4. A[o][p] = b
      BY <1>2, <1>3, <2>4, <2>7
    <3> QED BY <2>3, <3>1, <3>3, <3>4
  <2>15. A[o][b] = s
    BY <1>3, <2>4, <2>7
  <2>16. A.rank[b] = BLACK /\ A.rank[s] = RED
    BY <1>2, <2>4, <2>6
  <2>17. Mends(A, R, K, x, DeleteCase6(A, n))
    <3>1. /\ A.rank[Sibling(A, n)] = BLACK /\ A[Other(Side(A, n))][Sibling(A, n)] # NULL
          /\ A.rank[A[Other(Side(A, n))][Sibling(A, n)]] = RED
      BY <1>2, <2>3, <2>14, <2>15, <2>16
    <3> QED BY <2>12, <2>13, <3>1, DeleteCase6Is
  <2>18. SameChildren(T, A, x)
    BY <1>2, <2>4, <2>7 DEF SameChildren
  <2> QED BY <2>2, <2>6, <2>17, <2>18, MendsAfter
<1> QED BY <1>5, <1>6, <1>7

\* Cases 4 to 6 mend the tree.
LEMMA DeleteCase4Is ==
    ASSUME NEW T, NEW S, NEW K, NEW n, NEW x, Deleting(T, S, K, n, x), T.parent[n] # NULL,
           T.rank[Sibling(T, n)] = BLACK, ~(Color(T, T.parent[n]) = BLACK /\ BlackFamily(T, n))
    PROVE  Mends(T, S, K, x, DeleteCase4(T, n))
<1> DEFINE p == T.parent[n]
           s == Sibling(T, n)
           side == Side(T, n)
           o == Other(side)
           P == Paint(T, s, RED)
           A == Paint(P, p, BLACK)
<1>1. Tied(T, S, K) /\ Colored(T, S) /\ n \in S[T.root] /\ x \in S[n] /\ Reds(T, NULL, x)
      /\ (n = x \/ (T.rank[n] = BLACK /\ T.rank[T.parent[x]] = BLACK)) /\ \E H : Heights(T, H, {n}, x)
  BY DEF Deleting
<1>2. /\ n \in Nodes /\ x \in Nodes /\ p \in Nodes /\ p \in S[T.root] /\ n # p /\ p # x
      /\ side \in Sides /\ T[side][p] = n
      /\ s = T[o][p] /\ s # NULL /\ s \in Nodes /\ s \in S[T.root]
      /\ s # p /\ s # n /\ s # x /\ T.parent[s] = p
      /\ \A m \in Nodes, q \in Sides : T[q][m] = n => m = p /\ q = side
      /\ \A m \in Nodes, q \in Sides : T[q][m] = s => m = p /\ q = o
      /\ T.root # x /\ T.root # n /\ T.root # s /\ T.rank[T.root] = BLACK /\ T.root # NULL
      /\ p \notin S[n] /\ s \notin S[n]
  BY <1>1, DeleteFamily
<1>3. o \in Sides /\ o # side /\ Other(o) = side /\ \A q \in Sides : q = side \/ q = o
  BY <1>2, SidesAre
<1>4. p # NULL /\ Color(T, p) \in {RED, BLACK} /\ Color(T, p) = T.rank[p]
  BY <1>1, <1>2 DEF Color, Colored
<1>5. CASE ~BlackFamily(T, n)
  <2>1. DeleteCase4(T, n) = DeleteCase5(T, n)
    BY <1>5 DEF DeleteCase4
  <2> QED BY <1>5, <2>1, DeleteCase5Is
<1>6. CASE BlackFamily(T, n)
  <2>1. T.rank[p] = RED /\ T.rank[s] = BLACK /\ \A q \in Sides : T[q][s] = NULL \/ T.rank[T[q][s]] = BLACK
    <3>1. Color(T, s) = BLACK /\ Color(T, T["left"][s]) = BLACK /\ Color(T, T["right"][s]) = BLACK
      BY <1>6 DEF BlackFamily
    <3> QED BY <1>4, <1>6, <3>1 DEF Color, Sides
  <2>2. DeleteCase4(T, n) = A
    BY <1>4, <1>6, <2>1 DEF DeleteCase4
  <2>3. p = T.parent[n] /\ T.rank[s] = BLACK
    OBVIOUS
  <2> HIDE DEF p, s, side, o
  <2>4. Painted(T, P, s, RED) /\ Painted(P, A, p, BLACK)
    <3>1. T \in Trees /\ RED \in Int /\ BLACK \in Int
      BY <1>1 DEF Tied, RED, BLACK
    <3>2. Painted(T, P, s, RED)
      BY <1>2, <3>1, PaintIs
    <3> HIDE DEF P
    <3>3. P \in Trees
      BY <3>2 DEF Painted
    <3> QED BY <1>2, <3>1, <3>2, <3>3, PaintIs
  <2> HIDE DEF P, A
  <2>5. /\ A \in Trees /\ SameLinks(T, A) /\ SameRest(T, A) /\ A.root = T.root /\ A.parent = T.parent
        /\ \A q \in Sides : A[q] = T[q]
        /\ \A m \in Nodes : A.rank[m] = IF m = p THEN BLACK ELSE IF m = s THEN RED ELSE T.rank[m]
    BY <1>2, <2>4 DEF Painted, SameLinks, SameRest
  <2>6. Tied(A, S, K)
    BY <1>1, <2>5, PaintedTied
  <2>7. Colored(A, S)
    BY <1>1, <1>2, <2>5 DEF Colored
  <2>8. A.rank[A.root] = BLACK
    <3>1. T.root \in Nodes
      BY <1>1, <1>2, InsideIs
    <3> QED BY <1>2, <2>5, <3>1
  <2>9. A.rank[A.parent[x]] = BLACK
    <3>1. CASE n = x
      BY <1>2, <2>3, <2>5, <3>1
    <3>2. CASE n # x
      <4>1. T.parent[x] \in S[n] /\ T.parent[x] \in Nodes
        BY <1>1, <1>2, <3>2, Nested
      <4> QED BY <1>1, <1>2, <2>5, <3>2, <4>1
    <3> QED BY <3>1, <3>2
  <2>10. Reds(A, NULL, x)
    <3> SUFFICES ASSUME NEW m \in Nodes, NEW q \in Sides, A[q][m] # NULL, A.rank[m] = RED,
                        A.rank[A[q][m]] = RED, A[q][m] # x, m # x
                 PROVE  FALSE
      BY DEF Reds
    <3> DEFINE d == T[q][m]
    <3>1. d \in Nodes /\ A[q][m] = d
      BY <2>5, <2>6, ChildIs
    <3>2. m # p /\ d # p
      BY <2>5, <3>1 DEF RED, BLACK
    <3>3. d # s
      BY <1>2, <3>2
    <3>4. m # s
      BY <2>1, <2>5, <3>1, <3>2, <3>3, NodesAre DEF RED, BLACK
    <3> QED BY <1>1, <2>5, <3>1, <3>2, <3>3, <3>4, NodesAre DEF Reds
  <2>11. \E H : Heights(A, H, {}, x)
    <3>1. PICK H : Heights(T, H, {n}, x)
      BY <1>1
    <3>2. /\ H \in [Ids -> Nat] /\ H[NULL] = 0 /\ H[p] \in Nat /\ H[s] \in Nat /\ H[n] \in Nat
          /\ H[p] = H[s] /\ H[p] = H[n] + 1
          /\ \A q \in Sides : H[s] = 1 + H[T[q][s]] /\ H[T[q][s]] \in Nat
      <4>1. H \in [Ids -> Nat] /\ H[NULL] = 0
        BY <3>1 DEF Heights
      <4>2. Due({n}, n) = 1 /\ Due({n}, s) = 0 /\ Weight(T, x, p) = 0 /\ Weight(T, x, s) = 1
        BY <1>2, <2>1 DEF Due, Weight, RED, BLACK
      <4>3. H[p] = Weight(T, x, p) + H[s] + Due({n}, s) /\ H[p] = Weight(T, x, p) + H[n] + Due({n}, n)
            /\ H[p] \in Nat /\ H[s] \in Nat /\ H[n] \in Nat
        BY <1>1, <1>2, <1>3, <3>1, HeightsAre
      <4>4. ASSUME NEW q \in Sides PROVE H[s] = 1 + H[T[q][s]] /\ H[T[q][s]] \in Nat
        <5>1. T[q][s] # n
          BY <1>2
        <5>2. Due({n}, T[q][s]) = 0
          BY <5>1 DEF Due
        <5>3. H[s] = Weight(T, x, s) + H[T[q][s]] + Due({n}, T[q][s]) /\ H[T[q][s]] \in Nat
          BY <1>1, <1>2, <3>1, HeightsAre
        <5> QED BY <4>2, <5>2, <5>3
      <4> QED BY <4>1, <4>2, <4>3, <4>4
    <3> DEFINE G == [H EXCEPT ![s] = H[n]]
    <3>3. G \in [Ids -> Nat] /\ G[NULL] = 0 /\ G[s] = H[n] /\ \A m \in Ids : m # s => G[m] = H[m]
      BY <1>2, <3>2, NodesAre
    <3> HIDE DEF G
    <3>4. ASSUME NEW m \in Nodes, NEW q \in Sides
          PROVE  G[m] = Weight(A, x, m) + G[A[q][m]] + Due({}, A[q][m])
      <4> DEFINE d == T[q][m]
      <4>1. H[m] = Weight(T, x, m) + H[d] + Due({n}, d) /\ H[d] \in Nat /\ H[m] \in Nat /\ d \in Ids
            /\ Weight(T, x, m) \in {0, 1}
        <5>1. d \in Ids
          BY <1>1, ChildIs
        <5> QED BY <1>1, <3>1, <5>1, HeightsAre
      <4>2. A[q][m] = d /\ Due({}, d) = 0 /\ (m # s /\ m # p => Weight(A, x, m) = Weight(T, x, m))
            /\ Weight(A, x, s) = 0 /\ Weight(A, x, p) = 1
        BY <1>2, <2>5 DEF Weight, Due, RED, BLACK
      <4>3. (d = n => m = p /\ q = side) /\ (d = s => m = p /\ q = o)
        BY <1>2
      <4>4. CASE m = p
        <5>1. d = n \/ d = s
          BY <1>2, <1>3, <4>4
        <5>2. G[n] = H[n] /\ G[p] = H[p]
          BY <1>2, <3>3, NodesAre
        <5> QED BY <3>2, <3>3, <4>2, <4>4, <5>1, <5>2
      <4>5. CASE m = s
        <5>1. H[s] = 1 + H[d]
          BY <3>2, <4>5
        <5>2. d # s
          BY <1>2, <4>3, <4>5
        <5> HIDE DEF d
        <5>3. G[d] = H[d]
          BY <3>3, <4>1, <5>2
        <5>4. H[d] = H[n] /\ H[d] \in Nat
          <6>1. H[s] = H[n] + 1 /\ H[n] \in Nat
            BY <3>2
          <6>2. H[d] \in Nat
            BY <4>1
          <6> QED BY <5>1, <6>1, <6>2
        <5>5. G[m] = H[n] /\ Weight(A, x, m) = 0 /\ A[q][m] = d /\ Due({}, d) = 0
          BY <3>3, <4>2, <4>5
        <5> QED BY <5>3, <5>4, <5>5
      <4>6. CASE m # p /\ m # s
        <5> HIDE DEF d
        <5>1. G[m] = H[m] /\ G[d] = H[d] /\ d # n
          BY <3>3, <4>1, <4>3, <4>6, NodesAre
        <5>2. Due({n}, d) = 0
          BY <5>1 DEF Due
        <5> QED BY <4>1, <4>2, <4>6, <5>1, <5>2
      <4> QED BY <4>4, <4>5, <4>6
    <3> QED BY <3>3, <3>4 DEF Heights
  <2>12. x \in S[A.root]
    BY <1>1, <2>5, InsideIs
  <2>13. Removable(A, S, K, x)
    BY <2>6, <2>7, <2>8, <2>9, <2>10, <2>11, <2>12 DEF Removable
  <2> QED BY <2>2, <2>5, <2>13 DEF Mends, SameChildren
<1> QED BY <1>5, <1>6

\* RBBinaryTreeDeleteCase1 mends the tree before the node leaves it.
LEMMA DeleteCase1Is ==
    ASSUME NEW T, NEW S, NEW K, NEW n, NEW x, Deleting(T, S, K, n, x)
    PROVE  Mends(T, S, K, x, DeleteCase1(T, n))
<1> DEFINE last == DeleteLast(T, n)
           L == last.tree
           k == last.node
           B == DeleteCase2(L, k)
<1>1. Deleting(L, S, K, k, x) /\ SameRest(T, L) /\ SameLinks(T, L) /\ ~Climbing(L, k)
  BY DeleteLastIs
<1>2. DeleteCase1(T, n) = IF L.parent[k] = NULL THEN L ELSE DeleteCase4(B, k)
  BY DEF DeleteCase1
<1> HIDE DEF last
<1>3. SameChildren(T, L, x) /\ L.root = T.root
  BY <1>1 DEF SameChildren, SameLinks
<1>4. CASE L.parent[k] = NULL
  <2> HIDE DEF L, k
  <2>1. /\ Tied(L, S, K) /\ Colored(L, S) /\ k \in S[L.root] /\ x \in S[k] /\ Reds(L, NULL, x)
        /\ (k = x \/ (L.rank[k] = BLACK /\ L.rank[L.parent[x]] = BLACK))
        /\ (L.root = x \/ L.rank[L.root] = BLACK)
    BY <1>1 DEF Deleting
  <2>2. k = L.root /\ x \in S[L.root]
    BY <1>4, <2>1, InsideIs
  <2>3. \E H : Heights(L, H, {}, x)
    <3>1. PICK H : Heights(L, H, {k}, x)
      BY <1>1 DEF Deleting
    <3>2. ASSUME NEW m \in Nodes, NEW q \in Sides PROVE Due({}, L[q][m]) = Due({k}, L[q][m])
      <4>1. L[q][m] # k
        <5>1. L[q][m] # NULL => L.parent[L[q][m]] = m
          BY <2>1, ChildIs
        <5>2. k # NULL /\ m # NULL
          BY <2>1, InsideIs, NodesAre
        <5> QED BY <1>4, <5>1, <5>2
      <4> QED BY <4>1 DEF Due
    <3> QED BY <3>1, <3>2 DEF Heights
  <2>4. Removable(L, S, K, x)
    BY <2>1, <2>2, <2>3 DEF Removable
  <2> QED BY <1>1, <1>2, <1>3, <1>4, <2>4 DEF Mends
<1>5. CASE L.parent[k] # NULL
  <2> HIDE DEF L, k
  <2>1. Settled(L, S, K, k, x, B)
    BY <1>1, <1>5, DeleteCase2Is
  <2>2. ~(Color(B, B.parent[k]) = BLACK /\ BlackFamily(B, k))
    BY <1>1, <1>5 DEF Climbing
  <2> HIDE DEF B
  <2>3. PICK R : Deleting(B, R, K, k, x) /\ R[B.root] = S[L.root]
    BY <2>1 DEF Settled
  <2>4. Mends(B, R, K, x, DeleteCase4(B, k))
    BY <2>1, <2>2, <2>3, DeleteCase4Is DEF Settled
  <2>5. Mends(L, S, K, x, DeleteCase4(B, k))
    BY <2>1, <2>3, <2>4, MendsAfter DEF Settled
  <2>6. Mends(T, S, K, x, DeleteCase4(B, k))
    <3>1. S[L.root] = S[T.root]
      BY <1>3
    <3> QED BY <1>1, <1>3, <2>5, <3>1, MendsAfter
  <2> QED BY <1>2, <1>5, <2>6
<1> QED BY <1>4, <1>5

-----------------------------------------------------------------------------
\* Deletion: the node leaves.

\* A is T with n ready to be cut out.
Readied(T, S, K, n, A) ==
    /\ SameRest(T, A) /\ SameChildren(T, A, n)
    /\ \E R : Removable(A, R, K, n) /\ R[A.root] = S[T.root]

\* A red node can leave at once.
LEMMA RedReadied ==
    ASSUME NEW T, NEW S, NEW K, Repaired(T, S, K), NEW n \in S[T.root], T.rank[n] = RED
    PROVE  Readied(T, S, K, n, T)
<1>1. Tied(T, S, K) /\ Colored(T, S) /\ (T.root = NULL \/ T.rank[T.root] = BLACK) /\ Reds(T, NULL, NULL)
  BY DEF Repaired
<1>2. n \in Nodes /\ T.root # NULL /\ T.root # n /\ n # NULL
  BY <1>1, InsideIs, NodesAre DEF RED, BLACK
<1>3. T.rank[T.parent[n]] = BLACK
  <2>1. T.parent[n] \in Nodes /\ T.parent[n] # NULL
    BY <1>1, <1>2, InsideIs
  <2>2. PICK q \in Sides : T[q][T.parent[n]] = n
    BY <1>1, <1>2, <2>1, InsideIs
  <2>3. T.rank[T.parent[n]] # RED
    BY <1>1, <1>2, <2>1, <2>2 DEF Reds
  <2> QED BY <1>1, <2>1, <2>3 DEF Colored
<1>4. Reds(T, NULL, n)
  BY <1>1, NodesAre DEF Reds
<1>5. \E H : Heights(T, H, {}, n)
  <2>1. PICK H : Heights(T, H, {}, NULL)
    BY DEF Repaired
  <2>2. \A m \in Nodes : Weight(T, n, m) = Weight(T, NULL, m)
    BY <1>2, NodesAre DEF Weight, RED
  <2> QED BY <2>1, <2>2 DEF Heights
<1> QED BY <1>1, <1>2, <1>3, <1>4, <1>5 DEF Readied, Removable, SameRest, SameChildren

\* A black one is painted and the tree mended before it leaves.
LEMMA BlackReadied ==
    ASSUME NEW T, NEW S, NEW K, Repaired(T, S, K), NEW n \in S[T.root], T.rank[n] = BLACK,
           NEW color \in {RED, BLACK}
    PROVE  Readied(T, S, K, n, DeleteCase1(Paint(T, n, color), n))
<1> DEFINE P == Paint(T, n, color)
           A == DeleteCase1(P, n)
<1>1. Tied(T, S, K) /\ Colored(T, S) /\ (T.root = NULL \/ T.rank[T.root] = BLACK) /\ Reds(T, NULL, NULL)
  BY DEF Repaired
<1>2. n \in Nodes /\ T.root # NULL /\ n # NULL /\ T.root \in Nodes /\ n \in S[n]
  <2>1. n \in Nodes /\ T.root # NULL /\ T.root \in Nodes
    BY <1>1, InsideIs, NodesAre
  <2>2. "left" \in Sides
    BY DEF Sides
  <2> QED BY <1>1, <2>1, <2>2, ChildIs, NodesAre
<1>3. Painted(T, P, n, color)
  BY <1>1, <1>2, PaintIs DEF Tied, RED, BLACK
<1> HIDE DEF P
<1>4. /\ P \in Trees /\ SameLinks(T, P) /\ SameRest(T, P) /\ P.root = T.root /\ P.parent = T.parent
      /\ \A q \in Sides : P[q] = T[q]
      /\ \A m \in Nodes : P.rank[m] = IF m = n THEN color ELSE T.rank[m]
  BY <1>3 DEF Painted, SameLinks
<1>5. Tied(P, S, K)
  BY <1>1, <1>4, PaintedTied
<1>6. Colored(P, S)
  BY <1>1, <1>4 DEF Colored
<1>7. Reds(P, NULL, n)
  <2> SUFFICES ASSUME NEW m \in Nodes, NEW q \in Sides, P[q][m] # NULL, P.rank[m] = RED,
                      P.rank[P[q][m]] = RED, P[q][m] # n, m # n
               PROVE  FALSE
    BY DEF Reds
  <2>1. P[q][m] \in Nodes /\ P[q][m] = T[q][m]
    BY <1>4, <1>5, ChildIs
  <2> QED BY <1>1, <1>4, <2>1, NodesAre DEF Reds
<1>8. \E H : Heights(P, H, {n}, n)
  <2>1. PICK H : Heights(T, H, {}, NULL)
    BY DEF Repaired
  <2>2. /\ H \in [Ids -> Nat] /\ H[NULL] = 0
        /\ \A q \in Sides : H[n] = 1 + H[T[q][n]] /\ H[T[q][n]] \in Nat
    <3>1. H \in [Ids -> Nat] /\ H[NULL] = 0
      BY <2>1 DEF Heights
    <3>2. ASSUME NEW q \in Sides PROVE H[n] = 1 + H[T[q][n]] /\ H[T[q][n]] \in Nat
      <4>1. Due({}, T[q][n]) = 0 /\ Weight(T, NULL, n) = 1
        BY <1>2 DEF Due, Weight, BLACK
      <4>2. H[n] = Weight(T, NULL, n) + H[T[q][n]] + Due({}, T[q][n]) /\ H[T[q][n]] \in Nat
        BY <1>1, <1>2, <2>1, HeightsAre
      <4> QED BY <4>1, <4>2
    <3> QED BY <3>1, <3>2
  <2>3. H[n] - 1 \in Nat
    <3>1. "left" \in Sides
      BY DEF Sides
    <3> QED BY <2>2, <3>1
  <2> DEFINE G == [H EXCEPT ![n] = H[n] - 1]
  <2>4. G \in [Ids -> Nat] /\ G[NULL] = 0 /\ G[n] = H[n] - 1 /\ \A m \in Ids : m # n => G[m] = H[m]
    BY <1>2, <2>2, <2>3, NodesAre
  <2> HIDE DEF G
  <2>5. ASSUME NEW m \in Nodes, NEW q \in Sides
        PROVE  G[m] = Weight(P, n, m) + G[P[q][m]] + Due({n}, P[q][m])
    <3> DEFINE d == T[q][m]
    <3>1. H[m] = Weight(T, NULL, m) + H[d] + Due({}, d) /\ H[d] \in Nat /\ H[m] \in Nat /\ d \in Ids
          /\ Weight(T, NULL, m) \in {0, 1}
      <4>1. d \in Ids
        BY <1>1, ChildIs
      <4> QED BY <1>1, <2>1, <4>1, HeightsAre
    <3>2. P[q][m] = d /\ Due({}, d) = 0 /\ Due({n}, d) = (IF d = n THEN 1 ELSE 0)
          /\ (m # n => Weight(P, n, m) = Weight(T, NULL, m)) /\ (m = n => Weight(P, n, m) = 0)
      BY <1>4, NodesAre DEF Weight, Due
    <3>3. CASE m = n
      <4>1. d # n
        BY <1>1, <1>2, <3>3, ChildIs
      <4>2. H[n] = 1 + H[d]
        BY <2>2, <3>3
      <4> HIDE DEF d
      <4>3. G[d] = H[d]
        BY <2>4, <3>1, <4>1
      <4>4. G[m] = H[n] - 1 /\ Weight(P, n, m) = 0 /\ Due({n}, d) = 0
        BY <2>4, <3>2, <3>3, <4>1
      <4>5. H[n] - 1 = H[d] /\ H[d] \in Nat
        <5>1. H[d] \in Nat
          BY <3>1
        <5> QED BY <4>2, <5>1
      <4> QED BY <3>2, <4>3, <4>4, <4>5
    <3>4. CASE m # n
      <4> HIDE DEF d
      <4>1. G[m] = H[m]
        BY <2>4, <3>4, NodesAre
      <4>2. CASE d = n
        <5>1. G[d] = H[d] - 1 /\ Due({n}, d) = 1
          BY <2>4, <3>2, <4>2
        <5> QED BY <3>1, <3>2, <3>4, <4>1, <5>1
      <4>3. CASE d # n
        <5>1. G[d] = H[d] /\ Due({n}, d) = 0
          BY <2>4, <3>1, <3>2, <4>3
        <5> QED BY <3>1, <3>2, <3>4, <4>1, <5>1
      <4> QED BY <4>2, <4>3
    <3> QED BY <3>3, <3>4
  <2> QED BY <2>4, <2>5 DEF Heights
<1>9. Deleting(P, S, K, n, n)
  <2>1. P.root = n \/ P.rank[P.root] = BLACK
    BY <1>1, <1>2, <1>4
  <2> QED BY <1>2, <1>4, <1>5, <1>6, <1>7, <1>8, <2>1 DEF Deleting
<1>10. Mends(P, S, K, n, A)
  BY <1>9, DeleteCase1Is
<1> HIDE DEF A
<1>11. SameChildren(T, P, n)
  BY <1>4 DEF SameChildren
<1>12. Readied(T, S, K, n, A)
  BY <1>4, <1>10, <1>11 DEF Mends, Readied, SameRest, SameChildren
<1> QED BY <1>12 DEF A, P

\* n is free again and empty.
Freed(T, A, n) ==
    /\ A \in Trees /\ A.root = T.root /\ A.used = T.used \ {n} /\ A.nodeCount = T.nodeCount - 1
    /\ \A m \in Nodes, q \in Sides : A[q][m] = IF m = n THEN NULL ELSE T[q][m]
    /\ \A m \in Nodes : /\ A.parent[m] = IF m = n THEN NULL ELSE T.parent[m]
                        /\ A.data[m] = IF m = n THEN 0 ELSE T.data[m]
                        /\ A.rank[m] = IF m = n THEN RED ELSE T.rank[m]

\* TFfree, and the count.
LEMMA FreeIs ==
    ASSUME NEW T \in Trees, NEW n \in Nodes
    PROVE  Freed(T, [Free(T, n) EXCEPT !.nodeCount = @ - 1], n)
<1> DEFINE A == [Free(T, n) EXCEPT !.nodeCount = @ - 1]
<1>1. /\ A \in Trees /\ A.root = T.root /\ A.used = T.used \ {n} /\ A.nodeCount = T.nodeCount - 1
      /\ A.left = [T.left EXCEPT ![n] = NULL] /\ A.right = [T.right EXCEPT ![n] = NULL]
      /\ A.parent = [T.parent EXCEPT ![n] = NULL]
      /\ A.data = [T.data EXCEPT ![n] = 0] /\ A.rank = [T.rank EXCEPT ![n] = 0]
  <2> DEFINE F == Free(T, n)
  <2>1. n \in Nodes /\ NULL \in Ids /\ 0 \in Int /\ T \in Trees
    BY NodesAre
  <2>2. /\ F \in Trees /\ F.root = T.root /\ F.used = T.used \ {n} /\ F.nodeCount = T.nodeCount
        /\ F.left = [T.left EXCEPT ![n] = NULL] /\ F.right = [T.right EXCEPT ![n] = NULL]
        /\ F.parent = [T.parent EXCEPT ![n] = NULL]
        /\ F.data = [T.data EXCEPT ![n] = 0] /\ F.rank = [T.rank EXCEPT ![n] = 0]
    BY <2>1 DEF Free, Trees
  <2> HIDE DEF F
  <2>3. F.nodeCount - 1 \in Int
    BY <2>2 DEF Trees
  <2> QED BY <2>2, <2>3 DEF Trees, F
<1>2. /\ T.left \in [Nodes -> Ids] /\ T.right \in [Nodes -> Ids] /\ T.parent \in [Nodes -> Ids]
      /\ T.data \in [Nodes -> Int] /\ T.rank \in [Nodes -> Int]
  BY DEF Trees
<1> HIDE DEF A
<1>3. ASSUME NEW m \in Nodes, NEW q \in Sides PROVE A[q][m] = IF m = n THEN NULL ELSE T[q][m]
  BY <1>1, <1>2 DEF Sides
<1>4. Freed(T, A, n)
  BY <1>1, <1>2, <1>3 DEF Freed, RED
<1> QED BY <1>4 DEF A

\* A is T without n.
Unlinked(T, S, K, n, A) ==
    /\ A.used = T.used \ {n} /\ A.nodeCount = T.nodeCount - 1
    /\ \A m \in Nodes : A.data[m] = IF m = n THEN 0 ELSE T.data[m]
    /\ \E R : Repaired(A, R, K) /\ R[A.root] = S[T.root] \ {n}

\* A node that is ready gives its place to its child c.
CutOut(T, n, c) ==
    LET P == ReplaceNode(T, n, c)
        Q == IF T.parent[n] = NULL /\ c # NULL THEN Paint(P, c, BLACK) ELSE P
    IN  [Free(Q, n) EXCEPT !.nodeCount = @ - 1]

\* The child takes the place of a node that is ready.
LEMMA CutOutIs ==
    ASSUME NEW T, NEW R, NEW K, NEW n, Removable(T, R, K, n), NEW s \in Sides, T[Other(s)][n] = NULL
    PROVE  Unlinked(T, R, K, n, CutOut(T, n, T[s][n]))
<1> DEFINE c == T[s][n]
           P == ReplaceNode(T, n, c)
           Q == IF T.parent[n] = NULL /\ c # NULL THEN Paint(P, c, BLACK) ELSE P
           A == [Free(Q, n) EXCEPT !.nodeCount = @ - 1]
           W == Without(R, n)
<1>1. Tied(T, R, K) /\ Colored(T, R) /\ n \in R[T.root] /\ Reds(T, NULL, n)
      /\ (T.root = n \/ (T.rank[T.root] = BLACK /\ T.rank[T.parent[n]] = BLACK))
  BY DEF Removable
<1>2. CutOut(T, n, c) = A
  BY DEF CutOut
<1>3. n \in Nodes /\ n # NULL /\ c \in Ids /\ T.root \in Nodes /\ (T.root = n <=> T.parent[n] = NULL)
      /\ c # n /\ (c # NULL => c \in Nodes /\ T.parent[c] = n)
  <2>1. n \in Nodes /\ T.root \in Nodes /\ (T.root = n <=> T.parent[n] = NULL)
    BY <1>1, InsideIs, NodesAre
  <2>2. c \in Ids /\ (c # NULL => c \in Nodes /\ T.parent[c] = n /\ c # n)
    BY <1>1, <2>1, ChildIs
  <2> QED BY <2>1, <2>2, NodesAre
<1>4. c = T[s][n] /\ T[Other(s)][n] = NULL
  OBVIOUS
<1> HIDE DEF c
<1>5. Replaced(T, P, n, c)
  BY <1>1, <1>3, ReplaceIs
<1> HIDE DEF P
<1>6. /\ Q \in Trees /\ SameLinks(P, Q) /\ SameRest(P, Q)
      /\ \A m \in Nodes : Q.rank[m] = IF T.root = n /\ m = c THEN BLACK ELSE T.rank[m]
  <2>1. CASE T.root = n /\ c # NULL
    <3>1. Painted(P, Q, c, BLACK)
      <4>1. P \in Trees /\ BLACK \in Int
        BY <1>5 DEF Replaced, BLACK
      <4> QED BY <1>3, <2>1, <4>1, PaintIs
    <3> QED BY <1>5, <2>1, <3>1 DEF Painted, Replaced
  <2>2. CASE ~(T.root = n /\ c # NULL)
    <3>1. Q = P
      BY <1>3, <2>2
    <3> HIDE DEF Q
    <3> QED BY <1>5, <2>2, <3>1, NodesAre DEF Replaced, SameLinks, SameRest
  <2> QED BY <2>1, <2>2
<1> HIDE DEF Q
<1>7. Freed(Q, A, n)
  BY <1>3, <1>6, FreeIs
<1> HIDE DEF A
<1>8. /\ A \in Trees /\ A.root = (IF T.root = n THEN c ELSE T.root)
      /\ A.used = T.used \ {n} /\ A.nodeCount = T.nodeCount - 1
      /\ \A m \in Nodes, q \in Sides : A[q][m] = IF m = n THEN NULL ELSE IF T[q][m] = n THEN c ELSE T[q][m]
      /\ \A m \in Nodes :
            /\ A.parent[m] = IF m = n THEN NULL ELSE IF m = c THEN T.parent[n] ELSE T.parent[m]
            /\ A.data[m] = IF m = n THEN 0 ELSE T.data[m]
            /\ A.rank[m] = IF m = n THEN RED ELSE IF T.root = n /\ m = c THEN BLACK ELSE T.rank[m]
  BY <1>5, <1>6, <1>7 DEF Replaced, SameLinks, SameRest, Freed
<1>9. Cut(T, A, n, T[s][n])
  BY <1>4, <1>8 DEF Cut
<1>10. Tied(A, W, K) /\ W[A.root] = R[T.root] \ {n}
  BY <1>1, <1>4, <1>9, CutTied
<1> HIDE DEF W
<1>11. Colored(A, W)
  <2>1. c # NULL => c \in R[T.root]
    BY <1>1, <1>3, <1>4, InsideIs
  <2> QED BY <1>1, <1>3, <1>8, <1>10, <2>1, NodesAre DEF Colored
<1>12. A.root = NULL \/ A.rank[A.root] = BLACK
  <2>1. CASE T.root = n
    BY <1>3, <1>8, <2>1
  <2>2. CASE T.root # n
    BY <1>1, <1>3, <1>8, <2>2
  <2> QED BY <2>1, <2>2
<1>13. Reds(A, NULL, NULL)
  <2> SUFFICES ASSUME NEW m \in Nodes, NEW q \in Sides, A[q][m] # NULL, A.rank[m] = RED,
                      A.rank[A[q][m]] = RED
               PROVE  FALSE
    BY DEF Reds
  <2> DEFINE d == A[q][m]
  <2>1. d \in Nodes /\ m # n
    BY <1>8, <1>10, ChildIs
  <2>2. T.rank[m] = RED
    BY <1>8, <2>1 DEF RED, BLACK
  <2>3. CASE T[q][m] = n
    <3>1. T.parent[n] = m
      BY <1>1, <1>3, <2>3, ChildIs
    <3>2. T.root # n
      BY <1>3, <3>1, NodesAre
    <3> QED BY <1>1, <2>2, <3>1, <3>2 DEF RED, BLACK
  <2>4. CASE T[q][m] # n
    <3>1. d = T[q][m]
      BY <1>8, <2>1, <2>4
    <3>2. T.rank[d] = RED
      BY <1>8, <2>1, <2>4, <3>1 DEF RED, BLACK
    <3> QED BY <1>1, <2>1, <2>2, <2>4, <3>1, <3>2, NodesAre DEF Reds
  <2> QED BY <2>3, <2>4
<1>14. \E H : Heights(A, H, {}, NULL)
  <2>1. PICK H : Heights(T, H, {}, n)
    BY DEF Removable
  <2>2. H \in [Ids -> Nat] /\ H[NULL] = 0 /\ H[n] = H[c] /\ H[c] \in Nat
    <3>1. H \in [Ids -> Nat] /\ H[NULL] = 0
      BY <2>1 DEF Heights
    <3>2. H[n] = Weight(T, n, n) + H[T[s][n]] + Due({}, T[s][n]) /\ H[T[s][n]] \in Nat
      BY <1>1, <1>3, <2>1, HeightsAre
    <3>3. Weight(T, n, n) = 0 /\ Due({}, T[s][n]) = 0
      BY DEF Weight, Due
    <3> QED BY <1>4, <3>1, <3>2, <3>3
  <2> DEFINE G == [m \in Ids |-> IF m = n THEN 0
                                 ELSE IF m # NULL /\ m = c /\ T.root = n THEN H[c] + 1 - T.rank[c] ELSE H[m]]
  <2>3. /\ G \in [Ids -> Nat] /\ G[NULL] = 0 /\ G[n] = 0
        /\ \A m \in Ids : m # n /\ ~(m # NULL /\ m = c /\ T.root = n) => G[m] = H[m]
        /\ c # NULL /\ T.root = n => G[c] = H[c] + 1 - T.rank[c]
    <3>1. c # NULL => H[c] + 1 - T.rank[c] \in Nat
      <4>1. c # NULL => T.rank[c] \in {0, 1}
        BY <1>1, <1>3 DEF Colored, RED, BLACK
      <4> QED BY <2>2, <4>1
    <3>2. n \in Ids /\ NULL \in Ids
      BY <1>3, NodesAre
    <3> QED BY <1>3, <2>2, <3>1, <3>2
  <2> HIDE DEF G
  <2>4. ASSUME NEW m \in Nodes, NEW q \in Sides
        PROVE  G[m] = Weight(A, NULL, m) + G[A[q][m]] + Due({}, A[q][m])
    <3> DEFINE d == T[q][m]
    <3>1. H[m] = Weight(T, n, m) + H[d] + Due({}, d) /\ H[d] \in Nat /\ H[m] \in Nat /\ d \in Ids
          /\ Weight(T, n, m) \in {0, 1} /\ T.rank[m] \in {0, 1} /\ (d # NULL => T.parent[d] = m)
      <4>1. d \in Ids /\ (d # NULL => T.parent[d] = m)
        BY <1>1, ChildIs
      <4> QED BY <1>1, <2>1, <4>1, HeightsAre
    <3>2. Weight(A, NULL, m) = A.rank[m] /\ (m # n => Weight(T, n, m) = T.rank[m])
          /\ Due({}, A[q][m]) = 0 /\ Due({}, d) = 0
      BY NodesAre DEF Weight, Due
    <3>3. CASE m = n
      <4>1. A[q][m] = NULL /\ A.rank[m] = 0
        BY <1>8, <3>3 DEF RED
      <4> QED BY <2>3, <3>2, <3>3, <4>1
    <3>4. CASE m # n
      <4>1. A[q][m] = IF d = n THEN c ELSE d
        BY <1>8, <3>4
      <4>2. G[A[q][m]] = H[d]
        <5>1. CASE d = n
          <6>1. T.root # n
            BY <1>3, <3>1, <5>1, NodesAre
          <6>2. G[c] = H[c]
            BY <1>3, <2>3, <6>1
          <6> QED BY <2>2, <4>1, <5>1, <6>2
        <5>2. CASE d # n
          <6>1. c # NULL => d # c
            BY <1>3, <3>1, <3>4
          <6>2. G[d] = H[d]
            BY <2>3, <3>1, <5>2, <6>1
          <6> QED BY <4>1, <5>2, <6>2
        <5> QED BY <5>1, <5>2
      <4> HIDE DEF d
      <4>3. H[m] = T.rank[m] + H[d]
        BY <3>1, <3>2, <3>4
      <4>4. CASE m = c /\ T.root = n
        <5>1. G[m] = H[m] + 1 - T.rank[m] /\ A.rank[m] = 1
          BY <1>3, <1>8, <2>3, <3>4, <4>4, NodesAre DEF BLACK
        <5>2. G[m] = H[d] + 1
          BY <3>1, <4>3, <5>1
        <5> QED BY <3>1, <3>2, <4>2, <5>1, <5>2
      <4>5. CASE ~(m = c /\ T.root = n)
        <5>1. G[m] = H[m] /\ A.rank[m] = T.rank[m]
          BY <1>8, <2>3, <3>4, <4>5, NodesAre
        <5> QED BY <3>1, <3>2, <4>2, <4>3, <5>1
      <4> QED BY <4>4, <4>5
    <3> QED BY <3>3, <3>4
  <2> QED BY <2>3, <2>4 DEF Heights
<1>15. Repaired(A, W, K)
  BY <1>10, <1>11, <1>12, <1>13, <1>14 DEF Repaired
<1> QED BY <1>2, <1>4, <1>8, <1>10, <1>15 DEF Unlinked

\* The end of RBBinaryTreeRemoveNode: a node with one child at most leaves the tree.
LEMMA UnlinkIs ==
    ASSUME NEW T, NEW S, NEW K, Repaired(T, S, K), NEW n \in S[T.root], T.left[n] = NULL \/ T.right[n] = NULL
    PROVE  Unlinked(T, S, K, n, Unlink(T, n))
<1> DEFINE s == IF T.right[n] = NULL THEN "left" ELSE "right"
           c == T[s][n]
           B == IF T.rank[n] = BLACK THEN DeleteCase1(Paint(T, n, Color(T, c)), n) ELSE T
           A == CutOut(B, n, c)
<1>1. s \in Sides /\ T[Other(s)][n] = NULL
  BY DEF Sides, Other
<1>2. Unlink(T, n) = A
  BY DEF Unlink, CutOut
<1> HIDE DEF s
<1>3. Tied(T, S, K) /\ Colored(T, S) /\ n \in Nodes
  BY InsideIs DEF Repaired
<1>4. Readied(T, S, K, n, B)
  <2>1. CASE T.rank[n] = BLACK
    <3>1. Color(T, c) \in {RED, BLACK}
      BY <1>1, <1>3, ChildIs, NodesAre DEF Color, Colored
    <3> HIDE DEF c
    <3> QED BY <2>1, <3>1, BlackReadied
  <2>2. CASE T.rank[n] # BLACK
    <3>1. T.rank[n] = RED
      BY <1>3, <2>2 DEF Colored
    <3> QED BY <2>2, <3>1, RedReadied
  <2> QED BY <2>1, <2>2
<1> HIDE DEF B
<1>5. PICK R : Removable(B, R, K, n) /\ R[B.root] = S[T.root]
  BY <1>4 DEF Readied
<1>6. B[s][n] = c /\ B[Other(s)][n] = NULL
  BY <1>1, <1>4, SidesAre DEF Readied, SameChildren
<1>7. Unlinked(B, R, K, n, A)
  BY <1>1, <1>5, <1>6, CutOutIs
<1> HIDE DEF A
<1> QED BY <1>2, <1>4, <1>5, <1>7 DEF Unlinked, Readied, SameRest

\* A is T without the data of n; some node has left the tree.
Removed(T, S, n, A) ==
    /\ A.nodeCount = T.nodeCount - 1
    /\ \E x \in S[T.root] : \E R :
          /\ A.used = T.used \ {x} /\ Repaired(A, R, A.data) /\ R[A.root] = S[T.root] \ {x}
          /\ Keys(A, R) = Keys(T, S) \ {T.data[n]}
          /\ \A m \in Nodes \ {x} : A.data[m] = T.data[m] \/ A.data[m] = T.data[x]

\* Other data in the same order change nothing.
LEMMA RepairedAgain ==
    ASSUME NEW T, NEW S, NEW K, Repaired(T, S, K), NEW A \in Trees, SameLinks(T, A), A.rank = T.rank,
           NEW L \in [Nodes -> Int], Ordered(A, S, L)
    PROVE  Repaired(A, S, L)
<1>1. Tied(T, S, K) /\ Colored(T, S) /\ (T.root = NULL \/ T.rank[T.root] = BLACK) /\ Reds(T, NULL, NULL)
  BY DEF Repaired
<1>2. Tied(A, S, L)
  BY <1>1, PaintedTied DEF Tied
<1>3. PICK H : Heights(T, H, {}, NULL)
  BY DEF Repaired
<1>4. Heights(A, H, {}, NULL)
  BY <1>3 DEF Heights, Weight, SameLinks
<1>5. Colored(A, S) /\ Reds(A, NULL, NULL) /\ (A.root = NULL \/ A.rank[A.root] = BLACK)
  BY <1>1 DEF Colored, Reds, SameLinks
<1> QED BY <1>2, <1>4, <1>5 DEF Repaired

\* Removal of a node with one child at most.
LEMMA RemoveLeaf ==
    ASSUME NEW T, NEW S, Repaired(T, S, T.data), NEW n \in S[T.root], T.left[n] = NULL \/ T.right[n] = NULL
    PROVE  Removed(T, S, n, Unlink(T, n))
<1> DEFINE K == T.data
           A == Unlink(T, n)
<1>1. Unlinked(T, S, K, n, A)
  BY UnlinkIs
<1> HIDE DEF A
<1>2. PICK R : Repaired(A, R, K) /\ R[A.root] = S[T.root] \ {n}
  BY <1>1 DEF Unlinked
<1>3. A \in Trees /\ A.data \in [Nodes -> Int] /\ T.root \in Nodes /\ S[T.root] \subseteq Nodes /\ Tied(T, S, K)
      /\ A.root \in Ids /\ (\A m \in S[T.root] : m # n => A.data[m] = K[m]) /\ Tied(A, R, K)
  <2>1. A \in Trees /\ Tied(T, S, K) /\ Tied(A, R, K)
    BY <1>2 DEF Repaired, Tied
  <2>2. T.root \in Nodes /\ S[T.root] \subseteq Nodes
    BY <2>1, InsideIs, NodesAre
  <2>3. A.data \in [Nodes -> Int] /\ A.root \in Ids
    BY <2>1, FieldsAre
  <2> QED BY <1>1, <2>1, <2>2, <2>3 DEF Unlinked
<1>4. Repaired(A, R, A.data)
  <2>1. SameLinks(A, A)
    BY DEF SameLinks
  <2>2. Tied(A, R, A.data)
    BY <1>2, <1>3, <2>1, TiedAgain
  <2> QED BY <1>2, <1>3, <2>1, <2>2, RepairedAgain DEF Tied
<1>5. Keys(A, R) = Keys(T, S) \ {K[n]}
  <2>1. \A m \in S[T.root] : K[m] = K[n] => m = n
    BY <1>3, OneKey
  <2>2. \A m \in S[T.root] \ {n} : A.data[m] = K[m]
    BY <1>3
  <2> QED BY <1>2, <2>1, <2>2 DEF Keys
<1> QED BY <1>1, <1>2, <1>4, <1>5 DEF Removed, Unlinked, A

\* No data lies between a node and the rightmost one of its left subtree.
LEMMA Adjacent ==
    ASSUME NEW T, NEW S, NEW K, Tied(T, S, K), NEW n \in S[T.root], NEW e,
           IsOutermost(T, S, K, T["left"][n], "right", e)
    PROVE  \A m \in S[T.root], q \in Sides :
              m # n /\ m # e /\ Before(q, K[m], K[n]) => Before(q, K[m], K[e])
<1> SUFFICES ASSUME NEW m \in S[T.root], NEW q \in Sides, m # n, m # e, Before(q, K[m], K[n])
             PROVE  Before(q, K[m], K[e])
  OBVIOUS
<1>1. n \in Nodes /\ m \in Nodes /\ "left" \in Sides /\ "right" \in Sides /\ Other("left") = "right"
      /\ K \in [Nodes -> Int] /\ T.root \in Nodes /\ S[T.root] \subseteq Nodes
  <2>1. n \in Nodes /\ m \in Nodes /\ T.root \in Nodes /\ S[T.root] \subseteq Nodes
    BY InsideIs, NodesAre
  <2> QED BY <2>1 DEF Sides, Other, Tied, Ordered
<1>2. e \in S[T["left"][n]] /\ \A a \in S[T["left"][n]] : a = e \/ Before("right", K[e], K[a])
  BY DEF IsOutermost
<1>3. e \in S[n] /\ e \in Nodes /\ S[n] = {n} \cup S[T["left"][n]] \cup S[T["right"][n]]
  BY <1>1, <1>2, ChildIs
<1>4. CASE m \notin S[n]
  <2>1. m \in S[T.root] \ S[n]
    BY <1>4
  <2> QED BY <1>1, <1>3, <2>1, Convex
<1>5. CASE m \in S[T["left"][n]]
  <2>1. Before("right", K[e], K[m]) /\ Before("left", K[m], K[n])
    BY <1>1, <1>2, <1>5 DEF Tied, Ordered
  <2>2. K[e] \in Int /\ K[m] \in Int /\ K[n] \in Int
    BY <1>1, <1>3
  <2> QED BY <1>1, <2>1, <2>2 DEF Sides, Before
<1>6. CASE m \in S[T["right"][n]]
  <2>1. Before("right", K[m], K[n]) /\ Before("left", K[e], K[n])
    BY <1>1, <1>2, <1>6 DEF Tied, Ordered
  <2>2. K[e] \in Int /\ K[m] \in Int /\ K[n] \in Int
    BY <1>1, <1>3
  <2> QED BY <1>1, <2>1, <2>2 DEF Sides, Before
<1> QED BY <1>3, <1>4, <1>5, <1>6

\* n and e exchange their data.
Exchanged(T, A, n, e) ==
    /\ A \in Trees /\ SameLinks(T, A) /\ A.rank = T.rank /\ A.used = T.used /\ A.nodeCount = T.nodeCount
    /\ \A m \in Nodes : A.data[m] = IF m = n THEN T.data[e] ELSE IF m = e THEN T.data[n] ELSE T.data[m]

\* A node and its predecessor exchange their data.
LEMMA ExchangeIs ==
    ASSUME NEW T \in Trees, NEW n \in Nodes, NEW e \in Nodes, n # e
    PROVE  Exchanged(T, [T EXCEPT !.data[n] = T.data[e], !.data[e] = T.data[n]], n, e)
<1> DEFINE A == [T EXCEPT !.data[n] = T.data[e], !.data[e] = T.data[n]]
<1>1. T.data \in [Nodes -> Int]
  BY DEF Trees
<1>2. /\ A.root = T.root /\ A.left = T.left /\ A.right = T.right /\ A.parent = T.parent
      /\ A.rank = T.rank /\ A.used = T.used /\ A.nodeCount = T.nodeCount
      /\ A.data = [T.data EXCEPT ![n] = T.data[e], ![e] = T.data[n]]
  BY DEF Trees
<1>3. A \in Trees
  <2>1. [T.data EXCEPT ![n] = T.data[e], ![e] = T.data[n]] \in [Nodes -> Int]
    BY <1>1
  <2> QED BY <1>1, <2>1 DEF Trees
<1> HIDE DEF A
<1>4. Exchanged(T, A, n, e)
  BY <1>1, <1>2, <1>3 DEF Exchanged, SameLinks, Sides
<1> QED BY <1>4 DEF A

\* Removal of a node with two children.
LEMMA RemoveInner ==
    ASSUME NEW T, NEW S, Repaired(T, S, T.data), NEW n \in S[T.root], NEW e, NEW A, NEW B,
           IsOutermost(T, S, T.data, T["left"][n], "right", e), Exchanged(T, B, n, e),
           T["left"][n] # NULL, Unlinked(B, S, T.data, e, A)
    PROVE  Removed(T, S, n, A)
<1> DEFINE K == T.data
           L == A.data
<1>1. Tied(T, S, K) /\ K \in [Nodes -> Int] /\ T \in Trees
  BY DEF Repaired, Tied, Ordered
<1>2. /\ n \in Nodes /\ e \in Nodes /\ e # n /\ e \in S[T.root] /\ S[T.root] \subseteq Nodes /\ T.root \in Nodes
      /\ "left" \in Sides
  <2>1. n \in Nodes /\ S[T.root] \subseteq Nodes /\ T.root \in Nodes /\ "left" \in Sides /\ S[n] \subseteq S[T.root]
    BY <1>1, InsideIs, NodesAre DEF Sides
  <2>2. e \in S[T["left"][n]] /\ n \notin S[T["left"][n]] /\ S[T["left"][n]] \subseteq S[n]
    BY <1>1, <2>1, ChildIs DEF IsOutermost
  <2> QED BY <2>1, <2>2
<1>3. PICK R : Repaired(A, R, K) /\ R[A.root] = S[B.root] \ {e}
  BY DEF Unlinked
<1>4. B.root = T.root /\ A.nodeCount = T.nodeCount - 1 /\ A.used = T.used \ {e}
  BY DEF Exchanged, SameLinks, Unlinked
<1>5. L[n] = K[e] /\ \A m \in Nodes : m # n /\ m # e => L[m] = K[m]
  BY <1>2 DEF Exchanged, Unlinked
<1>6. Tied(A, R, K) /\ A \in Trees /\ L \in [Nodes -> Int] /\ SameLinks(A, A)
  <2>1. Tied(A, R, K) /\ A \in Trees
    BY <1>3 DEF Repaired, Tied
  <2> QED BY <2>1, FieldsAre DEF SameLinks
<1> HIDE DEF K, L
<1>7. \A m \in S[T.root], q \in Sides : m # n /\ m # e /\ Before(q, K[m], K[n]) => Before(q, K[m], K[e])
  BY <1>1, Adjacent DEF K
<1>8. ASSUME NEW m \in Nodes, NEW s \in Sides, NEW a \in R[A[s][m]] PROVE Before(s, L[a], L[m])
  <2>1. m \in R[A.root] /\ a \in R[A.root] /\ a # m /\ Before(s, K[a], K[m])
    <3>1. A[s][m] # NULL
      BY <1>6 DEF Tied, Subtrees
    <3>2. m \in R[A.root] /\ A[s][m] \in R[A.root]
      BY <1>6, <3>1, InsideIs
    <3>3. a \in R[A.root]
      BY <1>6, <3>2, InsideIs
    <3>4. m \notin R[A[s][m]]
      BY <1>6, ChildIs
    <3> QED BY <1>6, <3>2, <3>3, <3>4 DEF Tied, Ordered
  <2>2. m \in S[T.root] /\ a \in S[T.root] /\ m # e /\ a # e /\ a \in Nodes
    BY <1>2, <1>3, <1>4, <2>1
  <2>3. K[m] \in Int /\ K[a] \in Int /\ K[e] \in Int /\ K[n] \in Int /\ Other(s) \in Sides
    BY <1>1, <1>2, <2>2, SidesAre
  <2>4. CASE a = n
    <3>1. Before(Other(s), K[m], K[n])
      BY <2>1, <2>3, <2>4, BeforeIs
    <3>2. Before(Other(s), K[m], K[e])
      BY <1>7, <2>1, <2>2, <2>3, <2>4, <3>1
    <3>3. Before(s, K[e], K[m])
      BY <2>3, <3>2, BeforeIs
    <3> QED BY <1>5, <2>1, <2>2, <2>4, <3>3
  <2>5. CASE m = n
    <3>1. Before(s, K[a], K[e])
      BY <1>7, <2>1, <2>2, <2>5
    <3> QED BY <1>5, <2>1, <2>2, <2>5, <3>1
  <2>6. CASE a # n /\ m # n
    BY <1>5, <2>1, <2>2, <2>6
  <2> QED BY <2>4, <2>5, <2>6
<1>9. Repaired(A, R, L)
  <2>1. Ordered(A, R, L)
    BY <1>6, <1>8 DEF Ordered
  <2> QED BY <1>3, <1>6, <2>1, RepairedAgain
<1>10. Keys(A, R) = Keys(T, S) \ {T.data[n]}
  <2>1. Keys(A, R) = {L[m] : m \in S[T.root] \ {e}} /\ Keys(T, S) = {K[m] : m \in S[T.root]} /\ T.data[n] = K[n]
    BY <1>3, <1>4 DEF Keys, K, L
  <2>2. \A m, k \in S[T.root] : K[m] = K[k] => m = k
    BY <1>1, <1>2, OneKey
  <2>3. ASSUME NEW v \in Keys(A, R) PROVE v \in Keys(T, S) \ {T.data[n]}
    <3>1. PICK m \in S[T.root] \ {e} : v = L[m]
      BY <2>1
    <3>2. CASE m = n
      BY <1>2, <1>5, <2>1, <2>2, <3>1, <3>2
    <3>3. CASE m # n
      BY <1>2, <1>5, <2>1, <2>2, <3>1, <3>3
    <3> QED BY <3>2, <3>3
  <2>4. ASSUME NEW v \in Keys(T, S), v # K[n] PROVE v \in Keys(A, R)
    <3>1. PICK m \in S[T.root] : v = K[m]
      BY <2>1
    <3>2. m # n
      BY <2>4, <3>1
    <3>3. CASE m = e
      BY <1>2, <1>5, <2>1, <3>1, <3>3
    <3>4. CASE m # e
      BY <1>2, <1>5, <2>1, <3>1, <3>2, <3>4
    <3> QED BY <3>3, <3>4
  <2> QED BY <2>1, <2>3, <2>4
<1>11. \A m \in Nodes \ {e} : A.data[m] = T.data[m] \/ A.data[m] = T.data[e]
  BY <1>2, <1>5 DEF K, L
<1> QED BY <1>2, <1>3, <1>4, <1>9, <1>10, <1>11 DEF Removed, L

\* RBBinaryTreeRemoveNode removes the data and keeps the tree in order.
LEMMA RemoveNodeIs ==
    ASSUME NEW T, NEW S, Repaired(T, S, T.data), NEW n \in S[T.root]
    PROVE  Removed(T, S, n, RemoveNode(T, n))
<1> DEFINE K == T.data
           e == Outermost(T, T["left"][n], "right")
           B == [T EXCEPT !.data[n] = T.data[e], !.data[e] = T.data[n]]
           A == Unlink(B, e)
<1>1. CASE T["left"][n] = NULL \/ T["right"][n] = NULL
  <2>1. RemoveNode(T, n) = Unlink(T, n)
    BY <1>1 DEF RemoveNode
  <2> QED BY <1>1, <2>1, RemoveLeaf
<1>2. CASE T["left"][n] # NULL /\ T["right"][n] # NULL
  <2>1. RemoveNode(T, n) = A
    BY <1>2 DEF RemoveNode
  <2>2. Tied(T, S, K) /\ K \in [Nodes -> Int] /\ T \in Trees /\ n \in Nodes /\ "left" \in Sides /\ "right" \in Sides
        /\ S[n] \subseteq S[T.root]
    BY InsideIs DEF Repaired, Tied, Ordered, Sides
  <2>3. T["left"][n] \in Nodes /\ S[T["left"][n]] \subseteq S[n] /\ n \notin S[T["left"][n]] /\ S[n] \subseteq Nodes
    BY <1>2, <2>2, ChildIs
  <2>4. IsOutermost(T, S, K, T["left"][n], "right", e)
    BY <2>2, <2>3, OutermostIs
  <2> HIDE DEF e
  <2>5. e \in Nodes /\ e # n /\ e \in S[T.root] /\ T["right"][e] = NULL
    BY <2>2, <2>3, <2>4 DEF IsOutermost
  <2>6. Exchanged(T, B, n, e)
    BY <2>2, <2>5, ExchangeIs
  <2> HIDE DEF B
  <2>7. B \in Trees /\ SameLinks(T, B) /\ B.rank = T.rank /\ B.root = T.root /\ B["right"] = T["right"]
    BY <2>2, <2>6 DEF Exchanged, SameLinks
  <2>8. Ordered(B, S, K)
    BY <2>2, <2>7 DEF Ordered, Tied, SameLinks
  <2>9. Repaired(B, S, K)
    BY <2>2, <2>7, <2>8, RepairedAgain
  <2>10. Unlinked(B, S, K, e, A)
    BY <2>5, <2>7, <2>9, UnlinkIs
  <2> HIDE DEF A
  <2> QED BY <1>2, <2>1, <2>4, <2>6, <2>10, RemoveInner
<1> QED BY <1>1, <1>2

-----------------------------------------------------------------------------
\* Insertion: the node comes.

\* A is T with the node x given out for d.
Given(T, A, x, d) ==
    /\ A \in Trees /\ SameLinks(T, A) /\ A.rank = T.rank
    /\ A.used = T.used \cup {x} /\ A.nodeCount = T.nodeCount + 1
    /\ A.data = [T.data EXCEPT ![x] = d]

\* TFalloc and the count, before the search.
LEMMA NewNodeIs ==
    ASSUME NEW T \in Trees, CanAlloc(T), NEW d \in Int
    PROVE  Given(T, NewNode(T, d), Fresh(T), d)
<1> DEFINE x == Fresh(T)
           A == NewNode(T, d)
<1>1. x \in Nodes
  BY FreshIs
<1>2. A = [T EXCEPT !.used = @ \cup {x}, !.data[x] = d, !.nodeCount = @ + 1]
  BY DEF NewNode
<1> HIDE DEF x, A
<1>3. /\ A \in Trees /\ A.root = T.root /\ A.left = T.left /\ A.right = T.right /\ A.parent = T.parent
      /\ A.rank = T.rank /\ A.used = T.used \cup {x} /\ A.nodeCount = T.nodeCount + 1
      /\ A.data = [T.data EXCEPT ![x] = d]
  <2> DEFINE u == T.used \cup {x}
             v == [T.data EXCEPT ![x] = d]
             w == T.nodeCount + 1
  <2>1. u \in SUBSET Nodes /\ v \in [Nodes -> Int] /\ w \in Int
    BY <1>1 DEF Trees
  <2>2. A = [T EXCEPT !.used = u, !.data = v, !.nodeCount = w]
    BY <1>2 DEF Trees
  <2> HIDE DEF u, v, w
  <2>3. /\ A \in Trees /\ A.root = T.root /\ A.left = T.left /\ A.right = T.right /\ A.parent = T.parent
        /\ A.rank = T.rank /\ A.used = u /\ A.nodeCount = w /\ A.data = v
    BY <2>1, <2>2 DEF Trees
  <2> QED BY <2>3 DEF u, v, w
<1>4. Given(T, A, x, d)
  BY <1>3 DEF Given, SameLinks, Sides
<1> QED BY <1>4 DEF A, x

\* A is T with d in it, and with one more node given out.
Inserted(T, S, d, A) ==
    /\ A.nodeCount = T.nodeCount + 1
    /\ \E x \in Nodes \ T.used : \E R :
          /\ A.used = T.used \cup {x} /\ A.data = [T.data EXCEPT ![x] = d]
          /\ Repaired(A, R, A.data) /\ R[A.root] \subseteq A.used
          /\ Keys(A, R) = Keys(T, S) \cup {d}

Undisturbed(T, S, A, x, d) ==
    /\ Repaired(A, S, A.data) /\ A.root = T.root /\ x \notin S[T.root] /\ S[T.root] \subseteq Nodes
    /\ A.data[x] = d /\ \A m \in S[T.root] : A.data[m] = T.data[m]

\* A node in use outside the tree does not disturb it.
LEMMA GivenRepaired ==
    ASSUME NEW T, NEW S, Repaired(T, S, T.data), S[T.root] \subseteq T.used, NEW x \in Nodes \ T.used,
           NEW d \in Int, NEW A, Given(T, A, x, d)
    PROVE  Undisturbed(T, S, A, x, d)
<1>1. Tied(T, S, T.data) /\ T.data \in [Nodes -> Int] /\ A \in Trees /\ SameLinks(T, A) /\ A.rank = T.rank
      /\ A.data = [T.data EXCEPT ![x] = d]
  BY DEF Repaired, Tied, Ordered, Given
<1>2. S[T.root] \subseteq Nodes /\ x \notin S[T.root] /\ A.root = T.root
  BY <1>1, InsideIs DEF SameLinks
<1>3. A.data \in [Nodes -> Int] /\ A.data[x] = d /\ \A m \in S[T.root] : A.data[m] = T.data[m]
  BY <1>1, <1>2
<1>4. Tied(A, S, A.data)
  BY <1>1, <1>3, TiedAgain, ZenonT(60)
<1>5. Repaired(A, S, A.data)
  BY <1>1, <1>3, <1>4, RepairedAgain DEF Tied
<1> QED BY <1>2, <1>3, <1>5 DEF Undisturbed

\* What the repair of an insertion makes of a new leaf x.
LEMMA LeafInserted ==
    ASSUME NEW T, NEW S, NEW x \in Nodes \ T.used, NEW d \in Int, NEW A, NEW R, NEW B,
           Inserting(A, R, A.data, x), R[A.root] = S[T.root] \cup {x}, S[T.root] \subseteq T.used,
           A.used = T.used \cup {x}, A.nodeCount = T.nodeCount + 1, A.data = [T.data EXCEPT ![x] = d],
           T.data \in [Nodes -> Int], S[T.root] \subseteq Nodes, B = InsertCase1(A, x)
    PROVE  Inserted(T, S, d, B)
<1>1. Repairs(A, R, A.data, B)
  BY InsertCase1Is
<1>2. PICK W : Repaired(B, W, A.data) /\ W[B.root] = R[A.root]
  BY <1>1 DEF Repairs
<1>3. B.data = A.data /\ B.used = A.used /\ B.nodeCount = A.nodeCount
  BY <1>1 DEF Repairs, SameRest
<1>4. x \in Nodes /\ x \notin S[T.root] /\ A.data[x] = d /\ \A m \in S[T.root] : A.data[m] = T.data[m]
  OBVIOUS
<1>5. Keys(B, W) = Keys(T, S) \cup {d}
  BY <1>2, <1>3, <1>4 DEF Keys
<1> QED BY <1>2, <1>3, <1>5 DEF Inserted

\* A first node becomes the root.
LEMMA FirstInserting ==
    ASSUME NEW T, NEW S, Repaired(T, S, T.data), T.root = NULL, NEW x \in Nodes
    PROVE  Inserting([T EXCEPT !.root = x], S, T.data, x) /\ S[x] = {x}
<1> DEFINE A == [T EXCEPT !.root = x]
<1>1. Tied(T, S, T.data) /\ Colored(T, S) /\ T \in Trees
  BY DEF Repaired, Tied
<1>2. PICK H : Heights(T, H, {}, NULL)
  BY DEF Repaired
<1>3. S[NULL] = {} /\ x \in Ids /\ x # NULL
  BY <1>1, NodesAre DEF Tied, Subtrees
<1>4. \A m \in Nodes : T.rank[m] = RED /\ T.parent[m] = NULL /\ \A q \in Sides : T[q][m] = NULL
  BY <1>1, <1>3 DEF Colored, Tied, Linked
<1>5. S[x] = {x}
  <2>1. "left" \in Sides
    BY DEF Sides
  <2>2. S[x] = {x} \cup S[T["left"][x]] \cup S[T[Other("left")][x]]
    BY <1>1, <2>1, ChildIs
  <2> QED BY <1>3, <1>4, <2>1, <2>2, SidesAre
<1>6. /\ A \in Trees /\ A.root = x /\ A.left = T.left /\ A.right = T.right /\ A.parent = T.parent
      /\ A.rank = T.rank
  BY <1>1, <1>3 DEF Trees
<1> HIDE DEF A
<1>7. \A q \in Sides : A[q] = T[q]
  BY <1>6 DEF Sides
<1>8. Tied(A, S, T.data)
  <2>1. Subtrees(A, S)
    BY <1>1, <1>7, SidesAre DEF Tied, Subtrees
  <2>2. Ordered(A, S, T.data)
    BY <1>1, <1>7 DEF Tied, Ordered
  <2>3. Linked(A, S)
    BY <1>4, <1>5, <1>6, <1>7 DEF Linked
  <2> QED BY <1>6, <2>1, <2>2, <2>3 DEF Tied
<1>9. Colored(A, S)
  BY <1>1, <1>4, <1>6 DEF Colored
<1>10. Reds(A, x, NULL)
  BY <1>4, <1>7 DEF Reds
<1>11. Heights(A, H, {}, NULL)
  BY <1>2, <1>6, <1>7 DEF Heights, Weight
<1>12. Inserting(A, S, T.data, x)
  BY <1>4, <1>5, <1>6, <1>8, <1>9, <1>10, <1>11 DEF Inserting
<1> QED BY <1>5, <1>12 DEF A

\* A new leaf.
LEMMA LeafInserting ==
    ASSUME NEW T, NEW S, Repaired(T, S, T.data), NEW at \in S[T.root], NEW s \in Sides, T[s][at] = NULL,
           NEW x \in Nodes \ S[T.root], Fits(T, S, T.data, at, T.data[x]),
           Before(s, T.data[x], T.data[at])
    PROVE  LET A == Attach(T, at, s, x)
               R == Extended(S, at, x)
           IN  /\ Inserting(A, R, A.data, x) /\ SameRest(T, A)
               /\ R[A.root] = S[T.root] \cup {x}
<1> DEFINE A == Attach(T, at, s, x)
           R == Extended(S, at, x)
           K == T.data
<1>1. Tied(T, S, K) /\ Colored(T, S) /\ T \in Trees /\ K \in [Nodes -> Int] /\ Reds(T, NULL, NULL)
      /\ (T.root = NULL \/ T.rank[T.root] = BLACK)
  BY DEF Repaired, Tied, Ordered
<1>2. at \in Nodes /\ x \in Ids /\ x # NULL /\ at # x /\ T.root # NULL /\ K[x] \in Int
  BY <1>1, InsideIs, NodesAre
<1>3. T.rank[x] = RED /\ \A q \in Sides : T[q][x] = NULL
  BY <1>1, <1>2 DEF Colored, Tied, Linked
<1>4. Attached(T, A, at, s, x)
  BY <1>1, <1>2, AttachIs
<1> HIDE DEF A
<1>5. /\ A \in Trees /\ SameRest(T, A) /\ A.rank = T.rank /\ A.root = T.root
      /\ \A m \in Nodes, q \in Sides : A[q][m] = IF m = at /\ q = s THEN x ELSE T[q][m]
      /\ \A m \in Nodes : A.parent[m] = IF m = x THEN at ELSE T.parent[m]
  BY <1>4 DEF Attached
<1>6. Grown(T, A, at, s, x)
  BY <1>5 DEF Grown
<1>7. [K EXCEPT ![x] = K[x]] = K
  BY <1>1, <1>2
<1>8. Tied(A, R, K) /\ R[A.root] = S[T.root] \cup {x}
  <2>1. Tied(A, R, [K EXCEPT ![x] = K[x]]) /\ R[A.root] = S[T.root] \cup {x}
    BY <1>1, <1>2, <1>6, GrownTied
  <2> QED BY <1>7, <2>1
<1> HIDE DEF R
<1>9. Colored(A, R)
  BY <1>1, <1>5, <1>8 DEF Colored
<1>10. Reds(A, x, NULL)
  <2> SUFFICES ASSUME NEW m \in Nodes, NEW q \in Sides, A[q][m] # NULL, A.rank[m] = RED,
                      A.rank[A[q][m]] = RED, A[q][m] # x
               PROVE  FALSE
    BY DEF Reds
  <2>1. A[q][m] = T[q][m]
    BY <1>5
  <2> QED BY <1>1, <1>5, <2>1, NodesAre DEF Reds
<1>11. \E H : Heights(A, H, {}, NULL)
  <2>1. PICK H : Heights(T, H, {}, NULL)
    BY DEF Repaired
  <2>2. H[NULL] = 0 /\ H \in [Ids -> Nat]
    BY <2>1 DEF Heights
  <2>3. H[x] = 0
    <3>1. "left" \in Sides
      BY DEF Sides
    <3>2. Weight(T, NULL, x) = 0 /\ Due({}, T["left"][x]) = 0
      BY <1>2, <1>3 DEF Weight, Due, RED
    <3>3. H[x] = Weight(T, NULL, x) + H[T["left"][x]] + Due({}, T["left"][x])
      BY <2>1, <3>1 DEF Heights
    <3> QED BY <1>3, <2>2, <3>1, <3>2, <3>3
  <2>4. ASSUME NEW m \in Nodes, NEW q \in Sides
        PROVE  H[m] = Weight(A, NULL, m) + H[A[q][m]] + Due({}, A[q][m])
    <3>1. H[m] = Weight(T, NULL, m) + H[T[q][m]] + Due({}, T[q][m])
      BY <2>1 DEF Heights
    <3>2. Weight(A, NULL, m) = Weight(T, NULL, m) /\ Due({}, T[q][m]) = 0 /\ Due({}, A[q][m]) = 0
      BY <1>5 DEF Weight, Due
    <3>3. H[A[q][m]] = H[T[q][m]]
      BY <1>5, <2>2, <2>3
    <3> QED BY <3>1, <3>2, <3>3
  <2> QED BY <2>2, <2>4 DEF Heights
<1>12. x \in R[A.root] /\ A.rank[x] = RED /\ A.rank[A.root] = BLACK /\ A.data = K
  BY <1>1, <1>2, <1>3, <1>5, <1>8 DEF SameRest
<1>13. Inserting(A, R, A.data, x)
  BY <1>8, <1>9, <1>10, <1>11, <1>12 DEF Inserting
<1> QED BY <1>5, <1>8, <1>13 DEF A, R

\* RBBinaryTreeInsertNode inserts the data and keeps the tree in order.
LEMMA InsertNodeIs ==
    ASSUME NEW T, NEW S, Repaired(T, S, T.data), S[T.root] \subseteq T.used, CanAlloc(T), NEW d \in Int
    PROVE  Inserted(T, S, d, InsertNode(T, d))
<1> DEFINE x == Fresh(T)
           B == NewNode(T, d)
           at == Descend(B, B.root, d)
           s == IF T.data[at] > d THEN "left" ELSE "right"
           F == [B EXCEPT !.root = x]
           L == Attach(B, at, s, x)
           A == InsertNode(T, d)
<1>1. A = IF T.root = NULL THEN InsertCase1(F, x) ELSE IF T.data[at] = d THEN B ELSE InsertCase1(L, x)
  BY DEF InsertNode
<1>2. T \in Trees /\ T.data \in [Nodes -> Int] /\ S[NULL] = {} /\ S[T.root] \subseteq Nodes
  <2>1. T \in Trees /\ S[NULL] = {} /\ Tied(T, S, T.data)
    BY DEF Repaired, Tied, Subtrees
  <2> QED BY <2>1, InsideIs, FieldsAre
<1>3. x \in Nodes \ T.used /\ Given(T, B, x, d)
  BY <1>2, FreshIs, NewNodeIs
<1> HIDE DEF A, B, x
<1>4. /\ Repaired(B, S, B.data) /\ B.root = T.root /\ x \notin S[T.root]
      /\ B.data[x] = d /\ \A m \in S[T.root] : B.data[m] = T.data[m]
  <2> HIDE DEF at, s, F, L
  <2>1. Repaired(T, S, T.data) /\ S[T.root] \subseteq T.used /\ x \in Nodes \ T.used /\ d \in Int /\ Given(T, B, x, d)
    BY <1>3
  <2>2. Undisturbed(T, S, B, x, d)
    BY <2>1, GivenRepaired
  <2> QED BY <2>2 DEF Undisturbed
<1>5. B.used = T.used \cup {x} /\ B.nodeCount = T.nodeCount + 1 /\ B.data = [T.data EXCEPT ![x] = d] /\ B \in Trees
      /\ Tied(B, S, B.data)
  BY <1>3, <1>4 DEF Given, Repaired
<1>6. CASE T.root = NULL
  <2>1. Inserting(F, S, B.data, x) /\ S[x] = {x}
    BY <1>3, <1>4, <1>6, FirstInserting
  <2>2. F.root = x /\ F.data = B.data /\ F.used = B.used /\ F.nodeCount = B.nodeCount
    BY <1>5 DEF Trees
  <2>3. A = InsertCase1(F, x)
    BY <1>1, <1>6
  <2> HIDE DEF F
  <2>4. /\ Inserting(F, S, F.data, x) /\ S[F.root] = S[T.root] \cup {x} /\ F.used = T.used \cup {x}
        /\ F.nodeCount = T.nodeCount + 1 /\ F.data = [T.data EXCEPT ![x] = d]
    BY <1>2, <1>5, <1>6, <2>1, <2>2
  <2>5. Inserted(T, S, d, A)
    BY <1>2, <1>3, <2>3, <2>4, LeafInserted
  <2> QED BY <2>5 DEF A
<1>7. CASE T.root # NULL
  <2>1. IsPlace(B, S, B.data, d, at)
    BY <1>4, <1>5, <1>7, DescendIs
  <2> HIDE DEF at
  <2>2. at \in S[T.root] /\ B.data[at] = T.data[at] /\ T.data[at] \in Int
    BY <1>2, <1>4, <2>1 DEF IsPlace
  <2>3. CASE T.data[at] = d
    <3>1. A = B
      BY <1>1, <1>7, <2>3
    <3>2. Keys(B, S) = Keys(T, S) \cup {d}
      <4>1. Keys(B, S) = Keys(T, S)
        BY <1>4 DEF Keys
      <4>2. d \in Keys(T, S)
        BY <2>2, <2>3 DEF Keys
      <4> QED BY <4>1, <4>2
    <3>3. S[B.root] \subseteq B.used
      BY <1>4, <1>5
    <3>4. Inserted(T, S, d, B)
      BY <1>3, <1>4, <1>5, <3>2, <3>3 DEF Inserted
    <3> QED BY <3>1, <3>4 DEF A
  <2>4. CASE T.data[at] # d
    <3>1. A = InsertCase1(L, x)
      BY <1>1, <1>7, <2>4
    <3>2. s \in Sides /\ B[s][at] = NULL /\ Before(s, B.data[x], B.data[at]) /\ at \in S[B.root]
          /\ Fits(B, S, B.data, at, B.data[x]) /\ x \in Nodes \ S[B.root]
      <4>1. s \in Sides /\ Before(s, d, T.data[at])
        BY <2>2, <2>4 DEF Sides, Before
      <4>2. B[s][at] = NULL /\ Fits(B, S, B.data, at, d)
        BY <2>1, <2>2, <2>4 DEF IsPlace
      <4> QED BY <1>3, <1>4, <2>2, <4>1, <4>2
    <3> HIDE DEF s
    <3>3. /\ Inserting(L, Extended(S, at, x), L.data, x) /\ SameRest(B, L)
          /\ Extended(S, at, x)[L.root] = S[B.root] \cup {x}
      BY <1>4, <3>2, LeafInserting
    <3> HIDE DEF L
    <3>4. /\ L.used = T.used \cup {x} /\ L.nodeCount = T.nodeCount + 1 /\ L.data = [T.data EXCEPT ![x] = d]
          /\ Extended(S, at, x)[L.root] = S[T.root] \cup {x}
      BY <1>4, <1>5, <3>3 DEF SameRest
    <3>5. Inserted(T, S, d, A)
      BY <1>2, <1>3, <3>1, <3>3, <3>4, LeafInserted
    <3> QED BY <3>5 DEF A
  <2> QED BY <2>3, <2>4
<1> QED BY <1>6, <1>7

-----------------------------------------------------------------------------
\* The tree after every call.

\* The tree is in order, and so is the heap it lives in.
Sound(T, S) ==
    /\ Repaired(T, S, T.data) /\ S[T.root] \subseteq T.used
    /\ T.nodeCount = Cardinality(T.used)
    /\ \A m \in T.used : T.data[m] \in Data

\* A is sound and holds the data V.
SoundWith(A, V) == \E R : Sound(A, R) /\ Keys(A, R) = V

\* What is known of a sound tree.
LEMMA SoundIs ==
    ASSUME NEW T, NEW S, Sound(T, S)
    PROVE  /\ Tied(T, S, T.data) /\ Colored(T, S) /\ T \in Trees /\ T.used \in SUBSET Nodes /\ IsFiniteSet(T.used)
           /\ T.data \in [Nodes -> Int] /\ S[T.root] \subseteq T.used
<1>1. Tied(T, S, T.data) /\ Colored(T, S) /\ T \in Trees
  BY DEF Sound, Repaired, Tied
<1>2. T.used \in SUBSET Nodes /\ T.data \in [Nodes -> Int]
  BY <1>1, FieldsAre
<1> QED BY <1>1, <1>2, ManyNodes DEF Sound

\* An insertion keeps the tree sound and adds its data.
LEMMA InsertSound ==
    ASSUME NEW T, NEW S, Sound(T, S), CanAlloc(T), NEW d \in Data
    PROVE  SoundWith(InsertNode(T, d), Keys(T, S) \cup {d})
<1> DEFINE A == InsertNode(T, d)
<1>1. d \in Int /\ Repaired(T, S, T.data) /\ S[T.root] \subseteq T.used
  BY TreeAssumption DEF Sound
<1>2. Inserted(T, S, d, A)
  BY <1>1, InsertNodeIs
<1> HIDE DEF A
<1>3. PICK x, R :
          /\ x \in Nodes \ T.used /\ A.used = T.used \cup {x} /\ A.data = [T.data EXCEPT ![x] = d]
          /\ Repaired(A, R, A.data) /\ R[A.root] \subseteq A.used
          /\ Keys(A, R) = Keys(T, S) \cup {d}
  BY <1>2 DEF Inserted
<1>4. A.nodeCount = Cardinality(A.used)
  <2>1. A.nodeCount = Cardinality(T.used) + 1
    BY <1>2 DEF Inserted, Sound
  <2>2. Cardinality(T.used \cup {x}) = Cardinality(T.used) + 1
    BY <1>3, SoundIs, FS_AddElement
  <2> QED BY <1>3, <2>1, <2>2
<1>5. \A m \in A.used : A.data[m] \in Data
  BY <1>3, SoundIs DEF Sound
<1>6. Sound(A, R)
  BY <1>3, <1>4, <1>5 DEF Sound
<1> QED BY <1>3, <1>6 DEF SoundWith, A

\* A removal keeps the tree sound and takes the data of its node.
LEMMA RemoveSound ==
    ASSUME NEW T, NEW S, Sound(T, S), NEW n \in S[T.root]
    PROVE  SoundWith(RemoveNode(T, n), Keys(T, S) \ {T.data[n]})
<1> DEFINE A == RemoveNode(T, n)
<1>1. Removed(T, S, n, A)
  BY RemoveNodeIs DEF Sound
<1> HIDE DEF A
<1>2. PICK x, R :
          /\ x \in S[T.root] /\ A.used = T.used \ {x} /\ Repaired(A, R, A.data) /\ R[A.root] = S[T.root] \ {x}
          /\ Keys(A, R) = Keys(T, S) \ {T.data[n]}
          /\ \A m \in Nodes \ {x} : A.data[m] = T.data[m] \/ A.data[m] = T.data[x]
  BY <1>1 DEF Removed
<1>3. x \in T.used /\ T.used \in SUBSET Nodes /\ IsFiniteSet(T.used)
  BY <1>2, SoundIs DEF Sound
<1>4. A.nodeCount = Cardinality(A.used)
  <2>1. A.nodeCount = Cardinality(T.used) - 1
    BY <1>1 DEF Removed, Sound
  <2>2. Cardinality(T.used \ {x}) = Cardinality(T.used) - 1
    BY <1>3, FS_RemoveElement
  <2> QED BY <1>2, <2>1, <2>2
<1>5. \A m \in A.used : A.data[m] \in Data
  BY <1>2, <1>3 DEF Sound
<1>6. R[A.root] \subseteq A.used
  BY <1>2 DEF Sound
<1>7. Sound(A, R)
  BY <1>2, <1>4, <1>5, <1>6 DEF Sound
<1> QED BY <1>2, <1>7 DEF SoundWith, A

-----------------------------------------------------------------------------
IInv == kind = "RB" /\ (\E S : Sound(tree, S)) /\ IsAnswer(reply)

\* The empty tree is sound.
LEMMA InitSound ==
    ASSUME Init
    PROVE  SoundWith(tree, {})
<1> DEFINE S == [m \in Ids |-> IF m = NULL THEN {} ELSE {m}]
           H == [m \in Ids |-> 0]
<1>1. /\ tree.root = NULL /\ tree.nodeCount = 0 /\ tree.used = {}
      /\ tree.left = Empty /\ tree.right = Empty /\ tree.parent = Empty /\ tree.data = Empty /\ tree.rank = Empty
      /\ tree = [root |-> NULL, nodeCount |-> 0, used |-> {}, left |-> Empty, right |-> Empty,
                 parent |-> Empty, data |-> Empty, rank |-> Empty]
  BY DEF Init, Opened
<1>2. Empty \in [Nodes -> Ids] /\ Empty \in [Nodes -> Int] /\ \A m \in Nodes : Empty[m] = NULL
  BY NodesAre DEF Empty, NULL
<1>3. tree \in Trees
  BY <1>1, <1>2, NodesAre DEF Trees
<1>4. \A m \in Nodes : /\ \A q \in Sides : tree[q][m] = NULL
                       /\ tree.parent[m] = NULL /\ tree.rank[m] = RED
  BY <1>1, <1>2 DEF Sides, RED, NULL
<1>5. S \in [Ids -> SUBSET Nodes] /\ S[NULL] = {} /\ \A m \in Nodes : S[m] = {m}
  BY NodesAre
<1> HIDE DEF S
<1>6. Tied(tree, S, tree.data)
  <2>1. Subtrees(tree, S)
    BY <1>4, <1>5, SidesAre DEF Subtrees
  <2>2. Ordered(tree, S, tree.data)
    BY <1>1, <1>2, <1>4, <1>5 DEF Ordered
  <2>3. Linked(tree, S)
    BY <1>1, <1>4, <1>5 DEF Linked
  <2> QED BY <1>3, <2>1, <2>2, <2>3 DEF Tied
<1>7. Heights(tree, H, {}, NULL)
  <2>1. H \in [Ids -> Nat] /\ \A m \in Ids : H[m] = 0
    OBVIOUS
  <2>2. \A m \in Nodes : Weight(tree, NULL, m) = 0
    BY <1>4, NodesAre DEF Weight, RED
  <2> HIDE DEF H
  <2> QED BY <1>4, <2>1, <2>2, NodesAre DEF Heights, Due
<1>8. Repaired(tree, S, tree.data)
  BY <1>1, <1>4, <1>6, <1>7 DEF Repaired, Colored, Reds
<1>9. Sound(tree, S)
  BY <1>1, <1>5, <1>8, FS_EmptySet DEF Sound
<1>10. Keys(tree, S) = {}
  BY <1>1, <1>5 DEF Keys
<1> QED BY <1>9, <1>10 DEF SoundWith

\* What a call does to the contents, and what it answers.
Called(T, S, A, r, d) ==
    \/ r = Answer("Insert", d, d \notin Keys(T, S)) /\ SoundWith(A, Keys(T, S) \cup {d})
    \/ r = Answer("Insert", d, FALSE) /\ A = T
    \/ r = Answer("Remove", d, d \in Keys(T, S)) /\ SoundWith(A, Keys(T, S) \ {d})
    \/ r = Answer("Find", d, d \in Keys(T, S)) /\ A = T

\* Every call does to the contents what it answers.
LEMMA CallIs ==
    ASSUME NEW S, Sound(tree, S), NEW d \in Data, Calls(d)
    PROVE  Called(tree, S, tree', reply', d)
<1> DEFINE n == FindSorted(tree, d)
<1>1. Tied(tree, S, tree.data) /\ d \in Int
  BY SoundIs, TreeAssumption
<1>2. (n # NULL => n \in S[tree.root] /\ tree.data[n] = d) /\ (n = NULL => \A a \in S[tree.root] : tree.data[a] # d)
  BY <1>1, FindIs
<1>3. n # NULL <=> d \in Keys(tree, S)
  BY <1>2 DEF Keys
<1>4. CASE InsertSorted(d)
  <2>1. CASE CanAlloc(tree)
    <3>1. SoundWith(InsertNode(tree, d), Keys(tree, S) \cup {d})
      BY <2>1, InsertSound
    <3>2. tree' = InsertNode(tree, d) /\ reply' = Answer("Insert", d, n = NULL)
      BY <1>4, <2>1 DEF InsertSorted
    <3>3. reply' = Answer("Insert", d, d \notin Keys(tree, S))
      <4>1. (n = NULL) = (d \notin Keys(tree, S))
        BY <1>3
      <4> QED BY <3>2, <4>1
    <3> QED BY <3>1, <3>2, <3>3 DEF Called
  <2>2. CASE ~CanAlloc(tree)
    BY <1>4, <2>2 DEF InsertSorted, Called
  <2> QED BY <2>1, <2>2
<1>5. CASE RemoveSorted(d)
  <2>1. tree' = (IF n = NULL THEN tree ELSE RemoveNode(tree, n)) /\ reply' = Answer("Remove", d, n # NULL)
    BY <1>5 DEF RemoveSorted
  <2>2. reply' = Answer("Remove", d, d \in Keys(tree, S))
    <3>1. (n # NULL) = (d \in Keys(tree, S))
      BY <1>3
    <3> QED BY <2>1, <3>1
  <2>3. SoundWith(tree', Keys(tree, S) \ {d})
    <3> HIDE DEF n
    <3>1. CASE n = NULL
      <4>1. Keys(tree, S) = Keys(tree, S) \ {d}
        BY <1>3, <3>1
      <4>2. tree' = tree
        BY <2>1, <3>1
      <4> QED BY <4>1, <4>2 DEF SoundWith
    <3>2. CASE n # NULL
      <4>1. SoundWith(RemoveNode(tree, n), Keys(tree, S) \ {tree.data[n]})
        BY <1>2, <3>2, RemoveSound
      <4> QED BY <1>2, <2>1, <3>2, <4>1
    <3> QED BY <3>1, <3>2
  <2> QED BY <2>2, <2>3 DEF Called
<1>6. CASE Lookup(d)
  <2>1. tree' = tree /\ reply' = Answer("Find", d, n # NULL)
    BY <1>6 DEF Lookup
  <2>2. (n # NULL) = (d \in Keys(tree, S))
    BY <1>3
  <2> QED BY <2>1, <2>2 DEF Called
<1> QED BY <1>4, <1>5, <1>6 DEF Calls

\* The inductive invariant.
LEMMA IInvHolds == Spec => []IInv
<1>1. Init => IInv
  <2> SUFFICES ASSUME Init PROVE IInv
    OBVIOUS
  <2>1. SoundWith(tree, {})
    BY InitSound
  <2> QED BY <2>1 DEF IInv, Init, Opened, IsAnswer, SoundWith
<1>2. IInv /\ [Next]_vars => IInv'
  <2> SUFFICES ASSUME IInv, [Next]_vars PROVE IInv'
    OBVIOUS
  <2>1. CASE UNCHANGED vars
    BY <2>1 DEF vars, IInv
  <2>2. CASE Next
    <3>1. PICK d \in Data : Calls(d)
      BY <2>2 DEF Next
    <3>2. PICK S : Sound(tree, S)
      BY DEF IInv
    <3>3. Called(tree, S, tree', reply', d)
      BY <3>1, <3>2, CallIs
    <3>4. \E R : Sound(tree', R)
      BY <3>2, <3>3 DEF Called, SoundWith
    <3>5. IsAnswer(reply')
      <4>1. \A ok \in BOOLEAN, call \in {"Insert", "Remove", "Find"} : IsAnswer(Answer(call, d, ok))
        BY DEF IsAnswer, Answer
      <4>2. (d \in Keys(tree, S)) \in BOOLEAN /\ (d \notin Keys(tree, S)) \in BOOLEAN
        OBVIOUS
      <4> QED BY <3>3, <4>1, <4>2 DEF Called
    <3> QED BY <2>2, <3>4, <3>5 DEF IInv, Next
  <2> QED BY <2>1, <2>2
<1> QED BY <1>1, <1>2, PTL DEF Spec

\* The contents of a sound tree.
LEMMA SoundContents ==
    ASSUME NEW T, NEW S, Sound(T, S)
    PROVE  Contents(T) = Keys(T, S)
BY SoundIs, ContentsAre

\* So that is what a call leaves.
LEMMA ContentsWith ==
    ASSUME NEW A, NEW V, SoundWith(A, V)
    PROVE  Contents(A) = V
BY SoundContents DEF SoundWith

\* U[m] counts the black nodes from m up to the root.
Counts(T, U) == U = [m \in Ids |-> IF m = NULL THEN 0 ELSE Color(T, m) + U[T.parent[m]]]

\* Up to the root there is a count.
LEMMA CountsExist ==
    ASSUME NEW T, NEW S, NEW K, Tied(T, S, K), Colored(T, S)
    PROVE  \E U \in [Ids -> Nat] : Counts(T, U)
<1> DEFINE N == MaxNodes + 1
           h == [m \in Ids |-> IF m = NULL THEN 0 ELSE N - Cardinality(S[m])]
           up == [m \in Ids |-> IF m = NULL THEN NULL ELSE T.parent[m]]
           v == [m \in Ids |-> 0]
           w == [m \in Ids |-> [y \in Nat |-> Color(T, m) + y]]
<1>1. \A m \in Nodes : Cardinality(S[m]) \in 1 .. MaxNodes
  <2> TAKE m \in Nodes
  <2>1. S[m] \in SUBSET Nodes /\ m \in S[m] /\ {} \in SUBSET S[m] /\ {} # S[m]
    <3>1. "left" \in Sides
      BY DEF Sides
    <3> QED BY <3>1, ChildIs
  <2>2. Cardinality(S[m]) \in 0 .. MaxNodes /\ Cardinality({}) < Cardinality(S[m])
    BY <2>1, ManyNodes
  <2> QED BY <2>2, NodesAre, FS_EmptySet
<1>2. N \in Nat /\ h \in [Ids -> 0 .. N]
  <2>1. ASSUME NEW m \in Ids, m # NULL PROVE N - Cardinality(S[m]) \in 0 .. N
    <3>1. Cardinality(S[m]) \in 1 .. MaxNodes /\ MaxNodes \in Nat
      BY <1>1, <2>1, NodesAre
    <3> QED BY <3>1
  <2> QED BY <2>1, NodesAre
<1>3. up \in [Ids -> Ids] /\ \A m \in Nodes : up[m] = T.parent[m]
  <2>1. T.parent \in [Nodes -> Ids]
    BY FieldsAre DEF Tied
  <2> QED BY <2>1, NodesAre
<1>4. ASSUME NEW m \in Ids, m \notin {NULL} PROVE h[up[m]] < h[m]
  <2>1. m \in Nodes /\ up[m] = T.parent[m] /\ h[m] = N - Cardinality(S[m]) /\ Cardinality(S[m]) \in 1 .. MaxNodes
    BY <1>1, <1>3, <1>4, NodesAre
  <2>2. CASE T.parent[m] = NULL
    <3>1. h[up[m]] = 0
      BY <2>1, <2>2, NodesAre
    <3> QED BY <2>1, <3>1, NodesAre
  <2>3. CASE T.parent[m] # NULL
    <3> DEFINE p == T.parent[m]
    <3>1. m \in S[T.root]
      BY <2>1, <2>3 DEF Tied, Linked
    <3>2. p \in Nodes /\ \E s \in Sides : T[s][p] = m
      BY <2>3, <3>1, InsideIs
    <3>3. Cardinality(S[m]) < Cardinality(S[p])
      BY <3>2, ChildIs
    <3>4. h[up[m]] = N - Cardinality(S[p]) /\ Cardinality(S[p]) \in 1 .. MaxNodes
      BY <1>1, <2>1, <3>2, NodesAre
    <3> HIDE DEF h
    <3> QED BY <2>1, <3>3, <3>4, NodesAre
  <2> QED BY <2>2, <2>3
<1>5. \A m \in Ids : Color(T, m) \in Nat
  BY NodesAre DEF Color, Colored, RED, BLACK
<1>6. v \in [Ids -> Nat] /\ w \in [Ids -> [Nat -> Nat]]
  BY <1>5
<1>7. PICK U : Follows(U, Ids, Nat, {NULL}, v, w, up)
  <2> HIDE DEF h, up, v, w, N
  <2> QED BY <1>2, <1>3, <1>4, <1>6, PathExists
<1>8. U \in [Ids -> Nat] /\ \A m \in Ids : U[m] = IF m = NULL THEN 0 ELSE Color(T, m) + U[T.parent[m]]
  <2>1. U \in [Ids -> Nat] /\ \A m \in Ids : U[m] = IF m \in {NULL} THEN v[m] ELSE w[m][U[up[m]]]
    BY <1>7 DEF Follows
  <2>2. \A m \in Ids : v[m] = 0 /\ \A y \in Nat : w[m][y] = Color(T, m) + y
    OBVIOUS
  <2>3. \A m \in Ids : m # NULL => m \in Nodes
    BY NodesAre
  <2> HIDE DEF v, w, up
  <2> QED BY <1>3, <2>1, <2>2, <2>3
<1>9. Counts(T, U)
  BY <1>8 DEF Counts
<1> QED BY <1>8, <1>9

\* Where a child is missing, as many black nodes lie above as below the root.
LEMMA CountsAre ==
    ASSUME NEW T, NEW S, NEW K, Repaired(T, S, K), NEW H, Heights(T, H, {}, NULL),
           NEW U, Counts(T, U), NEW n \in S[T.root], NULL \in {T.left[n], T.right[n]}
    PROVE  U[n] = H[T.root]
<1>1. Tied(T, S, K) /\ Colored(T, S)
  BY DEF Repaired
<1> DEFINE root == H[T.root]
           Q == {m \in S[T.root] : U[m] \in Nat /\ U[m] + H[m] = root + T.rank[m]}
<1>2. ASSUME NEW m \in Nodes
      PROVE  /\ T.rank[m] \in Nat /\ H[m] \in Nat /\ m \in Ids
             /\ U[m] = T.rank[m] + U[T.parent[m]] /\ U[NULL] = 0 /\ T.parent[m] \in Ids
             /\ \A s \in Sides : H[m] = T.rank[m] + H[T[s][m]] /\ H[T[s][m]] \in Nat
  <2>1. U[NULL] = 0 /\ U[m] = T.rank[m] + U[T.parent[m]] /\ m \in Ids
    BY NodesAre DEF Counts, Color
  <2>2. m # NULL /\ \A s \in Sides : Due({}, T[s][m]) = 0
    BY NodesAre DEF Due
  <2>3. T.rank[m] \in {0, 1} /\ H[m] \in Nat /\ \A s \in Sides : H[m] = T.rank[m] + H[T[s][m]] /\ H[T[s][m]] \in Nat
    <3>1. /\ H[m] \in Nat /\ T.rank[m] \in {0, 1} /\ Weight(T, NULL, m) = T.rank[m]
          /\ \A s \in Sides : H[T[s][m]] \in Nat /\ H[m] = Weight(T, NULL, m) + H[T[s][m]] + Due({}, T[s][m])
      BY <1>1, <2>2, HeightsAre
    <3> QED BY <2>2, <3>1
  <2>4. T.parent[m] \in Ids
    BY <1>1, FieldsAre DEF Tied
  <2> QED BY <2>1, <2>3, <2>4
<1>3. T.root # NULL => T.root \in Q
  <2> SUFFICES ASSUME T.root # NULL PROVE T.root \in Q
    OBVIOUS
  <2>1. T.root \in S[T.root] /\ T.root \in Nodes /\ T.parent[T.root] = NULL
    BY <1>1, InsideIs
  <2>2. U[T.root] = T.rank[T.root] + 0 /\ T.rank[T.root] \in Nat /\ H[T.root] \in Nat
    BY <1>2, <2>1
  <2> QED BY <2>1, <2>2
<1>4. ASSUME NEW m \in S[T.root], m # T.root /\ T.parent[m] \in Q PROVE m \in Q
  <2> DEFINE p == T.parent[m]
  <2>1. m \in Nodes /\ p \in Nodes /\ \E s \in Sides : T[s][p] = m
    BY <1>1, <1>4, InsideIs
  <2>2. H[p] = T.rank[p] + H[m] /\ H[p] \in Nat /\ T.rank[p] \in Nat
    BY <1>2, <2>1
  <2>3. U[m] = T.rank[m] + U[p] /\ T.rank[m] \in Nat /\ H[m] \in Nat
    BY <1>2, <2>1
  <2>4. U[p] \in Nat /\ U[p] + H[p] = root + T.rank[p]
    BY <1>4
  <2>5. root \in Nat
    BY <1>1, InsideIs DEF Heights
  <2> HIDE DEF p, root
  <2>6. U[m] \in Nat /\ U[m] + H[m] = root + T.rank[m]
    BY <2>2, <2>3, <2>4, <2>5
  <2> QED BY <2>6
<1>5. S[T.root] \subseteq Q
  <2> HIDE DEF Q
  <2> QED BY <1>1, <1>3, <1>4, DownInduction
<1>6. n \in Nodes /\ U[n] \in Nat /\ U[n] + H[n] = root + T.rank[n] /\ root \in Nat
  BY <1>1, <1>5, InsideIs DEF Heights
<1>7. H[n] = T.rank[n] + H[NULL] /\ H[NULL] = 0
  <2>1. PICK s \in Sides : T[s][n] = NULL
    BY DEF Sides
  <2> QED BY <1>2, <1>6, <2>1 DEF Heights
<1>8. T.rank[n] \in Nat
  BY <1>2, <1>6
<1> HIDE DEF root
<1>9. U[n] = root
  BY <1>6, <1>7, <1>8
<1> QED BY <1>9 DEF root

-----------------------------------------------------------------------------
\* What that shows.

\* Every field of a node in use refers to nodes in use: no call of RBBinaryTree leaves a link
\* to a freed node behind.
THEOREM TypeCorrect == Spec => []TypeOK
<1>1. IInv => TypeOK
  <2> SUFFICES ASSUME IInv PROVE TypeOK
    OBVIOUS
  <2>1. PICK S : Sound(tree, S)
    BY DEF IInv
  <2>2. /\ Tied(tree, S, tree.data) /\ Colored(tree, S) /\ tree \in Trees /\ tree.used \in SUBSET Nodes
        /\ IsFiniteSet(tree.used) /\ S[tree.root] \subseteq tree.used
    BY <2>1, SoundIs
  <2>3. tree.root \in {NULL} \cup tree.used
    BY <2>2, InsideIs
  <2>4. tree.nodeCount \in Nat
    BY <2>1, <2>2, FS_CardinalityType DEF Sound
  <2>5. ASSUME NEW n \in tree.used
        PROVE  /\ {tree.left[n], tree.right[n], tree.parent[n]} \subseteq {NULL} \cup tree.used
               /\ tree.data[n] \in Data /\ tree.rank[n] \in Nat
    <3>1. n \in Nodes /\ tree.data[n] \in Data /\ tree.rank[n] \in Nat
      BY <2>1, <2>2 DEF Sound, Colored, RED, BLACK
    <3>2. \A q \in Sides : tree[q][n] # NULL => tree[q][n] \in S[tree.root]
      BY <2>2, <3>1, InsideIs
    <3>3. tree.left[n] \in {NULL} \cup tree.used /\ tree.right[n] \in {NULL} \cup tree.used
      BY <2>2, <3>2 DEF Sides
    <3>4. tree.parent[n] \in {NULL} \cup tree.used
      <4>1. CASE n \in S[tree.root]
        BY <2>2, <4>1, InsideIs
      <4>2. CASE n \notin S[tree.root]
        BY <2>2, <3>1, <4>2 DEF Tied, Linked
      <4> QED BY <4>1, <4>2
    <3> QED BY <3>1, <3>3, <3>4
  <2>6. IsAnswer(reply) /\ kind \in {"RB", "AVL"}
    BY DEF IInv
  <2> QED BY <2>2, <2>3, <2>4, <2>5, <2>6 DEF TypeOK
<1> QED BY <1>1, IInvHolds, PTL

\* The parent of a child is its parent after every rotation, replacement and exchange, the tree
\* holds no node that was freed, and nodeCount counts the nodes that were not.
THEOREM LinksAgreeAlways == Spec => []LinksAgree
<1>1. IInv /\ TypeOK => LinksAgree
  <2> SUFFICES ASSUME IInv, TypeOK PROVE LinksAgree
    OBVIOUS
  <2>1. PICK S : Sound(tree, S)
    BY DEF IInv
  <2>2. Tied(tree, S, tree.data) /\ S[tree.root] \subseteq tree.used /\ tree.root \in Ids
    BY <2>1, SoundIs, InsideIs
  <2>3. InTree(tree) = S[tree.root]
    BY <2>2, BelowIs DEF InTree
  <2>4. /\ InTree(tree) \subseteq tree.used /\ InTree(tree) \subseteq Nodes
        /\ tree.nodeCount = Cardinality(tree.used)
    BY <2>1, <2>2, <2>3, InsideIs DEF Sound
  <2> QED BY <2>2, <2>4 DEF LinksAgree, Tied, Linked, Sides
<1> QED BY <1>1, IInvHolds, TypeCorrect, PTL

\* RBBinaryTreeVerifyProperties: the root is black, no red node is next to another one, and every
\* way to a missing child meets as many black nodes, however far the repair climbs.
THEOREM VerifyPropertiesCorrect == Spec => [](kind = "RB" /\ VerifyProperties)
<1>1. IInv => kind = "RB" /\ VerifyProperties
  <2> SUFFICES ASSUME IInv PROVE VerifyProperties
    BY DEF IInv
  <2> DEFINE T == tree
  <2>1. PICK S : Sound(T, S)
    BY DEF IInv
  <2>2. Tied(T, S, T.data) /\ Colored(T, S) /\ Repaired(T, S, T.data) /\ Reds(T, NULL, NULL)
    BY <2>1, SoundIs DEF Sound, Repaired
  <2>3. PICK H : Heights(T, H, {}, NULL)
    BY <2>2 DEF Repaired
  <2>4. InTree(T) = S[T.root] /\ T.root \in Ids
    BY <2>2, InsideIs, BelowIs DEF InTree
  <2>5. Color(T, T.root) = BLACK
    BY <2>2 DEF Repaired, Color
  <2>6. ASSUME NEW n \in S[T.root], Color(T, n) = RED
        PROVE  {Color(T, T.left[n]), Color(T, T.right[n]), Color(T, T.parent[n])} = {BLACK}
    <3>1. n \in Nodes /\ T.rank[n] = RED /\ n # NULL
      <4>1. n \in Nodes /\ n # NULL
        BY <2>2, InsideIs, NodesAre
      <4> QED BY <2>6, <4>1 DEF Color
    <3>2. \A m \in Ids : Color(T, m) \in {RED, BLACK}
      BY <2>2, NodesAre DEF Color, Colored
    <3>3. \A s \in Sides : T[s][n] \in Ids
      BY <2>2, <3>1, ChildIs
    <3>4. ASSUME NEW s \in Sides PROVE Color(T, T[s][n]) = BLACK
      <4>1. CASE T[s][n] = NULL
        BY <4>1 DEF Color
      <4>2. CASE T[s][n] # NULL
        <5>1. T[s][n] \in Nodes
          BY <2>2, <3>1, <4>2, ChildIs
        <5>2. T.rank[T[s][n]] # RED
          BY <2>2, <3>1, <4>2 DEF Reds
        <5> QED BY <2>2, <4>2, <5>1, <5>2 DEF Color, Colored
      <4> QED BY <4>1, <4>2
    <3>5. Color(T, T.parent[n]) = BLACK
      <4>1. CASE T.parent[n] = NULL
        BY <4>1 DEF Color
      <4>2. CASE T.parent[n] # NULL
        <5> DEFINE p == T.parent[n]
        <5>1. p \in Nodes /\ \E s \in Sides : T[s][p] = n
          BY <2>2, <4>2, InsideIs
        <5>2. PICK s \in Sides : T[s][p] = n
          BY <5>1
        <5>3. T.rank[p] # RED
          BY <2>2, <3>1, <5>1, <5>2, NodesAre DEF Reds
        <5> QED BY <2>2, <4>2, <5>1, <5>3 DEF Color, Colored
      <4> QED BY <4>1, <4>2
    <3>6. Color(T, T.left[n]) = BLACK /\ Color(T, T.right[n]) = BLACK
      BY <3>4 DEF Sides
    <3> QED BY <3>5, <3>6
  <2>7. ASSUME NEW n \in S[T.root], NULL \in {T.left[n], T.right[n]} PROVE BlackAbove(n) = H[T.root]
    <3> DEFINE E(f) == [m \in Ids |-> IF m = NULL THEN 0 ELSE Color(tree, m) + f[tree.parent[m]]]
               up == CHOOSE f : f = E(f)
    <3>1. PICK U \in [Ids -> Nat] : Counts(T, U)
      BY <2>2, CountsExist
    <3>2. \A f : f = E(f) <=> Counts(T, f)
      BY DEF Counts
    <3>3. up = E(up)
      <4> HIDE DEF E, T
      <4> QED BY <3>1, <3>2
    <3>4. BlackAbove(n) = up[n]
      BY DEF BlackAbove, Ids
    <3>5. Counts(T, up)
      BY <3>2, <3>3
    <3> HIDE DEF up, E
    <3>6. up[n] = H[T.root]
      BY <2>2, <2>3, <2>7, <3>5, CountsAre
    <3> QED BY <3>4, <3>6
  <2>8. \A n \in InTree(T) : Color(T, n) \in {RED, BLACK}
    BY <2>2, <2>4, InsideIs DEF Color, Colored
  <2> QED BY <2>4, <2>5, <2>6, <2>7, <2>8 DEF VerifyProperties
<1> QED BY <1>1, IInvHolds, PTL

\* Begin and Next visit every node in ascending order, Last and Prev the same way back, although
\* they find their way by the parent links alone.
THEOREM VisitsInOrderCorrect == Spec => []VisitsInOrder
<1>1. IInv => VisitsInOrder
  <2> SUFFICES ASSUME IInv PROVE VisitsInOrder
    OBVIOUS
  <2>1. PICK S : Sound(tree, S)
    BY DEF IInv
  <2>2. WalksInOrder(tree)
    BY <2>1, SoundIs, WalksAre
  <2> QED BY <2>2 DEF VisitsInOrder
<1> QED BY <1>1, IInvHolds, PTL

\* Every insertion, removal and search is one of the set the tree stands for, and answers as
\* the set does: repair and exchange neither lose nor double nor invent a value.
THEOREM SortedSetCorrect == Spec => IsSortedSet
<1>1. Init => Promised!Init
  <2> SUFFICES ASSUME Init PROVE Promised!Init
    OBVIOUS
  <2>1. Contents(tree) = {}
    BY InitSound, ContentsWith
  <2> QED BY <2>1 DEF Promised!Init, Init, Opened, NoAnswer, Promised!NoAnswer, Answer, Promised!Answer
<1>2. IInv /\ [Next]_vars => [Promised!Next]_<<Contents(tree), reply>>
  <2> SUFFICES ASSUME IInv, [Next]_vars PROVE [Promised!Next]_<<Contents(tree), reply>>
    OBVIOUS
  <2>1. CASE UNCHANGED vars
    <3>1. tree' = tree /\ reply' = reply
      BY <2>1 DEF vars
    <3>2. Contents(tree') = Contents(tree)
      BY <3>1
    <3> QED BY <3>1, <3>2
  <2>2. CASE Next
    <3>1. PICK d \in Data : Calls(d)
      BY <2>2 DEF Next
    <3>2. PICK S : Sound(tree, S)
      BY DEF IInv
    <3>3. Called(tree, S, tree', reply', d)
      BY <3>1, <3>2, CallIs
    <3>4. Contents(tree) = Keys(tree, S)
      BY <3>2, SoundContents
    <3> DEFINE V == Contents(tree)
               W == Contents(tree')
    <3>5. \/ reply' = Answer("Insert", d, d \notin V) /\ W = V \cup {d}
          \/ reply' = Answer("Insert", d, FALSE) /\ W = V
          \/ reply' = Answer("Remove", d, d \in V) /\ W = V \ {d}
          \/ reply' = Answer("Find", d, d \in V) /\ W = V
      <4>1. CASE reply' = Answer("Insert", d, d \notin V) /\ SoundWith(tree', V \cup {d})
        BY <4>1, ContentsWith
      <4>2. CASE reply' = Answer("Insert", d, FALSE) /\ tree' = tree
        BY <4>2
      <4>3. CASE reply' = Answer("Remove", d, d \in V) /\ SoundWith(tree', V \ {d})
        BY <4>3, ContentsWith
      <4>4. CASE reply' = Answer("Find", d, d \in V) /\ tree' = tree
        BY <4>4
      <4> QED BY <3>3, <3>4, <4>1, <4>2, <4>3, <4>4 DEF Called
    <3> HIDE DEF V, W
    <3>6. reply'.data = d
      BY <3>5 DEF Answer
    <3>7. Promised!Insert(d) \/ Promised!Remove(d) \/ Promised!Find(d)
      <4>1. CASE reply' = Answer("Insert", d, d \notin V) /\ W = V \cup {d}
        <5>1. CASE d \in V
          <6>1. W = V /\ (d \notin V) = FALSE
            BY <4>1, <5>1
          <6> QED BY <4>1, <6>1 DEF Promised!Insert, V, W, Answer, Promised!Answer
        <5>2. CASE d \notin V
          <6>1. (d \notin V) = TRUE
            BY <5>2
          <6> QED BY <4>1, <5>2, <6>1 DEF Promised!Insert, V, W, Answer, Promised!Answer
        <5> QED BY <5>1, <5>2
      <4>2. CASE reply' = Answer("Insert", d, FALSE) /\ W = V
        BY <4>2 DEF Promised!Insert, V, W, Answer, Promised!Answer
      <4>3. CASE reply' = Answer("Remove", d, d \in V) /\ W = V \ {d}
        BY <4>3 DEF Promised!Remove, V, W, Answer, Promised!Answer
      <4>4. CASE reply' = Answer("Find", d, d \in V) /\ W = V
        BY <4>4 DEF Promised!Find, V, W, Answer, Promised!Answer
      <4> QED BY <3>5, <4>1, <4>2, <4>3, <4>4
    <3> QED BY <3>6, <3>7 DEF Promised!Next
  <2> QED BY <2>1, <2>2
<1> QED BY <1>1, <1>2, IInvHolds, PTL DEF Spec, IsSortedSet, Promised!Spec
=============================================================================
