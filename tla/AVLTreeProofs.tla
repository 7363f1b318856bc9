---------------------------- MODULE AVLTreeProofs ----------------------------
(***************************************************************************)
(* Proofs about AVLTree, for every number of nodes and all data.           *)
(***************************************************************************)
EXTENDS AVLTree, BinaryTreeProofs

-----------------------------------------------------------------------------
\* Heights.

\* Subtrees of heights a and b make one of height k, and differ by one at most.
Lies(k, a, b) == a \in Nat /\ b \in Nat /\ a - b \in -1 .. 1 /\ k = Max2(a, b) + 1

Level(T, m) == Lies(T.rank[m], Height(T, T["left"][m]), Height(T, T["right"][m]))

\* Left and right make no difference to that.
LEMMA LevelIs ==
    ASSUME NEW T, NEW m, NEW s \in Sides
    PROVE  Level(T, m) <=> Lies(T.rank[m], Height(T, T[s][m]), Height(T, T[Other(s)][m]))
<1> DEFINE a == Height(T, T["left"][m])
           b == Height(T, T["right"][m])
<1>1. Lies(T.rank[m], a, b) <=> Lies(T.rank[m], b, a)
  BY DEF Lies, Max2
<1> HIDE DEF a, b
<1>2. s = "left" \/ s = "right"
  BY DEF Sides
<1> QED BY <1>1, <1>2 DEF Level, Other, a, b

\* Heights are numbers.
LEMMA LevelHeights ==
    ASSUME NEW T, NEW m, Level(T, m), NEW s \in Sides
    PROVE  /\ Height(T, T[s][m]) \in Nat /\ T.rank[m] \in Nat /\ T.rank[m] > Height(T, T[s][m])
           /\ T.rank[m] <= Height(T, T[s][m]) + 2
<1>1. Lies(T.rank[m], Height(T, T[s][m]), Height(T, T[Other(s)][m]))
  BY LevelIs
<1> QED BY <1>1 DEF Lies, Max2

\* The rank of n is made of those of its children.
Measured(T, A, n) ==
    /\ A \in Trees /\ SameLinks(T, A) /\ SameRest(T, A)
    /\ \A s \in Sides : A.rank[n] = Max2(Height(T, T[s][n]), Height(T, T[Other(s)][n])) + 1
    /\ \A m \in Nodes : m # n => A.rank[m] = T.rank[m]

\* A missing subtree has the height 0.
LEMMA HeightIs ==
    ASSUME NEW T \in Trees
    PROVE  Height(T, NULL) = 0 /\ \A n \in Nodes : Height(T, n) = T.rank[n]
BY NodesAre DEF Height

\* What Measure does.
LEMMA MeasureIs ==
    ASSUME NEW T \in Trees, NEW n \in Nodes
    PROVE  Measured(T, Measure(T, n), n)
<1> DEFINE a == Height(T, T.left[n])
           b == Height(T, T.right[n])
           k == Max2(a, b) + 1
           A == [T EXCEPT !.rank[n] = k]
<1>1. \A x \in Ids : Height(T, x) \in Int
  BY NodesAre DEF Height, Trees
<1>2. a \in Int /\ b \in Int
  BY <1>1 DEF Trees
<1>3. Measure(T, n) = A
  BY DEF Measure
<1>4. k \in Int /\ k = Max2(b, a) + 1
  BY <1>2 DEF Max2
<1>5. T.rank \in [Nodes -> Int]
  BY DEF Trees
<1> HIDE DEF k
<1>6. /\ A \in Trees /\ A.root = T.root /\ A.left = T.left /\ A.right = T.right /\ A.parent = T.parent
      /\ A.used = T.used /\ A.nodeCount = T.nodeCount /\ A.data = T.data
      /\ A.rank = [T.rank EXCEPT ![n] = k]
  BY <1>4, <1>5 DEF Trees
<1> HIDE DEF A
<1>7. SameLinks(T, A) /\ SameRest(T, A)
  BY <1>6 DEF SameLinks, SameRest, Sides
<1>8. ASSUME NEW s \in Sides PROVE A.rank[n] = Max2(Height(T, T[s][n]), Height(T, T[Other(s)][n])) + 1
  <2>1. A.rank[n] = k
    BY <1>5, <1>6
  <2>2. CASE s = "left"
    <3>1. T[s][n] = T.left[n] /\ T[Other(s)][n] = T.right[n]
      BY <2>2 DEF Other
    <3> QED BY <2>1, <3>1 DEF k
  <2>3. CASE s = "right"
    <3>1. T[s][n] = T.right[n] /\ T[Other(s)][n] = T.left[n]
      BY <2>3 DEF Other
    <3> QED BY <1>4, <2>1, <3>1
  <2> QED BY <2>2, <2>3 DEF Sides
<1>9. \A m \in Nodes : m # n => A.rank[m] = T.rank[m]
  BY <1>5, <1>6
<1> QED BY <1>3, <1>6, <1>7, <1>8, <1>9 DEF Measured

-----------------------------------------------------------------------------
\* Places in the tree.

\* n, or NULL, hangs on side q of p; on top of the tree p is NULL.
At(T, p, q, n) == q \in Sides /\ IF p = NULL THEN T.root = n ELSE p \in Nodes /\ T[q][p] = n

\* r hangs there now.
Hang(A, p, q, r) == IF p = NULL THEN [A EXCEPT !.root = r] ELSE Attach(A, p, q, r)

Hanged(A, C, p, q, r) ==
    /\ C \in Trees /\ SameRest(A, C) /\ C.rank = A.rank
    /\ C.root = IF p = NULL THEN r ELSE A.root
    /\ \A m \in Nodes, s \in Sides : C[s][m] = IF m = p /\ s = q THEN r ELSE A[s][m]
    /\ \A m \in Nodes : C.parent[m] = IF p # NULL /\ m = r THEN p ELSE A.parent[m]

\* What a caller does with the subtree it is handed back.
LEMMA HangIs ==
    ASSUME NEW A \in Trees, NEW p \in Ids, NEW q \in Sides, NEW r \in Ids
    PROVE  Hanged(A, Hang(A, p, q, r), p, q, r)
<1> DEFINE C == Hang(A, p, q, r)
<1> SUFFICES Hanged(A, C, p, q, r)
  OBVIOUS
<1>1. CASE p = NULL
  <2> DEFINE B == [A EXCEPT !.root = r]
  <2>1. C = B
    BY <1>1 DEF Hang
  <2>2. /\ B \in Trees /\ B.root = r /\ B.left = A.left /\ B.right = A.right /\ B.parent = A.parent
        /\ B.used = A.used /\ B.nodeCount = A.nodeCount /\ B.data = A.data /\ B.rank = A.rank
    BY DEF Trees
  <2> HIDE DEF B
  <2>3. \A s \in Sides : B[s] = A[s]
    BY <2>2 DEF Sides
  <2> QED BY <1>1, <2>1, <2>2, <2>3, NodesAre DEF Hanged, SameRest
<1>2. CASE p # NULL
  <2>1. p \in Nodes
    BY <1>2, NodesAre
  <2>2. C = Attach(A, p, q, r)
    BY <1>2 DEF Hang
  <2>3. Attached(A, C, p, q, r)
    BY <2>1, <2>2, AttachIs
  <2> HIDE DEF C
  <2> QED BY <1>2, <2>3 DEF Hanged, Attached
<1> QED BY <1>1, <1>2

\* A node has one place.
LEMMA PlaceIs ==
    ASSUME NEW T, NEW S, NEW K, Tied(T, S, K), NEW p \in Ids, NEW q, NEW n \in Nodes, At(T, p, q, n)
    PROVE  /\ T.parent[n] = p /\ n \in S[T.root] /\ q \in Sides /\ n # p
           /\ \A m \in Nodes, s \in Sides : T[s][m] = n => m = p /\ s = q
           /\ p # NULL => p \in S[T.root] /\ T.root # n /\ p \notin S[n]
           /\ p = NULL => T.root = n
<1>1. n # NULL /\ q \in Sides
  BY NodesAre DEF At
<1>2. CASE p = NULL
  <2>1. T.root = n
    BY <1>2 DEF At
  <2>2. T.parent[n] = NULL /\ n \in S[T.root]
    BY <1>1, <2>1, InsideIs
  <2>3. ASSUME NEW m \in Nodes, NEW s \in Sides, T[s][m] = n PROVE FALSE
    <3>1. T.parent[n] = m
      BY <1>1, <2>3, HangsIs
    <3> QED BY <2>2, <3>1, NodesAre
  <2> QED BY <1>1, <1>2, <2>1, <2>2, <2>3, NodesAre
<1>3. CASE p # NULL
  <2>1. p \in Nodes /\ T[q][p] = n
    BY <1>3 DEF At
  <2>2. T.parent[n] = p /\ p # n /\ p \notin S[n]
    BY <1>1, <2>1, HangsIs
  <2>3. p \in S[T.root] /\ n \in S[T.root] /\ T.root # n
    BY <1>1, <1>3, <2>1, <2>2, InsideIs
  <2>4. ASSUME NEW m \in Nodes, NEW s \in Sides, T[s][m] = n PROVE m = p /\ s = q
    <3>1. m = p
      BY <1>1, <2>2, <2>4, HangsIs
    <3>2. CASE s # q
      <4>1. s = Other(q) /\ n \in S[T[q][p]] /\ n \in S[T[Other(q)][p]]
        BY <1>1, <2>1, <2>4, <3>1, <3>2, SidesAre, SelfIs
      <4>2. \A a \in S[T[q][p]] : a \notin S[T[Other(q)][p]]
        BY <1>1, <2>1, ChildIs
      <4> QED BY <4>1, <4>2
    <3> QED BY <3>1, <3>2
  <2> QED BY <1>1, <1>3, <2>1, <2>2, <2>3, <2>4
<1> QED BY <1>2, <1>3

-----------------------------------------------------------------------------
\* Rotations.

\* n and its child r on the other side have changed places, and are measured.  The link to n is
\* still as it was.
Spun(T, A, n, s) ==
    LET r == T[Other(s)][n]
        b == T[s][r]
    IN  /\ A \in Trees /\ SameRest(T, A) /\ A.root = T.root
        /\ \A m \in Nodes, q \in Sides :
              A[q][m] = IF m = n /\ q = Other(s) THEN b ELSE IF m = r /\ q = s THEN n ELSE T[q][m]
        /\ \A m \in Nodes :
              A.parent[m] = IF m = n THEN r ELSE IF m = r THEN T.parent[n] ELSE IF m = b THEN n
                            ELSE T.parent[m]
        /\ A.rank[n] = Max2(Height(T, T[s][n]), Height(T, b)) + 1
        /\ A.rank[r] = Max2(A.rank[n], Height(T, T[Other(s)][r])) + 1
        /\ \A m \in Nodes : m # n /\ m # r => A.rank[m] = T.rank[m]

\* Two nodes are linked, and their parents assigned.
LinkedUp(T, A, n, side, c, p) ==
    /\ A \in Trees /\ SameRest(T, A) /\ A.rank = T.rank /\ A.root = T.root
    /\ \A m \in Nodes, q \in Sides : A[q][m] = IF m = n /\ q = side THEN c ELSE T[q][m]
    /\ \A m \in Nodes : A.parent[m] = IF m = c THEN n ELSE IF m = n THEN p ELSE T.parent[m]

LEMMA LinkUp ==
    ASSUME NEW T \in Trees, NEW n \in Nodes, NEW side \in Sides, NEW c \in Nodes, NEW p \in Ids
    PROVE  LinkedUp(T, [T EXCEPT ![side][n] = c, !.parent[n] = p, !.parent[c] = n], n, side, c, p)
<1> DEFINE A == [T EXCEPT ![side][n] = c, !.parent[n] = p, !.parent[c] = n]
<1>1. /\ T.left \in [Nodes -> Ids] /\ T.right \in [Nodes -> Ids] /\ T.parent \in [Nodes -> Ids]
      /\ n \in Ids /\ c \in Ids
  BY NodesAre DEF Trees
<1>2. /\ A.root = T.root /\ A.used = T.used /\ A.nodeCount = T.nodeCount /\ A.data = T.data
      /\ A.rank = T.rank /\ A.parent = [T.parent EXCEPT ![n] = p, ![c] = n]
      /\ A.left = (IF side = "left" THEN [T.left EXCEPT ![n] = c] ELSE T.left)
      /\ A.right = (IF side = "right" THEN [T.right EXCEPT ![n] = c] ELSE T.right)
      /\ A \in Trees
  <2>1. CASE side = "left"
    BY <1>1, <2>1 DEF Trees
  <2>2. CASE side = "right"
    BY <1>1, <2>2 DEF Trees
  <2> QED BY <2>1, <2>2 DEF Sides
<1> HIDE DEF A
<1>3. ASSUME NEW m \in Nodes, NEW q \in Sides PROVE A[q][m] = IF m = n /\ q = side THEN c ELSE T[q][m]
  BY <1>1, <1>2 DEF Sides
<1>4. \A m \in Nodes : A.parent[m] = IF m = c THEN n ELSE IF m = n THEN p ELSE T.parent[m]
  BY <1>1, <1>2
<1>5. LinkedUp(T, A, n, side, c, p)
  BY <1>2, <1>3, <1>4 DEF LinkedUp, SameRest
<1> QED BY <1>5 DEF A

\* The subtrees that a rotation moves do not hold the nodes it turns.
LEMMA ApartIs ==
    ASSUME NEW T, NEW S, NEW K, Tied(T, S, K), NEW n \in Nodes, NEW s \in Sides, T[Other(s)][n] # NULL
    PROVE  LET r == T[Other(s)][n] IN
           \A x \in {T[s][n], T[s][r], T[Other(s)][r]} : x \in Ids /\ x # n /\ x # r
<1> DEFINE o == Other(s)
           r == T[o][n]
<1>1. /\ o \in Sides /\ Other(o) = s /\ r \in Nodes /\ r # n /\ n \notin S[r] /\ r \in S[r] /\ n \in S[n]
  <2>1. o \in Sides /\ Other(o) = s
    BY SidesAre
  <2> QED BY <2>1, HangsIs, SelfIs
<1>2. ASSUME NEW q \in Sides PROVE T[q][r] \in Ids /\ T[q][r] # n /\ T[q][r] # r
  <2>1. T[q][r] \in Ids /\ r \notin S[T[q][r]] /\ (T[q][r] # NULL => T[q][r] \in S[r] /\ T[q][r] \in S[T[q][r]])
    BY <1>1, ChildIs
  <2> QED BY <1>1, <2>1, NodesAre
<1>3. T[s][n] \in Ids /\ T[s][n] # n /\ T[s][n] # r
  <2>1. T[s][n] \in Ids /\ n \notin S[T[s][n]] /\ (T[s][n] # NULL => T[s][n] \in S[T[s][n]])
    BY HangsIs
  <2>2. \A x \in S[T[o][n]] : x \notin S[T[Other(o)][n]]
    BY <1>1, ChildIs
  <2>3. r \notin S[T[s][n]]
    BY <1>1, <2>2
  <2> HIDE DEF r
  <2> QED BY <1>1, <2>1, <2>3, NodesAre
<1> QED BY <1>1, <1>2, <1>3

\* RotateLeft and RotateRight.
LEMMA RotateIs ==
    ASSUME NEW T, NEW S, NEW K, Tied(T, S, K), NEW n \in Nodes, NEW s \in Sides, T[Other(s)][n] # NULL
    PROVE  /\ Rotate(T, n, s).node = T[Other(s)][n]
           /\ Spun(T, Rotate(T, n, s).tree, n, s)
<1> DEFINE o == Other(s)
           r == T[o][n]
           b == T[s][r]
           U == Attach(T, n, o, b)
           V == [U EXCEPT ![s][r] = n, !.parent[r] = T.parent[n], !.parent[n] = r]
           W == Measure(V, n)
           A == Measure(W, r)
<1>1. /\ o \in Sides /\ o # s /\ Other(o) = s /\ r \in Nodes /\ r # n /\ T \in Trees /\ T.parent[n] \in Ids
  <2>1. o \in Sides /\ o # s /\ Other(o) = s
    BY SidesAre
  <2>2. T \in Trees /\ T.parent[n] \in Ids
    BY FieldsAre DEF Tied
  <2>3. r \in Nodes /\ r # n
    BY <2>1, HangsIs
  <2> QED BY <2>1, <2>2, <2>3
<1>2. Rotate(T, n, s) = [tree |-> A, node |-> r]
  BY DEF Rotate
<1> DEFINE a == T[s][n]
           c == T[o][r]
<1>3. /\ b \in Ids /\ c \in Ids /\ a \in Ids /\ b # n /\ b # r /\ c # n /\ c # r /\ a # n /\ a # r
  BY ApartIs
<1> HIDE DEF o, r, b
<1>4. Attached(T, U, n, o, b)
  BY <1>1, <1>3, AttachIs
<1> HIDE DEF U
<1>5. LinkedUp(U, V, r, s, n, T.parent[n])
  <2>1. U \in Trees
    BY <1>4 DEF Attached
  <2> QED BY <1>1, <2>1, LinkUp
<1> HIDE DEF V
<1>6. Measured(V, W, n)
  BY <1>5, MeasureIs DEF LinkedUp
<1> HIDE DEF W
<1>7. Measured(W, A, r)
  BY <1>1, <1>6, MeasureIs DEF Measured
<1> HIDE DEF A
<1>8. /\ A \in Trees /\ SameRest(T, A) /\ A.root = T.root
      /\ \A m \in Nodes, q \in Sides :
            A[q][m] = V[q][m] /\ W[q][m] = V[q][m]
            /\ V[q][m] = IF m = n /\ q = o THEN b ELSE IF m = r /\ q = s THEN n ELSE T[q][m]
      /\ \A m \in Nodes :
            A.parent[m] = IF m = n THEN r ELSE IF m = r THEN T.parent[n] ELSE IF m = b THEN n
                          ELSE T.parent[m]
  <2>1. A \in Trees /\ SameRest(T, A) /\ A.root = T.root /\ \A q \in Sides : A[q] = V[q] /\ W[q] = V[q]
    BY <1>4, <1>5, <1>6, <1>7 DEF SameRest, SameLinks, Attached, LinkedUp, Measured
  <2>2. ASSUME NEW m \in Nodes, NEW q \in Sides
        PROVE  V[q][m] = IF m = n /\ q = o THEN b ELSE IF m = r /\ q = s THEN n ELSE T[q][m]
    BY <1>1, <1>4, <1>5 DEF Attached, LinkedUp
  <2>3. ASSUME NEW m \in Nodes
        PROVE A.parent[m] = IF m = n THEN r ELSE IF m = r THEN T.parent[n] ELSE IF m = b THEN n
                            ELSE T.parent[m]
    <3>1. A.parent = V.parent
      BY <1>6, <1>7 DEF SameLinks, Measured
    <3> QED BY <1>1, <1>3, <1>4, <1>5, <3>1 DEF Attached, LinkedUp
  <2> QED BY <2>1, <2>2, <2>3
<1>9. V.rank = T.rank /\ V \in Trees /\ W \in Trees
  BY <1>4, <1>5, <1>6 DEF Attached, LinkedUp, Measured
<1>10. \A x \in Ids : Height(V, x) = Height(T, x)
  BY <1>9 DEF Height
<1>11. W.rank[n] = Max2(Height(T, a), Height(T, b)) + 1 /\ \A m \in Nodes : m # n => W.rank[m] = T.rank[m]
  <2>1. V[s][n] = a /\ V[Other(s)][n] = b
    BY <1>1, <1>8 DEF o
  <2>2. W.rank[n] = Max2(Height(V, V[s][n]), Height(V, V[Other(s)][n])) + 1
    BY <1>6 DEF Measured
  <2>3. \A m \in Nodes : m # n => W.rank[m] = V.rank[m]
    BY <1>6 DEF Measured
  <2> QED BY <1>3, <1>9, <1>10, <2>1, <2>2, <2>3
<1>12. A.rank[r] = Max2(W.rank[n], Height(T, c)) + 1 /\ \A m \in Nodes : m # r => A.rank[m] = W.rank[m]
  <2>1. W[s][r] = n /\ W[Other(s)][r] = c
    BY <1>1, <1>8 DEF o
  <2>2. A.rank[r] = Max2(Height(W, W[s][r]), Height(W, W[Other(s)][r])) + 1
    BY <1>7 DEF Measured
  <2>3. Height(W, n) = W.rank[n]
    BY <1>9, HeightIs
  <2>4. Height(W, c) = Height(T, c)
    <3> HIDE DEF c
    <3> QED BY <1>3, <1>11, NodesAre DEF Height
  <2>5. \A m \in Nodes : m # r => A.rank[m] = W.rank[m]
    BY <1>7 DEF Measured
  <2> QED BY <2>1, <2>2, <2>3, <2>4, <2>5
<1>13. Spun(T, A, n, s)
  <2>1. A.rank[n] = Max2(Height(T, a), Height(T, b)) + 1 /\ A.rank[r] = Max2(A.rank[n], Height(T, c)) + 1
        /\ \A m \in Nodes : m # n /\ m # r => A.rank[m] = T.rank[m]
    BY <1>1, <1>11, <1>12
  <2> QED BY <1>8, <2>1 DEF Spun, o, r, b
<1> QED BY <1>2, <1>13 DEF o, r

\* The rotation is complete.
Turning(T, C, n, s) ==
    LET r == T[Other(s)][n]
        b == T[s][r]
    IN  /\ Rotated(T, C, n, s) /\ SameRest(T, C)
        /\ C.rank[n] = Max2(Height(T, T[s][n]), Height(T, b)) + 1
        /\ C.rank[r] = Max2(C.rank[n], Height(T, T[Other(s)][r])) + 1
        /\ \A m \in Nodes : m # n /\ m # r => C.rank[m] = T.rank[m]

\* It is when the node that went up hangs where the other one did.
LEMMA HungTurning ==
    ASSUME NEW T, NEW S, NEW K, Tied(T, S, K), NEW n \in Nodes, NEW s \in Sides, T[Other(s)][n] # NULL,
           NEW p \in Ids, NEW q, At(T, p, q, n),
           NEW A, Spun(T, A, n, s), NEW C, Hanged(A, C, p, q, T[Other(s)][n])
    PROVE  Turning(T, C, n, s)
<1> DEFINE o == Other(s)
           r == T[o][n]
           b == T[s][r]
<1>1. /\ r \in Nodes /\ r # n /\ o \in Sides /\ o # s /\ r \in S[n]
  <2>1. o \in Sides /\ o # s
    BY SidesAre
  <2> QED BY <2>1, HangsIs
<1>2. /\ T.parent[n] = p /\ q \in Sides /\ n # p /\ (p = NULL <=> T.root = n) /\ p # r
      /\ \A m \in Nodes, t \in Sides : T[t][m] = n <=> m = p /\ t = q
  <2>1. /\ T.parent[n] = p /\ q \in Sides /\ n # p
        /\ \A m \in Nodes, t \in Sides : T[t][m] = n => m = p /\ t = q
        /\ p # NULL => p \in S[T.root] /\ T.root # n /\ p \notin S[n]
        /\ p = NULL => T.root = n
    BY PlaceIs
  <2>2. p # r
    BY <1>1, <2>1, NodesAre
  <2>3. \A m \in Nodes : m = p => T[q][m] = n
    BY NodesAre DEF At
  <2> QED BY <2>1, <2>2, <2>3
<1>3. /\ C \in Trees /\ SameRest(A, C) /\ C.rank = A.rank
      /\ C.root = IF p = NULL THEN r ELSE A.root
      /\ \A m \in Nodes, t \in Sides : C[t][m] = IF m = p /\ t = q THEN r ELSE A[t][m]
      /\ \A m \in Nodes : C.parent[m] = IF p # NULL /\ m = r THEN p ELSE A.parent[m]
  BY DEF Hanged
<1>4. /\ SameRest(T, A) /\ A.root = T.root
      /\ \A m \in Nodes, t \in Sides :
              A[t][m] = IF m = n /\ t = o THEN b ELSE IF m = r /\ t = s THEN n ELSE T[t][m]
      /\ \A m \in Nodes :
              A.parent[m] = IF m = n THEN r ELSE IF m = r THEN T.parent[n] ELSE IF m = b THEN n
                            ELSE T.parent[m]
      /\ A.rank[n] = Max2(Height(T, T[s][n]), Height(T, b)) + 1
      /\ A.rank[r] = Max2(A.rank[n], Height(T, T[o][r])) + 1
      /\ \A m \in Nodes : m # n /\ m # r => A.rank[m] = T.rank[m]
  BY DEF Spun
<1> HIDE DEF b, r, o
<1>5. ASSUME NEW m \in Nodes, NEW t \in Sides
      PROVE  C[t][m] = IF m = n /\ t = o THEN b ELSE IF m = r /\ t = s THEN n
                        ELSE IF T[t][m] = n THEN r ELSE T[t][m]
  BY <1>2, <1>3, <1>4
<1>6. ASSUME NEW m \in Nodes
      PROVE  C.parent[m] = IF m = n THEN r ELSE IF m = r THEN T.parent[n] ELSE IF m = b THEN n
                            ELSE T.parent[m]
  BY <1>1, <1>2, <1>3, <1>4
<1>7. C.root = IF T.root = n THEN r ELSE T.root
  BY <1>2, <1>3, <1>4
<1>8. Rotated(T, C, n, s)
  BY <1>3, <1>5, <1>6, <1>7 DEF Rotated, o, r, b
<1>9. SameRest(T, C)
  BY <1>3, <1>4 DEF SameRest
<1> QED BY <1>3, <1>4, <1>8, <1>9 DEF Turning, o, r, b

\* A rotation leaves the levels of all other nodes.
Leveled(T, C, R, n, s, E) ==
    LET r == T[Other(s)][n]
        b == T[s][r]
    IN  /\ r \in Nodes /\ n \in Nodes /\ r # n
        /\ C[s][n] = T[s][n] /\ C[Other(s)][n] = b /\ C[s][r] = n /\ C[Other(s)][r] = T[Other(s)][r]
        /\ Height(C, n) = Max2(Height(T, T[s][n]), Height(T, b)) + 1
        /\ Height(C, r) = Max2(Height(C, n), Height(T, T[Other(s)][r])) + 1
        /\ \A x \in Ids : x # n /\ x # r => Height(C, x) = Height(T, x)
        /\ \A x \in {T[s][n], b, T[Other(s)][r]} : Height(C, x) = Height(T, x)
        /\ \A a \in R[C.root] : a \in E \cup {n, r} \/ Level(C, a)

LEMMA TurnLevels ==
    ASSUME NEW T, NEW S, NEW K, Tied(T, S, K), NEW n \in Nodes, NEW s \in Sides, T[Other(s)][n] # NULL,
           NEW C, Turning(T, C, n, s), NEW E,
           \A a \in S[T.root] : a \in E \cup {n, T[Other(s)][n]} \/ Level(T, a),
           \A a \in Nodes, t \in Sides : T[t][a] = n => a \in E
    PROVE  Leveled(T, C, Turned(T, S, n, s), n, s, E)
<1> DEFINE o == Other(s)
           r == T[o][n]
           b == T[s][r]
           R == Turned(T, S, n, s)
<1>1. /\ r \in Nodes /\ r # n /\ o \in Sides /\ o # s /\ Other(o) = s /\ T.parent[r] = n
  <2>1. o \in Sides /\ o # s /\ Other(o) = s
    BY SidesAre
  <2> QED BY <2>1, HangsIs
<1>2. Rotated(T, C, n, s) /\ C \in Trees /\ T \in Trees
  BY DEF Turning, Rotated, Tied
<1>3. R[C.root] = S[T.root] /\ S[T.root] \subseteq Nodes
  BY <1>2, RotatedTied, InsideIs
<1>4. \A m \in Nodes, t \in Sides :
          C[t][m] = IF m = n /\ t = o THEN b ELSE IF m = r /\ t = s THEN n
                    ELSE IF T[t][m] = n THEN r ELSE T[t][m]
  BY <1>2 DEF Rotated
<1>5. /\ C.rank[n] = Max2(Height(T, T[s][n]), Height(T, b)) + 1
      /\ C.rank[r] = Max2(C.rank[n], Height(T, T[o][r])) + 1
      /\ \A m \in Nodes : m # n /\ m # r => C.rank[m] = T.rank[m]
  BY DEF Turning
<1>6. \A t \in Sides : T[t][n] # n /\ T[t][r] # n
  <2>1. ASSUME NEW t \in Sides PROVE T[t][n] # n
    BY HangsIs, NodesAre
  <2>2. n \notin S[r] /\ \A t \in Sides : T[t][r] # NULL => T[t][r] \in S[r]
    <3>1. n \notin S[r]
      BY <1>1, HangsIs
    <3> HIDE DEF r
    <3> QED BY <1>1, <3>1, HangsIs
  <2> QED BY <2>1, <2>2, NodesAre
<1> HIDE DEF R, b, r, o
<1>7. C[s][n] = T[s][n] /\ C[o][n] = b /\ C[s][r] = n /\ C[o][r] = T[o][r]
  BY <1>1, <1>4, <1>6
<1>8. \A x \in Ids : x # n /\ x # r => Height(C, x) = Height(T, x)
  BY <1>5, NodesAre DEF Height
<1>9. Height(C, n) = C.rank[n] /\ Height(C, r) = C.rank[r]
  BY <1>1, <1>2, HeightIs
<1>10. ASSUME NEW a \in S[T.root], a \notin E \cup {n, r} PROVE Level(C, a)
  <2>1. a \in Nodes /\ Level(T, a)
    BY <1>3, <1>10 DEF r, o
  <2>2. ASSUME NEW t \in Sides PROVE C[t][a] = T[t][a] /\ Height(C, T[t][a]) = Height(T, T[t][a])
    <3>1. T[t][a] # n /\ T[t][a] \in Ids
      BY <1>10, <2>1, ChildIs
    <3>2. T[t][a] # r
      <4>1. CASE T[t][a] = r
        <5>1. T.parent[r] = a
          BY <1>1, <2>1, <4>1, HangsIs, NodesAre
        <5> QED BY <1>1, <1>10, <5>1
      <4> QED BY <4>1
    <3> QED BY <1>4, <1>8, <1>10, <2>1, <3>1, <3>2
  <2>3. C.rank[a] = T.rank[a]
    BY <1>5, <1>10, <2>1
  <2> QED BY <2>1, <2>2, <2>3 DEF Level, Sides
<1>11. \A x \in {T[s][n], b, T[o][r]} : Height(C, x) = Height(T, x)
  <2>1. \A x \in {T[s][n], b, T[o][r]} : x \in Ids /\ x # n /\ x # r
    BY ApartIs DEF b, r, o
  <2> QED BY <1>8, <2>1
<1> QED BY <1>1, <1>3, <1>5, <1>7, <1>8, <1>9, <1>10, <1>11 DEF Leveled, o, r, b, R

-----------------------------------------------------------------------------
\* A subtree is replaced.

\* Nodes that are not below m are as they were, but for the link to what was m.
Kept(T, S, m, p, q, C, R) ==
    \A a \in S[T.root] \ S[m] :
        /\ a \in R[C.root] /\ C.rank[a] = T.rank[a]
        /\ \A s \in Sides : (a = p /\ s = q) \/ C[s][a] = T[s][a]

\* Where m was in T there is the tree below r in C, and only nodes of E may be out of balance.
Renewed(T, S, m, p, q, C, R, K, r, E) ==
    /\ Tied(C, R, K)
    /\ At(C, p, q, r) /\ (p # NULL => C.root = T.root)
    /\ R[r] \subseteq S[m] \cup (Nodes \ S[T.root])
    /\ Kept(T, S, m, p, q, C, R)
    /\ \A a \in R[C.root] : a \in E \/ Level(C, a)

\* At the top of the new subtree, or at a child of it, n and its child r are turned.
Turns(T, S, m, p, q, X, R, K, k, E, n, s, r, top, C, W, F) ==
    /\ m \in Ids /\ p \in Ids /\ n \in Nodes /\ k \in Nodes /\ r \in Nodes /\ s \in Sides
    /\ Renewed(T, S, m, p, q, X, R, K, k, E)
    /\ X[Other(s)][n] = r /\ Turning(X, C, n, s) /\ W = Turned(X, R, n, s)
    /\ (n = k /\ top = r) \/ (top = k /\ \E h \in Sides : X[h][k] = n)
    /\ \A a \in R[X.root] : a \in E => a \in F \cup {n, r}
    /\ \A a \in Nodes, t \in Sides : X[t][a] = n => a \in F

\* Such a rotation stays in the subtree.
LEMMA TurnRenewed ==
    ASSUME NEW T, NEW S, NEW m, NEW p, NEW q, NEW X, NEW R, NEW K, NEW k, NEW E, NEW n, NEW s, NEW r, NEW top,
           NEW C, NEW W, NEW F, Turns(T, S, m, p, q, X, R, K, k, E, n, s, r, top, C, W, F)
    PROVE  /\ Renewed(T, S, m, p, q, C, W, K, top, F \cup {n, r})
           /\ W[C.root] = R[X.root]
           /\ Leveled(X, C, W, n, s, F)
<1>a. /\ m \in Ids /\ p \in Ids /\ n \in Nodes /\ k \in Nodes /\ r \in Nodes /\ s \in Sides
      /\ Renewed(T, S, m, p, q, X, R, K, k, E)
      /\ X[Other(s)][n] = r /\ Turning(X, C, n, s) /\ W = Turned(X, R, n, s)
      /\ (n = k /\ top = r) \/ (top = k /\ \E h \in Sides : X[h][k] = n)
      /\ \A a \in R[X.root] : a \in E => a \in F \cup {n, r}
      /\ \A a \in Nodes, t \in Sides : X[t][a] = n => a \in F
  BY DEF Turns
<1> USE <1>a
<1>1. /\ Tied(X, R, K) /\ At(X, p, q, k) /\ (p # NULL => X.root = T.root)
      /\ R[k] \subseteq S[m] \cup (Nodes \ S[T.root])
      /\ Kept(T, S, m, p, q, X, R)
      /\ \A a \in R[X.root] : a \in E \/ Level(X, a)
  BY DEF Renewed
<1>0. r # NULL
  BY NodesAre
<1>2. Rotated(X, C, n, s) /\ \A a \in Nodes : a # n /\ a # r => C.rank[a] = X.rank[a]
  BY DEF Turning
<1>3. Tied(C, W, K) /\ W[C.root] = R[X.root]
  BY <1>0, <1>1, <1>2, RotatedTied
<1>4. /\ R[X.root] \subseteq Nodes /\ r \in Nodes /\ r # n /\ r \in R[n] /\ n \in R[n] /\ n # NULL
      /\ Other(s) \in Sides
  <2>1. Other(s) \in Sides
    BY SidesAre
  <2> QED BY <1>0, <1>1, <2>1, HangsIs, SelfIs, InsideIs, NodesAre
<1>5. Leveled(X, C, W, n, s, F)
  <2>1. \A a \in R[X.root] : a \in F \cup {n, r} \/ Level(X, a)
    BY <1>1
  <2> QED BY <1>0, <1>1, <2>1, TurnLevels
<1> DEFINE child == \E h \in Sides : X[h][k] = n
<1>6. /\ n \in R[k] /\ r \in R[k] /\ k \in R[k] /\ R[k] \subseteq Nodes
      /\ (n = k => top = r)
      /\ (n # k => k \notin R[n] /\ R[n] \subseteq R[k] /\ k # r /\ top = k /\ child)
  <2>1. CASE n = k /\ top = r
    BY <1>1, <1>4, <2>1, SelfIs
  <2>2. CASE top = k /\ child
    <3>1. PICK h \in Sides : X[h][k] = n
      BY <2>2
    <3>2. n \in R[k] /\ R[n] \subseteq R[k] /\ k \notin R[n] /\ k \in R[k] /\ R[k] \subseteq Nodes
      BY <1>1, <1>4, <3>1, HangsIs
    <3> QED BY <1>4, <2>2, <3>2
  <2> QED BY <2>1, <2>2
<1>7. W[top] = R[k]
  <2>1. W \in [Ids -> SUBSET Nodes] /\ W[r] = R[n] /\ \A x \in Ids : x # n /\ x # r => W[x] = R[x]
    BY <1>0, <1>1, <1>4, TurnedIs
  <2>2. CASE n = k
    BY <1>6, <2>1, <2>2
  <2>3. CASE n # k
    BY <1>6, <2>1, <2>3, NodesAre
  <2> QED BY <2>2, <2>3
<1>8. \A a \in Nodes, t \in Sides : a # n /\ a # r /\ X[t][a] # n => C[t][a] = X[t][a]
  BY <1>2 DEF Rotated
<1>9. \A a \in Nodes, t \in Sides : a # n /\ a # r /\ X[t][a] = n => C[t][a] = r
  BY <1>2 DEF Rotated
<1>10. C.root = IF X.root = n THEN r ELSE X.root
  BY <1>2 DEF Rotated
<1>11. /\ p # k /\ q \in Sides /\ (p # NULL => p \notin R[k] /\ p \in Nodes /\ X.root # k /\ X[q][p] = k)
       /\ (p = NULL => X.root = k)
       /\ \A a \in Nodes, t \in Sides : X[t][a] = k => a = p /\ t = q
  <2>1. p # NULL => p \in Nodes /\ X[q][p] = k
    BY <1>1 DEF At
  <2> QED BY <1>1, <2>1, PlaceIs
<1> HIDE DEF child
<1>12. At(C, p, q, top) /\ (p # NULL => C.root = T.root)
  <2>1. CASE p = NULL
    BY <1>6, <1>10, <1>11, <2>1 DEF At
  <2>2. CASE p # NULL
    <3>1. p # n /\ p # r /\ X.root # n
      <4>1. p # n /\ p # r
        BY <1>6, <1>11, <2>2
      <4>2. CASE X.root = n
        <5>1. n # k
          BY <1>11, <2>2, <4>2
        <5>2. PICK h \in Sides : X[h][k] = n
          BY <1>6, <5>1 DEF child
        <5>3. X.parent[n] = k
          BY <1>1, <1>4, <5>2, HangsIs
        <5>4. X.parent[n] = NULL
          BY <1>1, <1>4, <4>2, InsideIs
        <5> QED BY <5>3, <5>4, NodesAre
      <4> QED BY <4>1, <4>2
    <3>2. C[q][p] = top
      <4>1. CASE n = k
        BY <1>6, <1>9, <1>11, <2>2, <3>1, <4>1
      <4>2. CASE n # k
        BY <1>6, <1>8, <1>11, <2>2, <3>1, <4>2
      <4> QED BY <4>1, <4>2
    <3> QED BY <1>1, <1>10, <1>11, <2>2, <3>1, <3>2 DEF At
  <2> QED BY <2>1, <2>2
<1>13. Kept(T, S, m, p, q, C, W)
  <2> SUFFICES ASSUME NEW a \in S[T.root] \ S[m]
               PROVE  /\ a \in W[C.root] /\ C.rank[a] = T.rank[a]
                      /\ \A t \in Sides : (a = p /\ t = q) \/ C[t][a] = T[t][a]
    BY DEF Kept
  <2>1. a \in R[X.root] /\ X.rank[a] = T.rank[a] /\ \A t \in Sides : (a = p /\ t = q) \/ X[t][a] = T[t][a]
    BY <1>1 DEF Kept
  <2>2. a \in Nodes /\ a \notin R[k] /\ a # n /\ a # r
    BY <1>1, <1>4, <1>6, <2>1
  <2>3. ASSUME NEW t \in Sides, ~(a = p /\ t = q) PROVE C[t][a] = T[t][a]
    <3>1. X[t][a] # n
      <4>1. X[t][a] # k
        BY <1>11, <2>2, <2>3
      <4>2. CASE n # k /\ X[t][a] = n
        <5>1. PICK h \in Sides : X[h][k] = n
          BY <1>6, <4>2 DEF child
        <5>2. X.parent[n] = k /\ X.parent[n] = a
          BY <1>1, <1>4, <2>2, <4>2, <5>1, HangsIs
        <5> QED BY <1>6, <2>2, <5>2
      <4> QED BY <4>1, <4>2
    <3> QED BY <1>8, <2>1, <2>2, <2>3, <3>1
  <2> QED BY <1>2, <1>3, <2>1, <2>2, <2>3
<1>14. \A a \in W[C.root] : a \in F \cup {n, r} \/ Level(C, a)
  BY <1>5 DEF Leveled
<1>15. Renewed(T, S, m, p, q, C, W, K, top, F \cup {n, r})
  BY <1>1, <1>3, <1>7, <1>12, <1>13, <1>14 DEF Renewed
<1> QED BY <1>3, <1>5, <1>15

\* A node hung where it hangs already changes nothing.
LEMMA HangSame ==
    ASSUME NEW Y, NEW R, NEW K, Tied(Y, R, K), NEW p \in Ids, NEW q, NEW n \in Ids, At(Y, p, q, n)
    PROVE  Hang(Y, p, q, n) = Y
<1> DEFINE A == Hang(Y, p, q, n)
<1>1. Y \in Trees /\ q \in Sides
  BY DEF Tied, At
<1>2. Hanged(Y, A, p, q, n)
  BY <1>1, HangIs
<1> HIDE DEF A
<1>3. A \in Trees /\ SameRest(Y, A) /\ A.rank = Y.rank
  BY <1>2 DEF Hanged
<1>4. A.root = Y.root
  BY <1>2 DEF Hanged, At
<1>5. \A m \in Nodes, s \in Sides : A[s][m] = Y[s][m]
  BY <1>2, NodesAre DEF Hanged, At
<1>6. \A m \in Nodes : A.parent[m] = Y.parent[m]
  <2>1. p # NULL /\ n # NULL => Y.parent[n] = p
    BY PlaceIs, NodesAre
  <2> QED BY <1>2, <2>1, NodesAre DEF Hanged
<1>7. A.left = Y.left /\ A.right = Y.right /\ A.parent = Y.parent
  BY <1>1, <1>3, <1>5, <1>6 DEF Trees, Sides
<1>8. A = Y
  BY <1>1, <1>3, <1>4, <1>7 DEF Trees, SameRest
<1> QED BY <1>8 DEF A

\* Balanced: nothing is turned.
LEMMA StandsIs ==
    ASSUME NEW T, NEW S, NEW m, NEW p \in Ids, NEW q, NEW Y, NEW R, NEW K, NEW n \in Nodes,
           Renewed(T, S, m, p, q, Y, R, K, n, {p, n}), Level(Y, n)
    PROVE  Hang(Y, p, q, n) = Y /\ Renewed(T, S, m, p, q, Y, R, K, n, {p})
<1>1. Hang(Y, p, q, n) = Y
  BY HangSame, NodesAre DEF Renewed
<1>2. \A a \in R[Y.root] : a \in {p} \/ Level(Y, a)
  BY DEF Renewed
<1> QED BY <1>1, <1>2 DEF Renewed

\* The subtree is C now, with the same nodes, and has the height k.
Righted(T, S, m, p, q, Y, R, K, C, top, k) ==
    /\ SameRest(Y, C) /\ Height(C, top) = k
    /\ \E W : Renewed(T, S, m, p, q, C, W, K, top, {p}) /\ W[C.root] = R[Y.root]

\* A single rotation, away from the side on which n's child k is two higher than the other one.
LEMMA OnceIs ==
    ASSUME NEW T, NEW S, NEW m \in Ids, NEW p \in Ids, NEW q,
           NEW Y, NEW R, NEW K, NEW n \in Nodes, Renewed(T, S, m, p, q, Y, R, K, n, {p, n}),
           NEW h \in Sides, NEW k \in Nodes, Y[h][n] = k, Level(Y, k),
           NEW x \in Nat, Height(Y, Y[Other(h)][n]) = x, Y.rank[k] = x + 2,
           Height(Y, Y[h][k]) >= Height(Y, Y[Other(h)][k])
    PROVE  LET res == Rotate(Y, n, Other(h)) IN
           Righted(T, S, m, p, q, Y, R, K, Hang(res.tree, p, q, res.node), res.node,
                   Height(Y, Y[Other(h)][k]) + 2)
<1> DEFINE s == Other(h)
           res == Rotate(Y, n, s)
           C == Hang(res.tree, p, q, k)
           W == Turned(Y, R, n, s)
           b == Y[s][k]
           c == Y[h][k]
<1>1. Tied(Y, R, K) /\ At(Y, p, q, n) /\ q \in Sides
  BY DEF Renewed, At
<1>2. s \in Sides /\ Other(s) = h /\ Y[Other(s)][n] = k /\ k # NULL /\ k \in Ids
  BY SidesAre, NodesAre
<1> HIDE DEF s
<1>3. res.node = k /\ Spun(Y, res.tree, n, s)
  BY <1>1, <1>2, RotateIs
<1> HIDE DEF res
<1>4. Hanged(res.tree, C, p, q, k)
  <2>1. res.tree \in Trees
    BY <1>3 DEF Spun
  <2> QED BY <1>1, <1>2, <2>1, HangIs
<1> HIDE DEF C
<1>5. Turning(Y, C, n, s)
  BY <1>1, <1>2, <1>3, <1>4, HungTurning
<1>6. \A a \in Nodes, t \in Sides : Y[t][a] = n => a \in {p}
  BY <1>1, PlaceIs
<1>7. /\ Renewed(T, S, m, p, q, C, W, K, k, {p} \cup {n, k}) /\ W[C.root] = R[Y.root]
      /\ Leveled(Y, C, W, n, s, {p})
  <2>1. Turns(T, S, m, p, q, Y, R, K, n, {p, n}, n, s, k, k, C, W, {p})
    BY <1>2, <1>5, <1>6 DEF Turns
  <2> HIDE DEF W
  <2> QED BY <2>1, TurnRenewed
<1> HIDE DEF W
<1>8. /\ C[s][n] = Y[s][n] /\ C[h][n] = b /\ C[s][k] = n /\ C[h][k] = c
      /\ Height(C, n) = Max2(Height(Y, Y[s][n]), Height(Y, b)) + 1
      /\ Height(C, k) = Max2(Height(C, n), Height(Y, c)) + 1
      /\ Height(C, Y[s][n]) = Height(Y, Y[s][n]) /\ Height(C, b) = Height(Y, b) /\ Height(C, c) = Height(Y, c)
  BY <1>2, <1>7 DEF Leveled
<1>9. Height(C, n) = C.rank[n] /\ Height(C, k) = C.rank[k]
  BY <1>4, HeightIs DEF Hanged
<1>10. Lies(Y.rank[k], Height(Y, c), Height(Y, b))
  BY LevelIs DEF s
<1> DEFINE i == Height(Y, b)
           o == Height(Y, c)
<1>11. i \in Nat /\ o = x + 1 /\ i \in {x, x + 1}
  BY <1>10 DEF Lies, Max2, s
<1>12. Height(Y, Y[s][n]) = x
  BY DEF s
<1> HIDE DEF b, c
<1>13. C.rank[n] = i + 1 /\ C.rank[k] = i + 2
  BY <1>8, <1>9, <1>11, <1>12 DEF Max2
<1>14. Level(C, n)
  <2>1. Lies(C.rank[n], Height(C, C[s][n]), Height(C, C[h][n]))
    BY <1>8, <1>11, <1>12, <1>13 DEF Lies, Max2
  <2> QED BY <1>2, <2>1, LevelIs
<1>15. Level(C, k)
  <2>1. Lies(C.rank[k], Height(C, C[s][k]), Height(C, C[h][k]))
    BY <1>8, <1>9, <1>11, <1>13 DEF Lies, Max2
  <2> QED BY <1>2, <2>1, LevelIs
<1>16. Renewed(T, S, m, p, q, C, W, K, k, {p})
  <2>1. \A a \in W[C.root] : a \in {p} \/ Level(C, a)
    BY <1>7, <1>14, <1>15 DEF Renewed
  <2> QED BY <1>7, <2>1 DEF Renewed
<1>17. SameRest(Y, C)
  BY <1>5 DEF Turning
<1>18. Righted(T, S, m, p, q, Y, R, K, C, k, i + 2)
  BY <1>7, <1>9, <1>13, <1>16, <1>17 DEF Righted
<1> QED BY <1>3, <1>18 DEF C, s, b, res

\* The link to a node that was turned, assigned alone.
LEMMA LinkTurning ==
    ASSUME NEW T, NEW S, NEW K, Tied(T, S, K), NEW n \in Nodes, NEW s \in Sides, NEW r \in Nodes, T[Other(s)][n] = r,
           NEW p \in Nodes, NEW q \in Sides, T[q][p] = n, NEW A, Spun(T, A, n, s)
    PROVE  Turning(T, [A EXCEPT ![q][p] = r], n, s)
<1> DEFINE C == [A EXCEPT ![q][p] = r]
<1>1. A \in Trees /\ r \in Ids /\ p \in Ids /\ p # NULL /\ r # NULL /\ n # NULL
  BY NodesAre DEF Spun
<1>2. LinkSet(A, C, p, q, r)
  BY <1>1, SetLink
<1> HIDE DEF C
<1>3. T.parent[n] = p /\ r # n
  <2>1. Other(s) \in Sides
    BY SidesAre
  <2> QED BY <1>1, <2>1, HangsIs
<1>4. A.parent[r] = p
  BY <1>3 DEF Spun
<1>5. Hanged(A, C, p, q, r)
  BY <1>1, <1>2, <1>4 DEF LinkSet, Hanged
<1>6. At(T, p, q, n)
  BY <1>1 DEF At
<1>7. Turning(T, C, n, s)
  BY <1>1, <1>5, <1>6, HungTurning
<1> QED BY <1>7 DEF C

\* A double rotation, when the child leans to the inside.
LEMMA TwiceIs ==
    ASSUME NEW T, NEW S, NEW m \in Ids, NEW p \in Ids, NEW q,
           NEW Y, NEW R, NEW K, NEW n \in Nodes, Renewed(T, S, m, p, q, Y, R, K, n, {p, n}),
           NEW h \in Sides, NEW k \in Nodes, Y[h][n] = k, Level(Y, k), k # p,
           NEW x \in Nat, Height(Y, Y[Other(h)][n]) = x, Y.rank[k] = x + 2,
           Height(Y, Y[h][k]) < Height(Y, Y[Other(h)][k])
    PROVE  LET res == RotateTwice(Y, n, h) IN
           Righted(T, S, m, p, q, Y, R, K, Hang(res.tree, p, q, res.node), res.node, x + 2)
<1> DEFINE o == Other(h)
           g == Y[o][k]
           inner == Rotate(Y, k, h)
           X == [inner.tree EXCEPT ![h][n] = g]
           V == Turned(Y, R, k, h)
           res == Rotate(X, n, o)
           C == Hang(res.tree, p, q, g)
           W == Turned(X, V, n, o)
<1>1. Tied(Y, R, K) /\ At(Y, p, q, n) /\ q \in Sides /\ Y \in Trees /\ \A a \in R[Y.root] : a \in {p, n} \/ Level(Y, a)
  BY DEF Renewed, At, Tied
<1>2. o \in Sides /\ Other(o) = h /\ o # h /\ n # NULL /\ k # NULL /\ k \in Ids /\ k \in R[Y.root]
  <2>1. o \in Sides /\ Other(o) = h /\ o # h
    BY SidesAre
  <2>2. n # NULL /\ k # NULL /\ k \in Ids
    BY NodesAre
  <2> QED BY <1>1, <2>1, <2>2, InsideIs
<1> HIDE DEF o
<1>3. /\ Lies(Y.rank[k], Height(Y, Y[h][k]), Height(Y, Y[o][k]))
  BY LevelIs DEF o
<1>4. Height(Y, Y[h][k]) = x /\ Height(Y, g) = x + 1
  BY <1>3 DEF Lies, Max2, o
<1>5. g \in Nodes /\ g # NULL /\ g \in Ids /\ g # k /\ g # n /\ g \in R[Y.root] /\ g # p
  <2>1. g # NULL
    BY <1>4 DEF Height
  <2>2. g \in Nodes /\ g # k /\ g \in R[Y.root] /\ g \in R[k] /\ k \in R[k]
    BY <1>1, <1>2, <2>1, HangsIs, InsideIs, SelfIs
  <2>3. n \notin R[k] /\ R[k] \subseteq R[n]
    BY <1>1, HangsIs
  <2>4. p \notin R[n] \/ p = NULL
    BY <1>1, PlaceIs
  <2> QED BY <2>1, <2>2, <2>3, <2>4, NodesAre
<1>6. Level(Y, g) /\ Y.rank[g] = x + 1
  <2>1. Height(Y, g) = Y.rank[g]
    BY <1>1, <1>5, HeightIs
  <2>2. Level(Y, g)
    BY <1>1, <1>5
  <2> HIDE DEF g
  <2> QED BY <1>4, <2>1, <2>2
<1> DEFINE b == Y[h][g]
           c == Y[o][g]
           a == Y[o][n]
<1>7. Lies(x + 1, Height(Y, b), Height(Y, c))
  BY <1>6, LevelIs DEF o
<1>8. a \in Ids /\ a # k /\ a # g /\ a # n
  <2>1. a \in Ids /\ n \notin R[a] /\ (a # NULL => a \in R[a])
    BY <1>1, <1>2, HangsIs
  <2>2. \A y \in R[Y[h][n]] : y \notin R[Y[o][n]]
    BY <1>1, ChildIs DEF o
  <2>3. k \in R[k] /\ g \in R[k]
    BY <1>1, <1>2, <1>5, HangsIs, SelfIs
  <2> HIDE DEF a, g
  <2> QED BY <1>2, <1>5, <2>1, <2>2, <2>3, NodesAre DEF a
<1>9. n # k /\ n \in R[Y.root]
  BY <1>1, HangsIs, NodesAre, PlaceIs
<1> HIDE DEF g, b, c, a
<1>10. inner.node = g /\ Spun(Y, inner.tree, k, h)
  BY <1>1, <1>5, RotateIs DEF g, o
<1> HIDE DEF inner
<1>11. RotateTwice(Y, n, h) = res
  <2>1. X = [inner.tree EXCEPT ![h][n] = inner.node]
    BY <1>10
  <2> HIDE DEF X
  <2> QED BY <2>1 DEF RotateTwice, inner, o
<1>12. Turning(Y, X, k, h)
  BY <1>1, <1>5, <1>10, LinkTurning DEF g, o
<1> HIDE DEF X
<1>13. /\ Renewed(T, S, m, p, q, X, V, K, n, {p, n} \cup {k, g}) /\ V[X.root] = R[Y.root]
       /\ Leveled(Y, X, V, k, h, {p, n})
  <2>1. \A y \in Nodes, t \in Sides : Y[t][y] = k => y \in {p, n}
    <3>1. At(Y, n, h, k)
      BY <1>2 DEF At
    <3> QED BY <1>1, <3>1, PlaceIs, NodesAre
  <2>2. \A y \in R[Y.root] : y \in {p, n} => y \in {p, n} \cup {k, g}
    OBVIOUS
  <2>3. Turns(T, S, m, p, q, Y, R, K, n, {p, n}, k, h, g, n, X, V, {p, n})
    BY <1>5, <1>12, <2>1, <2>2 DEF Turns, g, o
  <2> HIDE DEF V
  <2> QED BY <2>3, TurnRenewed
<1> HIDE DEF V
<1>14. /\ X[h][k] = Y[h][k] /\ X[o][k] = b /\ X[h][g] = k /\ X[o][g] = c
       /\ Height(X, k) = Max2(Height(Y, Y[h][k]), Height(Y, b)) + 1
       /\ Height(X, g) = Max2(Height(X, k), Height(Y, c)) + 1
       /\ Height(X, a) = Height(Y, a)
       /\ Height(X, Y[h][k]) = Height(Y, Y[h][k]) /\ Height(X, b) = Height(Y, b) /\ Height(X, c) = Height(Y, c)
  BY <1>8, <1>13 DEF Leveled, o, g, b, c
<1>15. Tied(X, V, K) /\ X \in Trees /\ Height(X, k) = X.rank[k] /\ At(X, p, q, n)
  <2>1. Tied(X, V, K) /\ X \in Trees /\ At(X, p, q, n)
    BY <1>13 DEF Renewed, Tied
  <2> QED BY <2>1, HeightIs
<1>16. X[h][n] = g /\ X[o][n] = a
  <2>1. /\ \A y \in Nodes, t \in Sides : y # k /\ y # g /\ Y[t][y] = k => X[t][y] = g
        /\ \A y \in Nodes, t \in Sides : y # k /\ y # g /\ Y[t][y] # k => X[t][y] = Y[t][y]
    BY <1>12 DEF Turning, Rotated, g, o
  <2> QED BY <1>2, <1>5, <1>8, <1>9, <2>1 DEF a
<1> DEFINE i == Height(Y, b)
           j == Height(Y, c)
<1>17. i \in Nat /\ j \in Nat /\ i <= x /\ j <= x /\ x <= i + 1 /\ x <= j + 1
  BY <1>7 DEF Lies, Max2
<1>18. Height(X, k) = x + 1 /\ Height(X, g) = x + 2 /\ Height(X, a) = x
  <2>1. Height(Y, a) = x
    BY DEF a, o
  <2> QED BY <1>4, <1>14, <1>17, <2>1 DEF Max2
<1>19. Level(X, k)
  <2>1. Lies(X.rank[k], Height(X, X[h][k]), Height(X, X[o][k]))
    BY <1>4, <1>14, <1>15, <1>17, <1>18 DEF Lies, Max2
  <2> QED BY <2>1, LevelIs DEF o
<1>20. Renewed(T, S, m, p, q, X, V, K, n, {p, n, g})
  <2>1. \A y \in V[X.root] : y \in {p, n, g} \/ Level(X, y)
    BY <1>13, <1>19 DEF Renewed
  <2> QED BY <1>13, <2>1 DEF Renewed
<1>21. res.node = g /\ Spun(X, res.tree, n, o)
  BY <1>2, <1>5, <1>15, <1>16, RotateIs
<1> HIDE DEF res
<1>22. Hanged(res.tree, C, p, q, g)
  <2>1. res.tree \in Trees
    BY <1>21 DEF Spun
  <2> QED BY <1>1, <1>5, <2>1, HangIs
<1> HIDE DEF C
<1>23. Turning(X, C, n, o)
  BY <1>2, <1>5, <1>15, <1>16, <1>21, <1>22, HungTurning
<1>24. /\ Renewed(T, S, m, p, q, C, W, K, g, {p} \cup {n, g}) /\ W[C.root] = V[X.root]
       /\ Leveled(X, C, W, n, o, {p})
  <2>1. \A y \in Nodes, t \in Sides : X[t][y] = n => y \in {p}
    BY <1>15, PlaceIs
  <2>2. \A y \in V[X.root] : y \in {p, n, g} => y \in {p} \cup {n, g}
    OBVIOUS
  <2>3. Turns(T, S, m, p, q, X, V, K, n, {p, n, g}, n, o, g, g, C, W, {p})
    BY <1>2, <1>5, <1>16, <1>20, <1>23, <2>1, <2>2 DEF Turns
  <2> HIDE DEF W
  <2> QED BY <2>3, TurnRenewed, SMTT(30)
<1> HIDE DEF W
<1>25. /\ C[o][n] = a /\ C[h][n] = c /\ C[o][g] = n /\ C[h][g] = k
       /\ Height(C, n) = Max2(Height(X, a), Height(X, c)) + 1
       /\ Height(C, g) = Max2(Height(C, n), Height(X, k)) + 1
       /\ Height(C, a) = Height(X, a) /\ Height(C, c) = Height(X, c) /\ Height(C, k) = Height(X, k)
  BY <1>2, <1>14, <1>16, <1>24 DEF Leveled
<1>26. Height(C, n) = C.rank[n] /\ Height(C, g) = C.rank[g]
  BY <1>5, <1>22, HeightIs DEF Hanged
<1>27. C.rank[n] = x + 1 /\ C.rank[g] = x + 2
  BY <1>14, <1>17, <1>18, <1>25, <1>26 DEF Max2
<1>28. Level(C, n)
  <2>1. Lies(C.rank[n], Height(C, C[o][n]), Height(C, C[h][n]))
    BY <1>14, <1>17, <1>18, <1>25, <1>27 DEF Lies, Max2
  <2> QED BY <1>2, <2>1, LevelIs
<1>29. Level(C, g)
  <2>1. Lies(C.rank[g], Height(C, C[o][g]), Height(C, C[h][g]))
    BY <1>18, <1>25, <1>26, <1>27 DEF Lies, Max2
  <2> QED BY <1>2, <2>1, LevelIs
<1>30. Renewed(T, S, m, p, q, C, W, K, g, {p})
  <2>1. \A y \in W[C.root] : y \in {p} \/ Level(C, y)
    BY <1>24, <1>28, <1>29 DEF Renewed
  <2> QED BY <1>24, <2>1 DEF Renewed
<1>31. SameRest(Y, C)
  BY <1>12, <1>23 DEF Turning, SameRest
<1>32. Righted(T, S, m, p, q, Y, R, K, C, g, x + 2)
  BY <1>13, <1>24, <1>26, <1>27, <1>30, <1>31 DEF Righted
<1>33. res = RotateTwice(Y, n, h) /\ C = Hang(res.tree, p, q, res.node)
  BY <1>11, <1>21 DEF C
<1> QED BY <1>21, <1>32, <1>33

-----------------------------------------------------------------------------
\* The way back up.

\* The same links, the same nodes below.
LEMMA SameBelow ==
    ASSUME NEW T, NEW S, NEW L, Tied(T, S, L), NEW X, NEW R, NEW K, Tied(X, R, K), NEW n \in Ids,
           \A a \in S[n], t \in Sides : X[t][a] = T[t][a]
    PROVE  R[n] = S[n]
<1> DEFINE Q == {m \in Nodes : (\A a \in S[m], t \in Sides : X[t][a] = T[t][a]) => R[m] = S[m]}
<1>1. R[NULL] = {} /\ S[NULL] = {}
  BY DEF Tied, Subtrees
<1>2. ASSUME NEW m \in Nodes, \A t \in Sides : T[t][m] # NULL => T[t][m] \in Q PROVE m \in Q
  <2> SUFFICES ASSUME \A a \in S[m], t \in Sides : X[t][a] = T[t][a] PROVE R[m] = S[m]
    OBVIOUS
  <2>1. m \in S[m]
    BY SelfIs
  <2>2. ASSUME NEW t \in Sides PROVE R[X[t][m]] = S[T[t][m]]
    <3>1. X[t][m] = T[t][m] /\ S[T[t][m]] \subseteq S[m]
      BY <2>1, HangsIs
    <3> QED BY <1>1, <1>2, <3>1
  <2>3. R[m] = {m} \cup R[X["left"][m]] \cup R[X[Other("left")][m]]
    BY DEF Tied, Subtrees, Sides
  <2>4. S[m] = {m} \cup S[T["left"][m]] \cup S[T[Other("left")][m]]
    BY DEF Tied, Subtrees, Sides
  <2> QED BY <2>2, <2>3, <2>4, SidesAre DEF Sides
<1>3. Nodes \subseteq Q
  <2> HIDE DEF Q
  <2> QED BY <1>2, TreeInduction
<1> QED BY <1>1, <1>3, NodesAre

\* The parent m of a subtree that was replaced is measured.
Climbed(T, S, m, p, q, s, X, R, K, r, Y) ==
    /\ Renewed(T, S, m, p, q, Y, R, K, m, {p, m})
    /\ SameRest(X, Y) /\ R[Y.root] = R[X.root]
    /\ Y[s][m] = r /\ Y[Other(s)][m] = T[Other(s)][m]
    /\ Height(Y, r) = Height(X, r) /\ Height(Y, T[Other(s)][m]) = Height(T, T[Other(s)][m])
    /\ Y.rank[m] = Max2(Height(X, r), Height(T, T[Other(s)][m])) + 1
    /\ \A a \in Ids : a # m => Height(Y, a) = Height(X, a)
    /\ \A t \in Sides : Y[t] = X[t]

LEMMA ClimbedIs ==
    ASSUME NEW T, NEW S, NEW L, Tied(T, S, L), NEW m \in Nodes, NEW p \in Ids, NEW q, At(T, p, q, m),
           NEW s \in Sides, NEW X, NEW R, NEW K, NEW r,
           Renewed(T, S, T[s][m], m, s, X, R, K, r, {m}), NEW Y, Measured(X, Y, m)
    PROVE  Climbed(T, S, m, p, q, s, X, R, K, r, Y)
<1> DEFINE o == Other(s)
           c == T[s][m]
           e == T[o][m]
<1>1. /\ Tied(X, R, K) /\ At(X, m, s, r) /\ (m # NULL => X.root = T.root)
      /\ R[r] \subseteq S[c] \cup (Nodes \ S[T.root])
      /\ Kept(T, S, c, m, s, X, R)
      /\ \A a \in R[X.root] : a \in {m} \/ Level(X, a)
  BY DEF Renewed
<1>2. /\ m # NULL /\ X.root = T.root /\ o \in Sides /\ o # s /\ X[s][m] = r
  BY <1>1, NodesAre, SidesAre DEF At
<1>3. /\ T.parent[m] = p /\ m \in S[T.root] /\ q \in Sides /\ m # p
      /\ (p # NULL => p \in S[T.root] /\ T.root # m /\ p \notin S[m]) /\ (p = NULL => T.root = m)
  BY PlaceIs
<1>4. /\ m \notin S[c] /\ S[c] \subseteq S[m] /\ m \in S[m] /\ S[T.root] \subseteq Nodes
      /\ S[m] = {m} \cup S[c] \cup S[e] /\ e \in Ids /\ e # m /\ m \notin S[e]
      /\ \A a \in S[c] : a \notin S[e]
      /\ S[m] \subseteq S[T.root]
      /\ (e # NULL => e \in S[e])
  <2>1. m \notin S[c] /\ S[c] \subseteq S[m] /\ m \in S[m]
    BY HangsIs
  <2>2. e \in Ids /\ (e # NULL => e # m /\ e \in S[e]) /\ m \notin S[e]
    BY <1>2, HangsIs
  <2>3. S[T.root] \subseteq Nodes /\ S[m] \subseteq S[T.root]
    BY <1>3, InsideIs
  <2>4. S[m] = {m} \cup S[c] \cup S[e] /\ \A a \in S[c] : a \notin S[e]
    BY ChildIs
  <2> QED BY <1>2, <2>1, <2>2, <2>3, <2>4
<1> HIDE DEF c, e, o
<1>5. \A a \in S[T.root] \ S[c] :
          /\ a \in R[X.root] /\ X.rank[a] = T.rank[a]
          /\ \A t \in Sides : (a = m /\ t = s) \/ X[t][a] = T[t][a]
  BY <1>1 DEF Kept
<1>6. m \in R[X.root] /\ X[o][m] = e
  BY <1>2, <1>3, <1>4, <1>5 DEF e
<1>7. At(X, p, q, m)
  <2>1. CASE p = NULL
    BY <1>2, <1>3, <2>1 DEF At
  <2>2. CASE p # NULL
    <3>1. p \in Nodes /\ T[q][p] = m
      BY <2>2 DEF At
    <3>2. X[q][p] = m
      BY <1>3, <1>4, <1>5, <2>2, <3>1
    <3> QED BY <1>3, <2>2, <3>1, <3>2 DEF At
  <2> QED BY <2>1, <2>2
<1>8. R[e] = S[e]
  <2>1. ASSUME NEW a \in S[e], NEW t \in Sides PROVE X[t][a] = T[t][a]
    BY <1>4, <1>5
  <2> QED BY <1>1, <1>4, <2>1, SameBelow
<1>9. R[m] \subseteq S[m] \cup (Nodes \ S[T.root])
  <2>1. R[m] = {m} \cup R[r] \cup R[e]
    <3>1. R[m] = {m} \cup R[X[s][m]] \cup R[X[o][m]]
      BY <1>1, ChildIs DEF o
    <3> QED BY <1>2, <1>6, <3>1
  <2> QED BY <1>1, <1>4, <1>8, <2>1
<1>10. /\ Y \in Trees /\ SameLinks(X, Y) /\ SameRest(X, Y) /\ X \in Trees
       /\ Y.rank[m] = Max2(Height(X, X[s][m]), Height(X, X[o][m])) + 1
       /\ \A a \in Nodes : a # m => Y.rank[a] = X.rank[a]
  BY <1>1 DEF Measured, Tied, o
<1>11. Tied(Y, R, K)
  <2>1. K \in [Nodes -> Int]
    BY <1>1 DEF Tied, Ordered
  <2> QED BY <1>1, <1>10, <2>1, TiedAgain
<1>12. Y.root = T.root /\ Y.parent = X.parent /\ \A t \in Sides : Y[t] = X[t]
  BY <1>2, <1>10 DEF SameLinks
<1>13. \A a \in Ids : a # m => Height(Y, a) = Height(X, a)
  BY <1>10, NodesAre DEF Height
<1>14. r # m /\ r \in Ids
  BY <1>1, <1>2, HangsIs, NodesAre
<1>15. Height(X, e) = Height(T, e)
  <2>1. CASE e = NULL
    BY <2>1 DEF Height
  <2>2. CASE e # NULL
    <3>1. X.rank[e] = T.rank[e]
      BY <1>4, <1>5, <2>2
    <3> QED BY <2>2, <3>1 DEF Height
  <2> QED BY <2>1, <2>2
<1>16. At(Y, p, q, m)
  BY <1>2, <1>7, <1>12 DEF At
<1>17. Kept(T, S, m, p, q, Y, R)
  <2> SUFFICES ASSUME NEW a \in S[T.root] \ S[m]
               PROVE  /\ a \in R[Y.root] /\ Y.rank[a] = T.rank[a]
                      /\ \A t \in Sides : (a = p /\ t = q) \/ Y[t][a] = T[t][a]
    BY DEF Kept
  <2>1. a \in S[T.root] \ S[c] /\ a # m /\ a \in Nodes
    BY <1>4
  <2> QED BY <1>2, <1>5, <1>10, <1>12, <2>1
<1>18. \A a \in R[Y.root] : a \in {p, m} \/ Level(Y, a)
  <2> SUFFICES ASSUME NEW a \in R[X.root], a # p, a # m PROVE Level(Y, a)
    BY <1>2, <1>12
  <2>1. a \in Nodes /\ Level(X, a)
    BY <1>1, InsideIs
  <2>2. ASSUME NEW t \in Sides PROVE Y[t][a] = X[t][a] /\ Height(Y, X[t][a]) = Height(X, X[t][a])
    <3>1. X[t][a] # m /\ X[t][a] \in Ids
      BY <1>1, <1>7, <2>1, PlaceIs, HangsIs
    <3> QED BY <1>12, <1>13, <3>1
  <2>3. Y.rank[a] = X.rank[a]
    BY <1>10, <2>1
  <2> QED BY <2>1, <2>2, <2>3 DEF Level, Sides
<1>19. Renewed(T, S, m, p, q, Y, R, K, m, {p, m})
  BY <1>9, <1>11, <1>12, <1>16, <1>17, <1>18 DEF Renewed
<1>20. Height(Y, r) = Height(X, r) /\ Height(Y, e) = Height(T, e)
  BY <1>4, <1>13, <1>14, <1>15
<1> QED BY <1>2, <1>6, <1>10, <1>12, <1>13, <1>15, <1>19, <1>20 DEF Climbed, o, e

\* Which side is too high.
LEMMA TiltIs ==
    ASSUME NEW Y, NEW n \in Nodes, NEW s \in Sides, NEW a \in Nat, NEW b \in Nat,
           Height(Y, Y[s][n]) = a, Height(Y, Y[Other(s)][n]) = b, a <= b + 2, b <= a + 2
    PROVE  LET heavy == IF Balance(Y, n) > 1 THEN "left" ELSE "right" IN
           /\ Balance(Y, n) \in -1 .. 1 <=> (a <= b + 1 /\ b <= a + 1)
           /\ a = b + 2 => heavy = s
           /\ b = a + 2 => heavy = Other(s)
<1>1. n # NULL
  BY NodesAre
<1>2. CASE s = "left"
  <2>1. Balance(Y, n) = a - b
    BY <1>1, <1>2 DEF Balance, Other
  <2> QED BY <1>2, <2>1 DEF Other
<1>3. CASE s = "right"
  <2>1. Balance(Y, n) = b - a
    BY <1>1, <1>3 DEF Balance, Other
  <2> QED BY <1>3, <2>1 DEF Other
<1> QED BY <1>2, <1>3 DEF Sides

\* How the height of a subtree may change.
Change(op) == IF op = "insert" THEN {0, 1} ELSE {-1, 0}

\* The subtree of r is higher where d belongs.
Leans(C, r, d) ==
    LET side == IF C.data[r] > d THEN "left" ELSE "right" IN
    Height(C, C[side][r]) > Height(C, C[Other(side)][r])

\* A helper called with the node m, which hangs on side q of p, returns res: with that in m's place
\* the tree is in order up to p and has the nodes N, and the heap is that of B.
Good(op, T, S, m, p, q, d, B, N, K, res) ==
    LET C == Hang(res.tree, p, q, res.node) IN
    /\ \E R : Renewed(T, S, m, p, q, C, R, K, res.node, {p}) /\ R[C.root] = N
    /\ SameRest(B, C)
    /\ Height(C, res.node) - Height(T, m) \in Change(op)
    /\ op = "insert" /\ Height(C, res.node) > Height(T, m) /\ m # NULL => Leans(C, res.node, d)

\* What is good below m, measured at m: heights before and after.
Rising(op, T, S, m, p, q, s, d, B, N, K, X, R, r, Y) ==
    /\ Climbed(T, S, m, p, q, s, X, R, K, r, Y) /\ R[X.root] = N /\ SameRest(B, Y)
    /\ Tied(Y, R, K) /\ r \in Ids /\ r # m /\ (r # NULL => r # p /\ Level(Y, r))
    /\ \E a \in Nat, b \in Nat, e \in Nat :
          /\ Height(T, T[s][m]) = a /\ Height(Y, Y[s][m]) = b /\ Height(Y, Y[Other(s)][m]) = e
          /\ b - a \in Change(op) /\ a <= e + 1 /\ e <= a + 1
          /\ T.rank[m] = Max2(a, e) + 1 /\ Y.rank[m] = Max2(b, e) + 1
          /\ op = "insert" /\ b > a /\ a # 0 => Leans(Y, r, d)

LEMMA RisingIs ==
    ASSUME NEW T, NEW S, NEW L, Tied(T, S, L), \A a \in S[T.root] : Level(T, a),
           NEW m \in Nodes, NEW p \in Ids, NEW q, At(T, p, q, m), NEW s \in Sides,
           NEW op, NEW d, NEW B, NEW N, NEW K, NEW sub, Good(op, T, S, T[s][m], m, s, d, B, N, K, sub)
    PROVE  LET X == Attach(sub.tree, m, s, sub.node) IN
           \E R : Rising(op, T, S, m, p, q, s, d, B, N, K, X, R, sub.node, Measure(X, m))
<1> DEFINE X == Attach(sub.tree, m, s, sub.node)
           r == sub.node
           Y == Measure(X, m)
           c == T[s][m]
           e == T[Other(s)][m]
<1>1. m # NULL /\ Hang(sub.tree, m, s, r) = X
  BY NodesAre DEF Hang
<1> HIDE DEF X, r
<1>2. PICK R : Renewed(T, S, c, m, s, X, R, K, r, {m}) /\ R[X.root] = N
  BY <1>1 DEF Good, r
<1>3. /\ SameRest(B, X) /\ Height(X, r) - Height(T, c) \in Change(op)
      /\ op = "insert" /\ Height(X, r) > Height(T, c) /\ c # NULL => Leans(X, r, d)
  BY <1>1 DEF Good, r
<1>4. Tied(X, R, K) /\ X \in Trees /\ At(X, m, s, r) /\ X[s][m] = r
  BY <1>1, <1>2 DEF Renewed, Tied, At
<1>5. Measured(X, Y, m)
  BY <1>4, MeasureIs
<1> HIDE DEF Y
<1>6. Climbed(T, S, m, p, q, s, X, R, K, r, Y)
  BY <1>2, <1>5, ClimbedIs
<1>7. /\ Renewed(T, S, m, p, q, Y, R, K, m, {p, m}) /\ SameRest(X, Y) /\ R[Y.root] = R[X.root]
      /\ Y[s][m] = r /\ Y[Other(s)][m] = e
      /\ Height(Y, r) = Height(X, r) /\ Height(Y, e) = Height(T, e)
      /\ Y.rank[m] = Max2(Height(X, r), Height(T, e)) + 1
      /\ \A a \in Ids : a # m => Height(Y, a) = Height(X, a)
      /\ \A t \in Sides : Y[t] = X[t]
  BY <1>6 DEF Climbed
<1>8. Tied(Y, R, K) /\ At(Y, p, q, m) /\ \A a \in R[Y.root] : a \in {p, m} \/ Level(Y, a)
  BY <1>7 DEF Renewed
<1>9. r \in Ids /\ r # m /\ (r # NULL => r # p /\ Level(Y, r) /\ r \in Nodes)
  <2>1. /\ r \in Ids /\ r # m /\ (r # NULL => r \in Nodes /\ r \in R[m])
    BY <1>1, <1>7, <1>8, HangsIs
  <2>2. p # NULL => p \notin R[m]
    BY <1>8, PlaceIs
  <2>3. CASE r = NULL
    BY <2>1, <2>3
  <2>4. CASE r # NULL
    <3>1. r # p
      BY <2>1, <2>2, <2>4
    <3>2. r \in R[Y.root]
      BY <1>7, <1>8, <2>4, InsideIs
    <3> QED BY <1>8, <2>1, <3>1, <3>2
  <2> QED BY <2>3, <2>4
<1>10. Level(T, m)
  BY PlaceIs
<1>11. Lies(T.rank[m], Height(T, c), Height(T, e))
  BY <1>10, LevelIs
<1>12. Height(X, r) \in Nat
  <2>1. CASE r = NULL
    BY <2>1 DEF Height
  <2>2. CASE r # NULL
    <3>1. Y.rank[r] \in Nat
      BY <1>9, <2>2, LevelHeights DEF Sides
    <3> QED BY <1>7, <2>2, <3>1 DEF Height
  <2> QED BY <2>1, <2>2
<1>13. ASSUME op = "insert", Height(X, r) > Height(T, c), Height(T, c) # 0 PROVE Leans(Y, r, d)
  <2>1. c # NULL
    BY <1>13 DEF Height
  <2>2. Leans(X, r, d)
    BY <1>3, <1>13, <2>1
  <2>3. r # NULL
    BY <1>11, <1>12, <1>13 DEF Height, Lies
  <2>4. ASSUME NEW t \in Sides PROVE Y[t][r] = X[t][r] /\ Height(Y, X[t][r]) = Height(X, X[t][r])
    <3>1. X[t][r] \in Ids /\ r \in Nodes
      BY <1>4, <1>9, <2>3, HangsIs
    <3>2. X[t][r] # m
      <4>1. m \notin R[r] /\ (X[t][r] # NULL => X[t][r] \in R[r])
        BY <1>1, <1>4, <3>1, HangsIs
      <4> QED BY <1>1, <4>1
    <3> QED BY <1>7, <3>1, <3>2
  <2>5. Y.data = X.data
    BY <1>7 DEF SameRest
  <2> DEFINE side == IF X.data[r] > d THEN "left" ELSE "right"
  <2>6. side \in Sides /\ Other(side) \in Sides
    BY SidesAre DEF Sides
  <2>7. Height(X, X[side][r]) > Height(X, X[Other(side)][r])
    BY <2>2 DEF Leans
  <2> HIDE DEF side
  <2>8. Height(Y, Y[side][r]) > Height(Y, Y[Other(side)][r])
    BY <2>4, <2>6, <2>7
  <2> QED BY <2>5, <2>8 DEF Leans, side
<1>14. SameRest(B, Y)
  BY <1>3, <1>7 DEF SameRest
<1>15. \E a \in Nat, b \in Nat, f \in Nat :
          /\ Height(T, T[s][m]) = a /\ Height(Y, Y[s][m]) = b /\ Height(Y, Y[Other(s)][m]) = f
          /\ b - a \in Change(op) /\ a <= f + 1 /\ f <= a + 1
          /\ T.rank[m] = Max2(a, f) + 1 /\ Y.rank[m] = Max2(b, f) + 1
          /\ op = "insert" /\ b > a /\ a # 0 => Leans(Y, r, d)
  <2> DEFINE a == Height(T, c)
             b == Height(X, r)
             f == Height(T, e)
  <2>1. a \in Nat /\ f \in Nat /\ a <= f + 1 /\ f <= a + 1 /\ T.rank[m] = Max2(a, f) + 1
    BY <1>11 DEF Lies
  <2>2. Height(Y, Y[s][m]) = b /\ Height(Y, Y[Other(s)][m]) = f /\ b - a \in Change(op)
        /\ Y.rank[m] = Max2(b, f) + 1
    BY <1>3, <1>7
  <2>3. op = "insert" /\ b > a /\ a # 0 => Leans(Y, r, d)
    BY <1>13
  <2>4. b \in Nat /\ a = Height(T, T[s][m])
    BY <1>12
  <2> HIDE DEF a, b, f
  <2> QED BY <2>1, <2>2, <2>3, <2>4
<1>16. Rising(op, T, S, m, p, q, s, d, B, N, K, X, R, r, Y)
  BY <1>2, <1>6, <1>8, <1>9, <1>14, <1>15 DEF Rising
<1> QED BY <1>16 DEF X, r, Y

\* A rotated subtree is good.
LEMMA RightedGood ==
    ASSUME NEW op, NEW T, NEW S, NEW m, NEW p, NEW q, NEW d, NEW B, NEW N, NEW K, NEW res, NEW Y, NEW R,
           NEW k \in Int, Height(T, m) \in Int,
           Righted(T, S, m, p, q, Y, R, K, Hang(res.tree, p, q, res.node), res.node, k),
           R[Y.root] = N, SameRest(B, Y), k - Height(T, m) \in Change(op), k <= Height(T, m)
    PROVE  Good(op, T, S, m, p, q, d, B, N, K, res)
<1> DEFINE C == Hang(res.tree, p, q, res.node)
           r == res.node
<1> HIDE DEF C, r
<1>1. Righted(T, S, m, p, q, Y, R, K, C, r, k)
  BY DEF C, r
<1>2. SameRest(Y, C) /\ Height(C, r) = k /\ \E W : Renewed(T, S, m, p, q, C, W, K, r, {p}) /\ W[C.root] = N
  BY <1>1 DEF Righted
<1>3. SameRest(B, C)
  BY <1>2 DEF SameRest
<1>4. ~(Height(C, r) > Height(T, m))
  BY <1>2
<1> QED BY <1>2, <1>3, <1>4 DEF Good, C, r

\* A subtree that stands as it is.
LEMMA StandingGood ==
    ASSUME NEW op, NEW T, NEW S, NEW m \in Ids, NEW p \in Ids, NEW q, NEW d, NEW B, NEW N, NEW K, NEW Y, NEW R,
           NEW n \in Nodes, Renewed(T, S, m, p, q, Y, R, K, n, {p, n}), Level(Y, n),
           R[Y.root] = N, SameRest(B, Y), Height(Y, n) - Height(T, m) \in Change(op),
           op = "insert" /\ Height(Y, n) > Height(T, m) => Leans(Y, n, d)
    PROVE  Good(op, T, S, m, p, q, d, B, N, K, [tree |-> Y, node |-> n])
<1>1. Hang(Y, p, q, n) = Y /\ Renewed(T, S, m, p, q, Y, R, K, n, {p})
  BY StandsIs
<1> QED BY <1>1 DEF Good

\* After the insertion below m the subtree of m is put in order.
LEMMA RaisedIs ==
    ASSUME NEW T, NEW S, NEW L, Tied(T, S, L), \A a \in S[T.root] : Level(T, a),
           NEW m \in Nodes, NEW p \in Ids, NEW q, At(T, p, q, m), NEW s \in Sides,
           NEW d, NEW B, s = (IF B.data[m] > d THEN "left" ELSE "right"),
           NEW N, NEW K, NEW sub, Good("insert", T, S, T[s][m], m, s, d, B, N, K, sub)
    PROVE  Good("insert", T, S, m, p, q, d, B, N, K,
                Rebalance(Measure(Attach(sub.tree, m, s, sub.node), m), m, d))
<1> DEFINE X == Attach(sub.tree, m, s, sub.node)
           r == sub.node
           Y == Measure(X, m)
           res == Rebalance(Y, m, d)
           o == Other(s)
<1>1. PICK R : Rising("insert", T, S, m, p, q, s, d, B, N, K, X, R, r, Y)
  BY RisingIs
<1> HIDE DEF X, r, Y
<1>2. /\ Climbed(T, S, m, p, q, s, X, R, K, r, Y) /\ R[X.root] = N /\ SameRest(B, Y)
      /\ Tied(Y, R, K) /\ r \in Ids /\ r # m /\ (r # NULL => r # p /\ Level(Y, r))
  BY <1>1 DEF Rising
<1>3. PICK a \in Nat, b \in Nat, e \in Nat :
          /\ Height(T, T[s][m]) = a /\ Height(Y, Y[s][m]) = b /\ Height(Y, Y[o][m]) = e
          /\ b - a \in {0, 1} /\ a <= e + 1 /\ e <= a + 1
          /\ T.rank[m] = Max2(a, e) + 1 /\ Y.rank[m] = Max2(b, e) + 1
          /\ b > a /\ a # 0 => Leans(Y, r, d)
  BY <1>1 DEF Rising, Change
<1>4. Renewed(T, S, m, p, q, Y, R, K, m, {p, m}) /\ Y[s][m] = r /\ R[Y.root] = N
  BY <1>2 DEF Climbed
<1>5. Height(T, m) = T.rank[m] /\ Height(Y, m) = Y.rank[m] /\ m \in Ids
  <2>1. T \in Trees /\ Y \in Trees
    BY <1>2 DEF Tied
  <2> QED BY <2>1, HeightIs, NodesAre
<1>6. Y.data = B.data
  BY <1>2 DEF SameRest
<1> DEFINE heavy == IF Balance(Y, m) > 1 THEN "left" ELSE "right"
<1>7. /\ Balance(Y, m) \in -1 .. 1 <=> (b <= e + 1 /\ e <= b + 1)
      /\ b = e + 2 => heavy = s
  <2>1. b <= e + 2 /\ e <= b + 2
    BY <1>3
  <2> QED BY <1>3, <2>1, TiltIs
<1>8. CASE Balance(Y, m) \in -1 .. 1
  <2>1. res = [tree |-> Y, node |-> m]
    BY <1>8 DEF Rebalance
  <2>2. Level(Y, m)
    <3>1. Lies(Y.rank[m], b, e)
      BY <1>3, <1>7, <1>8 DEF Lies
    <3> QED BY <1>3, <3>1, LevelIs
  <2>3. Height(Y, m) - Height(T, m) \in {0, 1} /\ (Height(Y, m) > Height(T, m) => b > e)
    BY <1>3, <1>5 DEF Max2
  <2>4. Height(Y, m) > Height(T, m) => Leans(Y, m, d)
    BY <1>3, <1>6, <2>3 DEF Leans
  <2>5. Good("insert", T, S, m, p, q, d, B, N, K, [tree |-> Y, node |-> m])
    BY <1>2, <1>4, <1>5, <2>2, <2>3, <2>4, StandingGood DEF Change
  <2> QED BY <2>1, <2>5 DEF X, Y, r
<1>9. CASE ~(Balance(Y, m) \in -1 .. 1)
  <2>1. b = e + 2 /\ a = e + 1 /\ heavy = s /\ Leans(Y, r, d) /\ T.rank[m] = e + 2
    BY <1>3, <1>7, <1>9 DEF Max2
  <2>2. Height(Y, r) = e + 2 /\ r # NULL /\ r \in Nodes /\ Y.rank[r] = e + 2
    <3>1. Height(Y, r) = e + 2
      BY <1>3, <1>4, <2>1
    <3>2. r # NULL
      BY <1>3, <3>1 DEF Height
    <3> QED BY <1>2, <3>1, <3>2, NodesAre DEF Height
  <2>3. Level(Y, r) /\ r # p
    BY <1>2, <2>2
  <2> DEFINE i == Height(Y, Y[o][r])
             u == Height(Y, Y[s][r])
  <2>4. Lies(e + 2, u, i)
    BY <2>2, <2>3, LevelIs
  <2> DEFINE outward == (Y.data[r] > d) = (heavy = "left")
  <2>5. res = IF outward THEN Rotate(Y, m, o) ELSE RotateTwice(Y, m, s)
    BY <1>4, <1>9, <2>1 DEF Rebalance
  <2>6. IF outward THEN u > i ELSE i > u
    <3>1. o = Other(s) /\ Other(o) = s /\ s # o
      BY SidesAre
    <3>2. CASE s = "left"
      BY <2>1, <3>2 DEF Leans, Other
    <3>3. CASE s = "right"
      BY <2>1, <3>3 DEF Leans, Other
    <3> QED BY <3>2, <3>3 DEF Sides
  <2> HIDE DEF outward, res
  <2>7. Righted(T, S, m, p, q, Y, R, K, Hang(res.tree, p, q, res.node), res.node, e + 2)
    <3>1. CASE outward
      <4>1. i \in Int /\ i + 2 = e + 2 /\ u >= i
        BY <1>3, <2>4, <2>6, <3>1 DEF Lies, Max2
      <4>2. res = Rotate(Y, m, o)
        BY <2>5, <3>1
      <4> QED BY <1>3, <1>4, <1>5, <2>2, <2>3, <4>1, <4>2, OnceIs
    <3>2. CASE ~outward
      <4>1. u < i
        BY <1>3, <2>4, <2>6, <3>2 DEF Lies
      <4>2. res = RotateTwice(Y, m, s)
        BY <2>5, <3>2
      <4> QED BY <1>3, <1>4, <1>5, <2>2, <2>3, <4>1, <4>2, TwiceIs
    <3> QED BY <3>1, <3>2
  <2>8. Good("insert", T, S, m, p, q, d, B, N, K, res)
    <3>1. e + 2 \in Int /\ Height(T, m) \in Int /\ (e + 2) - Height(T, m) \in Change("insert") /\ e + 2 <= Height(T, m)
      BY <1>3, <1>5, <2>1 DEF Change
    <3>2. R[Y.root] = N /\ SameRest(B, Y)
      BY <1>2, <1>4
    <3> QED BY <2>7, <3>1, <3>2, RightedGood
  <2> QED BY <2>8 DEF X, Y, r, res
<1> QED BY <1>8, <1>9

\* So it is after a removal below m.
LEMMA LoweredIs ==
    ASSUME NEW T, NEW S, NEW L, Tied(T, S, L), \A a \in S[T.root] : Level(T, a),
           NEW m \in Nodes, NEW p \in Ids, NEW q, At(T, p, q, m), NEW s \in Sides,
           NEW op, op # "insert", NEW d, NEW B, NEW N, NEW K, NEW sub,
           Good(op, T, S, T[s][m], m, s, d, B, N, K, sub)
    PROVE  Good(op, T, S, m, p, q, d, B, N, K, Lightened(Attach(sub.tree, m, s, sub.node), m))
<1> DEFINE X == Attach(sub.tree, m, s, sub.node)
           r == sub.node
           Y == Measure(X, m)
           res == RebalanceRemoved(Y, m)
           o == Other(s)
<1>0. Lightened(X, m) = res
  BY DEF Lightened
<1>1. PICK R : Rising(op, T, S, m, p, q, s, d, B, N, K, X, R, r, Y)
  BY RisingIs
<1> HIDE DEF X, r, Y
<1>2. /\ Climbed(T, S, m, p, q, s, X, R, K, r, Y) /\ R[X.root] = N /\ SameRest(B, Y)
      /\ Tied(Y, R, K) /\ r \in Ids /\ r # m /\ (r # NULL => r # p /\ Level(Y, r))
  BY <1>1 DEF Rising
<1>3. PICK a \in Nat, b \in Nat, e \in Nat :
          /\ Height(T, T[s][m]) = a /\ Height(Y, Y[s][m]) = b /\ Height(Y, Y[o][m]) = e
          /\ b - a \in {-1, 0} /\ a <= e + 1 /\ e <= a + 1
          /\ T.rank[m] = Max2(a, e) + 1 /\ Y.rank[m] = Max2(b, e) + 1
  BY <1>1 DEF Rising, Change
<1>4. Renewed(T, S, m, p, q, Y, R, K, m, {p, m}) /\ R[Y.root] = N
  BY <1>2 DEF Climbed
<1>5. Height(T, m) = T.rank[m] /\ Height(Y, m) = Y.rank[m] /\ m \in Ids /\ Y \in Trees
  <2>1. T \in Trees /\ Y \in Trees
    BY <1>2 DEF Tied
  <2> QED BY <2>1, HeightIs, NodesAre
<1> DEFINE heavy == IF Balance(Y, m) > 1 THEN "left" ELSE "right"
<1>6. /\ Balance(Y, m) \in -1 .. 1 <=> (b <= e + 1 /\ e <= b + 1)
      /\ e = b + 2 => heavy = o
  <2>1. b <= e + 2 /\ e <= b + 2
    BY <1>3
  <2> QED BY <1>3, <2>1, TiltIs
<1>7. CASE Balance(Y, m) \in -1 .. 1
  <2>1. res = [tree |-> Y, node |-> m]
    BY <1>7 DEF RebalanceRemoved
  <2>2. Level(Y, m)
    <3>1. Lies(Y.rank[m], b, e)
      BY <1>3, <1>6, <1>7 DEF Lies
    <3> QED BY <1>3, <3>1, LevelIs
  <2>3. Height(Y, m) - Height(T, m) \in {-1, 0}
    BY <1>3, <1>5 DEF Max2
  <2>4. Good(op, T, S, m, p, q, d, B, N, K, [tree |-> Y, node |-> m])
    BY <1>2, <1>4, <1>5, <2>2, <2>3, StandingGood DEF Change
  <2> QED BY <1>0, <2>1, <2>4 DEF X, r
<1>8. CASE ~(Balance(Y, m) \in -1 .. 1)
  <2> DEFINE k == Y[o][m]
  <2>1. e = b + 2 /\ heavy = o /\ T.rank[m] = b + 3
    BY <1>3, <1>6, <1>8 DEF Max2
  <2>2. o \in Sides /\ Other(o) = s /\ s # o
    BY SidesAre
  <2>3. k # NULL
    BY <1>3, <2>1 DEF Height
  <2>4. k \in Nodes /\ k # m /\ k \in R[Y.root] /\ k # p
    <3>1. k \in Nodes /\ k # m /\ k \in R[m] /\ k \in R[Y.root]
      BY <1>2, <2>2, <2>3, HangsIs, InsideIs
    <3>2. p # NULL => p \notin R[m]
      BY <1>4, PlaceIs DEF Renewed
    <3> HIDE DEF k
    <3> QED BY <2>3, <3>1, <3>2
  <2>5. Level(Y, k)
    BY <1>4, <2>4 DEF Renewed
  <2>6. Y.rank[k] = b + 2
    BY <1>3, <2>1, <2>3 DEF Height
  <2> DEFINE i == Height(Y, Y[s][k])
             u == Height(Y, Y[o][k])
  <2>7. Lies(b + 2, u, i)
    BY <2>2, <2>5, <2>6, LevelIs
  <2> DEFINE lean == Balance(Y, k)
             outward == (heavy = "left" /\ lean >= 0) \/ (heavy = "right" /\ lean <= 0)
  <2>8. res = IF outward THEN Rotate(Y, m, s) ELSE RotateTwice(Y, m, o)
    BY <1>8, <2>1, <2>2 DEF RebalanceRemoved
  <2>9. outward <=> u >= i
    <3>1. Balance(Y, k) = Height(Y, Y.left[k]) - Height(Y, Y.right[k]) /\ u \in Nat /\ i \in Nat
      BY <2>3, <2>7 DEF Balance, Lies
    <3>2. CASE s = "left"
      <4>1. o = "right" /\ Balance(Y, k) = i - u
        BY <3>1, <3>2 DEF Other
      <4> HIDE DEF k, i, u
      <4> QED BY <2>1, <3>1, <4>1
    <3>3. CASE s = "right"
      <4>1. o = "left" /\ Balance(Y, k) = u - i
        BY <3>1, <3>3 DEF Other
      <4> HIDE DEF k, i, u
      <4> QED BY <2>1, <3>1, <4>1
    <3> QED BY <3>2, <3>3 DEF Sides
  <2> HIDE DEF outward, res
  <2>10. \E j \in {b + 2, b + 3} :
            Righted(T, S, m, p, q, Y, R, K, Hang(res.tree, p, q, res.node), res.node, j)
    <3>0. Y[o][m] = k /\ Height(Y, Y[s][m]) = b
      BY <1>3
    <3> HIDE DEF k
    <3>1. CASE outward
      <4>1. i \in Int /\ i + 2 \in {b + 2, b + 3} /\ u >= i
        BY <1>3, <2>7, <2>9, <3>1 DEF Lies, Max2
      <4>2. res = Rotate(Y, m, Other(o))
        BY <2>2, <2>8, <3>1
      <4>3. Righted(T, S, m, p, q, Y, R, K, Hang(res.tree, p, q, res.node), res.node, i + 2)
        BY <1>4, <1>5, <2>2, <2>4, <2>5, <2>6, <3>0, <4>1, <4>2, OnceIs
      <4> QED BY <4>1, <4>3
    <3>2. CASE ~outward
      <4>1. u < i
        BY <1>3, <2>7, <2>9, <3>2 DEF Lies
      <4>2. res = RotateTwice(Y, m, o)
        BY <2>8, <3>2
      <4>3. Righted(T, S, m, p, q, Y, R, K, Hang(res.tree, p, q, res.node), res.node, b + 2)
        BY <1>4, <1>5, <2>2, <2>4, <2>5, <2>6, <3>0, <4>1, <4>2, TwiceIs
      <4> QED BY <4>3
    <3> QED BY <3>1, <3>2
  <2>11. Good(op, T, S, m, p, q, d, B, N, K, res)
    <3>1. PICK j \in {b + 2, b + 3} :
             Righted(T, S, m, p, q, Y, R, K, Hang(res.tree, p, q, res.node), res.node, j)
      BY <2>10
    <3>2. j \in Int /\ Height(T, m) \in Int /\ j - Height(T, m) \in Change(op) /\ j <= Height(T, m)
      BY <1>3, <1>5, <2>1, <3>1 DEF Change
    <3>3. R[Y.root] = N /\ SameRest(B, Y)
      BY <1>2, <1>4
    <3> QED BY <3>1, <3>2, <3>3, RightedGood
  <2> QED BY <1>0, <2>11 DEF X, r, res
<1> QED BY <1>7, <1>8

-----------------------------------------------------------------------------
\* The helpers.

SideOf(T, d, m) == IF T.data[m] > d THEN "left" ELSE "right"

\* What a helper answers at m when it was answered sub below m.
InsertBack(T, d, m, sub) ==
    IF m = NULL THEN IF CanAlloc(T) THEN Leaf(T, d) ELSE [tree |-> T, node |-> NULL]
    ELSE IF T.data[m] = d THEN [tree |-> T, node |-> m]
    ELSE Rebalance(Measure(Attach(sub.tree, m, SideOf(T, d, m), sub.node), m), m, d)

RemoveBack(op, T, d, m, sub) ==
    IF m = NULL THEN [tree |-> T, node |-> NULL]
    ELSE IF T.data[m] = d THEN IF op = "next" THEN DropOne(T, m) ELSE RemoveHere(T, m)
    ELSE Lightened(Attach(sub.tree, m, SideOf(T, d, m), sub.node), m)

Back(op, T, d, m, sub) == IF op = "insert" THEN InsertBack(T, d, m, sub) ELSE RemoveBack(op, T, d, m, sub)

\* f is what the helper answers at every node.
Unwinds(op, T, d, f) == f = [m \in Ids |-> Back(op, T, d, m, f[T[SideOf(T, d, m)][m]])]

\* The helpers end.
LEMMA UnwindsExist ==
    ASSUME NEW T, NEW S, NEW L, Tied(T, S, L), NEW op, NEW d
    PROVE  \E f : Unwinds(op, T, d, f)
<1> DEFINE next(m) == T[SideOf(T, d, m)][m]
           h == [m \in Ids |-> IF m = NULL THEN 0 ELSE Size(S)[m]]
           Q == {k \in Nat : \E f : \A m \in Ids : h[m] <= k => f[m] = Back(op, T, d, m, f[next(m)])}
<1>1. MaxNodes \in Nat /\ Size(S) \in [Nodes -> 0 .. MaxNodes] /\ \A m \in Ids : m # NULL => m \in Nodes
  BY SizeIs, NodesAre
<1>2. \A m \in Ids : h[m] \in 0 .. MaxNodes
  BY <1>1
<1>3. ASSUME NEW m \in Ids, m # NULL PROVE next(m) \in Ids /\ h[next(m)] < h[m]
  <2>1. m \in Nodes /\ SideOf(T, d, m) \in Sides
    BY <1>1, <1>3 DEF SideOf, Sides
  <2> DEFINE c == next(m)
  <2>2. c \in Ids
    BY <2>1, HangsIs
  <2>3. c # NULL => Size(S)[c] < Size(S)[m]
    BY <2>1, SizeIs
  <2>4. Size(S)[m] > 0
    <3>1. m \in S[m] /\ S[m] \in SUBSET Nodes /\ {} \in SUBSET S[m] /\ {} # S[m]
      BY <2>1, SelfIs
    <3>2. Cardinality({}) < Cardinality(S[m])
      BY <3>1, ManyNodes
    <3>3. Cardinality({}) = 0
      BY FS_EmptySet
    <3> QED BY <2>1, <3>2, <3>3 DEF Size
  <2> HIDE DEF c
  <2>5. h[c] < h[m]
    <3>1. h[m] = Size(S)[m]
      BY <1>3
    <3>2. CASE c = NULL
      BY <2>2, <2>4, <3>1, <3>2
    <3>3. CASE c # NULL
      BY <2>2, <2>3, <3>1, <3>3
    <3> QED BY <3>2, <3>3
  <2> QED BY <2>2, <2>5 DEF c
<1>4. \A a, b : Back(op, T, d, NULL, a) = Back(op, T, d, NULL, b)
  BY DEF Back, InsertBack, RemoveBack
<1> HIDE DEF h, next
<1>5. ASSUME NEW k \in Int, NEW f, \A m \in Ids : h[m] <= k => f[m] = Back(op, T, d, m, f[next(m)])
      PROVE  \E g : \A m \in Ids : h[m] <= k + 1 => g[m] = Back(op, T, d, m, g[next(m)])
  <2> DEFINE g == [m \in Ids |-> IF h[m] <= k THEN f[m] ELSE Back(op, T, d, m, f[next(m)])]
  <2>1. ASSUME NEW m \in Ids, h[m] <= k + 1 PROVE g[m] = Back(op, T, d, m, g[next(m)])
    <3>1. g[m] = Back(op, T, d, m, f[next(m)])
      BY <1>5
    <3>2. CASE m = NULL
      <4>1. Back(op, T, d, m, f[next(m)]) = Back(op, T, d, m, g[next(m)])
        BY <1>4, <3>2
      <4> QED BY <3>1, <4>1
    <3>3. CASE m # NULL
      <4>1. next(m) \in Ids /\ h[next(m)] <= k
        <5>1. next(m) \in Ids /\ h[next(m)] < h[m] /\ h[m] \in Int /\ h[next(m)] \in Int
          BY <1>2, <1>3, <3>3
        <5> QED BY <2>1, <5>1
      <4>2. g[next(m)] = f[next(m)]
        BY <4>1
      <4> HIDE DEF g
      <4> QED BY <3>1, <4>2
    <3> QED BY <3>2, <3>3
  <2> HIDE DEF g
  <2> QED BY <2>1
<1>6. 0 \in Q
  <2>1. \A m \in Ids : ~(h[m] <= -1)
    BY <1>2
  <2>2. \E f : \A m \in Ids : h[m] <= -1 => f[m] = Back(op, T, d, m, f[next(m)])
    BY <2>1
  <2>3. -1 \in Int /\ -1 + 1 = 0
    OBVIOUS
  <2>4. \E g : \A m \in Ids : h[m] <= -1 + 1 => g[m] = Back(op, T, d, m, g[next(m)])
    BY <1>5, <2>2
  <2> QED BY <2>3, <2>4
<1>7. \A i \in 1 .. MaxNodes : i - 1 \in Q => i \in Q
  <2> TAKE i \in 1 .. MaxNodes
  <2> HAVE i - 1 \in Q
  <2>1. PICK f : \A m \in Ids : h[m] <= i - 1 => f[m] = Back(op, T, d, m, f[next(m)])
    OBVIOUS
  <2>2. i - 1 \in Int /\ (i - 1) + 1 = i /\ i \in Nat
    BY <1>1
  <2>3. \E g : \A m \in Ids : h[m] <= (i - 1) + 1 => g[m] = Back(op, T, d, m, g[next(m)])
    BY <1>5, <2>1, <2>2
  <2> QED BY <2>2, <2>3
<1>8. MaxNodes \in Q
  <2> HIDE DEF Q
  <2> QED BY <1>1, <1>6, <1>7, Induction
<1>9. PICK f : \A m \in Ids : h[m] <= MaxNodes => f[m] = Back(op, T, d, m, f[next(m)])
  BY <1>8
<1> DEFINE g == [m \in Ids |-> f[m]]
<1>10. ASSUME NEW m \in Ids PROVE g[m] = Back(op, T, d, m, g[next(m)])
  <2>1. g[m] = Back(op, T, d, m, f[next(m)])
    BY <1>1, <1>2, <1>9
  <2>2. CASE m = NULL
    <3>1. Back(op, T, d, m, f[next(m)]) = Back(op, T, d, m, g[next(m)])
      BY <1>4, <2>2
    <3> QED BY <2>1, <3>1
  <2>3. CASE m # NULL
    <3>1. g[next(m)] = f[next(m)]
      BY <1>3, <2>3
    <3> HIDE DEF g
    <3> QED BY <2>1, <3>1
  <2> QED BY <2>2, <2>3
<1>11. g = [m \in Ids |-> g[m]]
  OBVIOUS
<1> HIDE DEF g
<1>12. g = [m \in Ids |-> Back(op, T, d, m, g[next(m)])]
  BY <1>10, <1>11
<1> QED BY <1>12 DEF Unwinds, next

\* They are the functions of the model.
LEMMA InsertIs ==
    ASSUME NEW T, NEW S, NEW L, Tied(T, S, L), NEW d, NEW n
    PROVE  \E f : Unwinds("insert", T, d, f) /\ InsertHelper(T, n, d) = f[n]
<1> DEFINE E(f) == [m \in 0 .. MaxNodes |->
                       LET side == IF T.data[m] > d THEN "left" ELSE "right"
                           sub == f[T[side][m]]
                       IN  IF m = NULL THEN IF CanAlloc(T) THEN Leaf(T, d) ELSE [tree |-> T, node |-> NULL]
                           ELSE IF T.data[m] = d THEN [tree |-> T, node |-> m]
                           ELSE Rebalance(Measure(Attach(sub.tree, m, side, sub.node), m), m, d)]
           insert == CHOOSE f : f = E(f)
<1>1. InsertHelper(T, n, d) = insert[n]
  BY DEF InsertHelper
<1>2. \A f : E(f) = [m \in Ids |-> Back("insert", T, d, m, f[T[SideOf(T, d, m)][m]])]
  BY DEF Back, InsertBack, SideOf, Ids
<1> HIDE DEF E
<1>3. \E f : f = E(f)
  <2>1. PICK f : Unwinds("insert", T, d, f)
    BY UnwindsExist
  <2>2. f = E(f)
    BY <1>2, <2>1 DEF Unwinds
  <2> QED BY <2>2
<1>4. insert = E(insert)
  BY <1>3
<1> HIDE DEF insert
<1> QED BY <1>1, <1>2, <1>4 DEF Unwinds

LEMMA RemoveIs ==
    ASSUME NEW T, NEW S, NEW L, Tied(T, S, L), NEW d, NEW n
    PROVE  \E f : Unwinds("remove", T, d, f) /\ RemoveHelper(T, n, d) = f[n]
<1> DEFINE E(f) == [m \in 0 .. MaxNodes |->
                       LET side == IF T.data[m] > d THEN "left" ELSE "right"
                           sub == f[T[side][m]]
                       IN  IF m = NULL THEN [tree |-> T, node |-> NULL]
                           ELSE IF T.data[m] = d THEN RemoveHere(T, m)
                           ELSE Lightened(Attach(sub.tree, m, side, sub.node), m)]
           remove == CHOOSE f : f = E(f)
<1>1. RemoveHelper(T, n, d) = remove[n]
  BY DEF RemoveHelper, RemoveBelow
<1>2. \A f : E(f) = [m \in Ids |-> Back("remove", T, d, m, f[T[SideOf(T, d, m)][m]])]
  BY DEF Back, RemoveBack, SideOf, Ids
<1> HIDE DEF E
<1>3. \E f : f = E(f)
  <2>1. PICK f : Unwinds("remove", T, d, f)
    BY UnwindsExist
  <2>2. f = E(f)
    BY <1>2, <2>1 DEF Unwinds
  <2> QED BY <2>2
<1>4. remove = E(remove)
  BY <1>3
<1> HIDE DEF remove
<1> QED BY <1>1, <1>2, <1>4 DEF Unwinds

LEMMA RemoveNextIs ==
    ASSUME NEW T, NEW S, NEW L, Tied(T, S, L), NEW d, NEW n
    PROVE  \E f : Unwinds("next", T, d, f) /\ RemoveBelow(T, n, d, DropOne) = f[n]
<1> DEFINE E(f) == [m \in 0 .. MaxNodes |->
                       LET side == IF T.data[m] > d THEN "left" ELSE "right"
                           sub == f[T[side][m]]
                       IN  IF m = NULL THEN [tree |-> T, node |-> NULL]
                           ELSE IF T.data[m] = d THEN DropOne(T, m)
                           ELSE Lightened(Attach(sub.tree, m, side, sub.node), m)]
           remove == CHOOSE f : f = E(f)
<1>1. RemoveBelow(T, n, d, DropOne) = remove[n]
  BY DEF RemoveBelow
<1>2. \A f : E(f) = [m \in Ids |-> Back("next", T, d, m, f[T[SideOf(T, d, m)][m]])]
  BY DEF Back, RemoveBack, SideOf, Ids
<1> HIDE DEF E
<1>3. \E f : f = E(f)
  <2>1. PICK f : Unwinds("next", T, d, f)
    BY UnwindsExist
  <2>2. f = E(f)
    BY <1>2, <2>1 DEF Unwinds
  <2> QED BY <2>2
<1>4. remove = E(remove)
  BY <1>3
<1> HIDE DEF remove
<1> QED BY <1>1, <1>2, <1>4 DEF Unwinds

-----------------------------------------------------------------------------
\* Down to where d is or belongs, and back up.

\* The link that a helper follows leads to the side of d.
LEMMA SideOfIs ==
    ASSUME NEW T, T.data \in [Nodes -> Int], NEW d \in Int, NEW m \in Nodes
    PROVE  /\ SideOf(T, d, m) \in Sides
           /\ \A q \in Sides : Before(q, d, T.data[m]) => T.data[m] # d /\ SideOf(T, d, m) = q
<1>1. T.data[m] \in Int
  OBVIOUS
<1> QED BY <1>1 DEF SideOf, Sides, Before

\* One node on the way back.
LEMMA StepGood ==
    ASSUME NEW T, NEW S, NEW L, Tied(T, S, L), \A a \in S[T.root] : Level(T, a),
           NEW m \in Nodes, NEW p \in Ids, NEW q, At(T, p, q, m), NEW s \in Sides,
           NEW op, NEW d, T.data[m] # d, SideOf(T, d, m) = s, NEW f, Unwinds(op, T, d, f),
           NEW B, op = "insert" => B.data[m] = T.data[m],
           NEW N, NEW K, Good(op, T, S, T[s][m], m, s, d, B, N, K, f[T[s][m]])
    PROVE  Good(op, T, S, m, p, q, d, B, N, K, f[m])
<1> DEFINE sub == f[T[s][m]]
           X == Attach(sub.tree, m, s, sub.node)
<1>1. m \in Ids /\ m # NULL
  BY NodesAre
<1>2. f[m] = Back(op, T, d, m, sub)
  BY <1>1 DEF Unwinds
<1> HIDE DEF sub
<1>3. CASE op = "insert"
  <2>1. f[m] = Rebalance(Measure(X, m), m, d)
    BY <1>1, <1>2, <1>3 DEF Back, InsertBack
  <2>2. s = (IF B.data[m] > d THEN "left" ELSE "right")
    BY <1>3 DEF SideOf
  <2>3. Good("insert", T, S, T[s][m], m, s, d, B, N, K, sub)
    BY <1>3 DEF sub
  <2>4. Good("insert", T, S, m, p, q, d, B, N, K, Rebalance(Measure(X, m), m, d))
    BY <2>2, <2>3, RaisedIs
  <2> QED BY <1>3, <2>1, <2>4
<1>4. CASE op # "insert"
  <2>1. f[m] = Lightened(X, m)
    BY <1>1, <1>2, <1>4 DEF Back, RemoveBack
  <2>2. Good(op, T, S, T[s][m], m, s, d, B, N, K, sub)
    BY DEF sub
  <2>3. Good(op, T, S, m, p, q, d, B, N, K, Lightened(X, m))
    BY <1>4, <2>2, LoweredIs
  <2> QED BY <2>1, <2>3
<1> QED BY <1>3, <1>4

\* Below top, d tells the way to e.
Leading(T, S, top, e, d) ==
    e \in S[top] /\ \A m \in S[top], q \in Sides : e \in S[T[q][m]] => Before(q, d, T.data[m])

\* What is good at e is good at every node above it, up to top.
LEMMA ClimbsGood ==
    ASSUME NEW T, NEW S, NEW L, Tied(T, S, L), \A a \in S[T.root] : Level(T, a),
           NEW op, NEW d \in Int, NEW f, Unwinds(op, T, d, f), NEW top \in Nodes, NEW e, Leading(T, S, top, e, d),
           NEW B, op = "insert" => \A m \in S[T.root] : B.data[m] = T.data[m],
           NEW N, NEW K, \A p \in Ids : \A q : At(T, p, q, e) => Good(op, T, S, e, p, q, d, B, N, K, f[e])
    PROVE  \A p \in Ids : \A q : At(T, p, q, top) => Good(op, T, S, top, p, q, d, B, N, K, f[top])
<1> DEFINE Fine(m) == \A p \in Ids : \A q : At(T, p, q, m) => Good(op, T, S, m, p, q, d, B, N, K, f[m])
           Q == {m \in Nodes : m \in S[top] /\ e \in S[m] => Fine(m)}
<1>1. e \in S[top] /\ top \in S[top] /\ S[top] \subseteq Nodes
  BY SelfIs DEF Leading
<1>2. ASSUME NEW m \in Nodes, \A s \in Sides : T[s][m] # NULL => T[s][m] \in Q
      PROVE  m \in Q
  <2> SUFFICES ASSUME m \in S[top], e \in S[m] PROVE Fine(m)
    OBVIOUS
  <2>1. CASE m = e
    BY <2>1
  <2>2. CASE m # e
    <3>1. PICK s \in Sides : e \in S[T[s][m]]
      <4>1. "left" \in Sides /\ Other("left") \in Sides
        BY SidesAre DEF Sides
      <4>2. S[m] = {m} \cup S[T["left"][m]] \cup S[T[Other("left")][m]]
        BY <4>1, ChildIs
      <4> QED BY <2>2, <4>1, <4>2
    <3> DEFINE c == T[s][m]
    <3>2. c # NULL
      BY <3>1 DEF Tied, Subtrees
    <3>3. c \in Nodes /\ c \in S[m] /\ S[m] \subseteq S[top]
      BY <3>2, HangsIs, Nested
    <3>4. Fine(c)
      BY <1>2, <3>1, <3>2, <3>3
    <3>5. At(T, m, s, c) /\ m \in Ids
      BY NodesAre DEF At
    <3>6. Good(op, T, S, c, m, s, d, B, N, K, f[c])
      BY <3>4, <3>5
    <3>7. T.data[m] # d /\ SideOf(T, d, m) = s
      <4>1. T.data \in [Nodes -> Int]
        BY FieldsAre DEF Tied
      <4>2. Before(s, d, T.data[m])
        BY <3>1 DEF Leading
      <4> QED BY <4>1, <4>2, SideOfIs
    <3>8. ASSUME NEW p \in Ids, NEW q, At(T, p, q, m)
          PROVE  Good(op, T, S, m, p, q, d, B, N, K, f[m])
      <4>1. m \in S[T.root]
        BY <3>8, PlaceIs
      <4>2. op = "insert" => B.data[m] = T.data[m]
        BY <4>1
      <4> QED BY <3>6, <3>7, <3>8, <4>2, StepGood
    <3> HIDE DEF c
    <3> QED BY <3>8
  <2> QED BY <2>1, <2>2
<1>3. Nodes \subseteq Q
  <2> HIDE DEF Q
  <2> QED BY <1>2, TreeInduction
<1>4. Fine(top)
  BY <1>1, <1>3
<1> QED BY <1>4

\* A helper that changes nothing.
LEMMA UnchangedGood ==
    ASSUME NEW T, NEW S, NEW K, Tied(T, S, K), \A a \in S[T.root] : Level(T, a),
           NEW m \in Ids, NEW p \in Ids, NEW q, At(T, p, q, m), NEW op, NEW d
    PROVE  Good(op, T, S, m, p, q, d, T, S[T.root], K, [tree |-> T, node |-> m])
<1>1. Hang(T, p, q, m) = T
  BY HangSame
<1>2. Kept(T, S, m, p, q, T, S)
  BY DEF Kept
<1>3. S[m] \subseteq Nodes
  BY DEF Tied, Subtrees
<1>4. Renewed(T, S, m, p, q, T, S, K, m, {p})
  BY <1>2, <1>3 DEF Renewed
<1>5. Height(T, m) \in Nat
  <2>1. CASE m = NULL
    BY <2>1 DEF Height
  <2>2. CASE m # NULL
    <3>1. m \in S[T.root]
      BY <2>2, NodesAre, PlaceIs
    <3>2. T.rank[m] \in Nat
      BY <3>1, LevelHeights DEF Sides
    <3> QED BY <2>2, <3>2 DEF Height
  <2> QED BY <2>1, <2>2
<1>6. Height(T, m) - Height(T, m) \in Change(op) /\ ~(Height(T, m) > Height(T, m))
  BY <1>5 DEF Change
<1> QED BY <1>1, <1>4, <1>6 DEF Good, SameRest

-----------------------------------------------------------------------------
\* A new leaf.

\* The new node x is not linked yet.
Leafed(T, Z, x, d) ==
    /\ x \in Nodes \ T.used /\ Z \in Trees /\ SameLinks(T, Z)
    /\ Z.used = T.used \cup {x} /\ Z.nodeCount = T.nodeCount + 1
    /\ Z.data = [T.data EXCEPT ![x] = d] /\ Z.rank = [T.rank EXCEPT ![x] = 1]

LEMMA LeafIs ==
    ASSUME NEW T \in Trees, CanAlloc(T), NEW d \in Int
    PROVE  Leafed(T, Leaf(T, d).tree, Leaf(T, d).node, d)
<1> DEFINE x == Fresh(T)
           Z == [T EXCEPT !.used = @ \cup {x}, !.data[x] = d, !.rank[x] = 1, !.nodeCount = @ + 1]
<1>1. Leaf(T, d).tree = Z /\ Leaf(T, d).node = x
  BY DEF Leaf
<1>2. x \in Nodes \ T.used
  BY FreshIs
<1> HIDE DEF x
<1>3. /\ Z \in Trees /\ Z.root = T.root /\ Z.left = T.left /\ Z.right = T.right /\ Z.parent = T.parent
      /\ Z.used = T.used \cup {x} /\ Z.nodeCount = T.nodeCount + 1
      /\ Z.data = [T.data EXCEPT ![x] = d] /\ Z.rank = [T.rank EXCEPT ![x] = 1]
  <2> DEFINE u == T.used \cup {x}
             w == [T.data EXCEPT ![x] = d]
             k == [T.rank EXCEPT ![x] = 1]
             c == T.nodeCount + 1
             Y == [T EXCEPT !.used = u, !.data = w, !.rank = k, !.nodeCount = c]
  <2>1. u \in SUBSET Nodes /\ w \in [Nodes -> Int] /\ k \in [Nodes -> Int] /\ c \in Int
    BY <1>2 DEF Trees
  <2>2. Z = Y
    BY DEF Trees
  <2> HIDE DEF Z, u, w, k, c
  <2>3. /\ Y \in Trees /\ Y.root = T.root /\ Y.left = T.left /\ Y.right = T.right /\ Y.parent = T.parent
        /\ Y.used = u /\ Y.nodeCount = c /\ Y.data = w /\ Y.rank = k
    BY <2>1 DEF Trees
  <2> QED BY <2>2, <2>3 DEF u, w, k, c
<1> HIDE DEF Z
<1>4. SameLinks(T, Z)
  BY <1>3 DEF SameLinks, Sides
<1> QED BY <1>1, <1>2, <1>3, <1>4 DEF Leafed

\* A leaf may hang on side s of e, or be the only node.
Roomy(T, S, e, s, d) ==
    /\ At(T, e, s, NULL)
    /\ e # NULL => e \in S[T.root] /\ Fits(T, S, T.data, e, d) /\ Before(s, d, T.data[e])

\* The leaf x hangs where it belongs.
Sprouted(T, S, e, s, x, C, R, K) ==
    /\ Tied(C, R, K) /\ R[C.root] = S[T.root] \cup {x} /\ R[x] = {x} /\ At(C, e, s, x)
    /\ e # NULL => C.root = T.root
    /\ \A m \in Nodes, t \in Sides : C[t][m] = IF m = e /\ t = s THEN x ELSE T[t][m]

LEMMA SproutIs ==
    ASSUME NEW T, NEW S, Tied(T, S, T.data), NEW e \in Ids, NEW s, NEW d \in Int, Roomy(T, S, e, s, d),
           NEW x, NEW Z, Leafed(T, Z, x, d), x \notin S[T.root]
    PROVE  \E R : Sprouted(T, S, e, s, x, Hang(Z, e, s, x), R, Z.data)
<1> DEFINE C == Hang(Z, e, s, x)
           K == Z.data
<1>1. /\ x \in Nodes /\ Z \in Trees /\ Z.root = T.root /\ Z.parent = T.parent /\ \A t \in Sides : Z[t] = T[t]
      /\ K = [T.data EXCEPT ![x] = d] /\ x \in Ids /\ x # NULL
  BY NodesAre DEF Leafed, SameLinks
<1>2. /\ T.data \in [Nodes -> Int] /\ s \in Sides /\ S \in [Ids -> SUBSET Nodes] /\ S[NULL] = {}
  BY DEF Tied, Ordered, At, Roomy, Subtrees
<1>3. Hanged(Z, C, e, s, x)
  BY <1>1, <1>2, HangIs
<1> HIDE DEF C, K
<1>4. /\ C \in Trees
      /\ C.root = IF e = NULL THEN x ELSE T.root
      /\ \A m \in Nodes, t \in Sides : C[t][m] = IF m = e /\ t = s THEN x ELSE T[t][m]
      /\ \A m \in Nodes : C.parent[m] = IF e # NULL /\ m = x THEN e ELSE T.parent[m]
  BY <1>1, <1>3 DEF Hanged
<1>5. T.parent[x] = NULL /\ \A t \in Sides : T[t][x] = NULL
  BY <1>1 DEF Tied, Linked
<1>6. S[x] = {x}
  <2>1. S[x] = {x} \cup S[T["left"][x]] \cup S[T[Other("left")][x]]
    BY <1>1 DEF Tied, Subtrees, Sides
  <2>2. "left" \in Sides /\ Other("left") \in Sides
    BY SidesAre DEF Sides
  <2> QED BY <1>2, <1>5, <2>1, <2>2
<1>7. At(C, e, s, x)
  <2>1. e # NULL => e \in Nodes
    BY NodesAre
  <2> QED BY <1>2, <1>4, <2>1 DEF At
<1>8. CASE e # NULL
  <2> DEFINE R == Extended(S, e, x)
  <2>1. e \in S[T.root] /\ Fits(T, S, T.data, e, d) /\ Before(s, d, T.data[e]) /\ T[s][e] = NULL
    BY <1>8 DEF Roomy, At
  <2>2. Grown(T, C, e, s, x)
    BY <1>4, <1>8 DEF Grown
  <2>3. Tied(C, R, K) /\ R[C.root] = S[T.root] \cup {x}
    <3>1. x \in Nodes \ S[T.root]
      BY <1>1
    <3> QED BY <1>1, <1>2, <2>1, <2>2, <3>1, GrownTied
  <2>4. R[x] = {x}
    <3>1. e \notin S[x]
      BY <1>6, <2>1
    <3> QED BY <1>1, <1>6, <3>1 DEF Extended
  <2> HIDE DEF R
  <2>5. Sprouted(T, S, e, s, x, C, R, K)
    BY <1>4, <1>7, <1>8, <2>3, <2>4 DEF Sprouted
  <2> QED BY <2>5 DEF C, K
<1>9. CASE e = NULL
  <2>1. T.root = NULL /\ S[T.root] = {} /\ C.root = x
    BY <1>2, <1>4, <1>9 DEF Roomy, At
  <2>2. \A m \in Nodes : T.parent[m] = NULL /\ \A t \in Sides : T[t][m] = NULL
    BY <2>1 DEF Tied, Linked
  <2>3. \A m \in Nodes : C.parent[m] = NULL /\ \A t \in Sides : C[t][m] = NULL
    BY <1>4, <1>9, <2>2, NodesAre
  <2>4. Subtrees(C, S)
    <3>1. \A m \in Nodes, t \in Sides : C[t][m] = T[t][m]
      BY <2>2, <2>3
    <3>2. \A t \in Sides : Other(t) \in Sides
      BY SidesAre
    <3> QED BY <3>1, <3>2 DEF Tied, Subtrees
  <2>5. Ordered(C, S, K)
    BY <1>1, <1>2, <2>3 DEF Ordered
  <2>6. Linked(C, S)
    BY <1>1, <1>6, <2>1, <2>3 DEF Linked
  <2>7. Sprouted(T, S, e, s, x, C, S, K)
    BY <1>4, <1>6, <1>7, <1>9, <2>1, <2>4, <2>5, <2>6 DEF Sprouted, Tied
  <2> QED BY <2>7 DEF C, K
<1> QED BY <1>8, <1>9

\* A new leaf is good.
LEMMA LeafGood ==
    ASSUME NEW T, NEW S, Tied(T, S, T.data), \A a \in S[T.root] : Level(T, a),
           NEW e \in Ids, NEW s, NEW d \in Int, Roomy(T, S, e, s, d), CanAlloc(T), S[T.root] = T.used
    PROVE  LET Z == Leaf(T, d).tree
               x == Leaf(T, d).node
           IN  Good("insert", T, S, NULL, e, s, d, Z, S[T.root] \cup {x}, Z.data, Leaf(T, d))
<1> DEFINE Z == Leaf(T, d).tree
           x == Leaf(T, d).node
           C == Hang(Z, e, s, x)
           K == Z.data
<1>1. T \in Trees
  BY DEF Tied
<1>2. Leafed(T, Z, x, d)
  BY <1>1, LeafIs
<1> HIDE DEF Z, x
<1>3. x \in Nodes /\ x \notin S[T.root] /\ Z \in Trees /\ s \in Sides /\ x \in Ids /\ x # NULL
  BY <1>2, NodesAre DEF Leafed, Roomy, At
<1>4. PICK R : Sprouted(T, S, e, s, x, C, R, K)
  BY <1>2, <1>3, SproutIs
<1>5. Hanged(Z, C, e, s, x)
  BY <1>3, HangIs
<1> HIDE DEF C, K
<1>6. SameRest(Z, C) /\ C.rank = [T.rank EXCEPT ![x] = 1] /\ C \in Trees
  BY <1>2, <1>5 DEF Hanged, Leafed
<1>7. C.rank[x] = 1 /\ \A a \in Nodes : a # x => C.rank[a] = T.rank[a]
  <2>1. T.rank \in [Nodes -> Int]
    BY <1>1, FieldsAre
  <2> QED BY <1>3, <1>6, <2>1
<1>8. \A a \in Ids : a # x => Height(C, a) = Height(T, a)
  BY <1>7, NodesAre DEF Height
<1>9. /\ Tied(C, R, K) /\ R[C.root] = S[T.root] \cup {x} /\ R[x] = {x} /\ At(C, e, s, x)
      /\ e # NULL => C.root = T.root
      /\ \A m \in Nodes, t \in Sides : C[t][m] = IF m = e /\ t = s THEN x ELSE T[t][m]
  BY <1>4 DEF Sprouted
<1>10. ASSUME NEW t \in Sides PROVE T[t][x] = NULL
  BY <1>3 DEF Tied, Linked
<1>11. S[T.root] \subseteq Nodes /\ \A a \in Nodes, t \in Sides : T[t][a] \in Ids /\ T[t][a] # x
  <2>1. S[T.root] \subseteq Nodes
    BY InsideIs
  <2>2. ASSUME NEW a \in Nodes, NEW t \in Sides PROVE T[t][a] \in Ids /\ T[t][a] # x
    <3>1. T[t][a] \in Ids /\ (T[t][a] # NULL => T[t][a] \in S[T.root])
      BY HangsIs, InsideIs
    <3> QED BY <1>3, <3>1
  <2> QED BY <2>1, <2>2
<1>12. x # e
  BY <1>3 DEF Roomy
<1>13. ASSUME NEW a \in R[C.root], a # e PROVE Level(C, a)
  <2>1. CASE a = x
    <3>1. ASSUME NEW t \in Sides PROVE Height(C, C[t][x]) = 0
      BY <1>3, <1>9, <1>10, <1>12 DEF Height
    <3> QED BY <1>7, <2>1, <3>1 DEF Level, Lies, Max2, Sides
  <2>2. CASE a # x
    <3>1. a \in Nodes /\ Level(T, a) /\ a \in S[T.root]
      BY <1>9, <1>11, <2>2
    <3>2. ASSUME NEW t \in Sides PROVE C[t][a] = T[t][a] /\ Height(C, T[t][a]) = Height(T, T[t][a])
      BY <1>8, <1>9, <1>11, <1>13, <3>1
    <3>3. C.rank[a] = T.rank[a]
      BY <1>7, <2>2, <3>1
    <3> QED BY <3>1, <3>2, <3>3 DEF Level, Sides
  <2> QED BY <2>1, <2>2
<1>14. Kept(T, S, NULL, e, s, C, R)
  <2> SUFFICES ASSUME NEW a \in S[T.root] \ S[NULL]
               PROVE  /\ a \in R[C.root] /\ C.rank[a] = T.rank[a]
                      /\ \A t \in Sides : (a = e /\ t = s) \/ C[t][a] = T[t][a]
    BY DEF Kept
  <2>1. a \in Nodes /\ a # x
    BY <1>3, <1>11
  <2> QED BY <1>7, <1>9, <2>1
<1>15. Renewed(T, S, NULL, e, s, C, R, K, x, {e})
  <2>1. R[x] \subseteq S[NULL] \cup (Nodes \ S[T.root])
    BY <1>3, <1>9
  <2>2. \A a \in R[C.root] : a \in {e} \/ Level(C, a)
    BY <1>13
  <2> QED BY <1>9, <1>14, <2>1, <2>2 DEF Renewed
<1>16. Height(C, x) = 1 /\ Height(T, NULL) = 0
  BY <1>3, <1>7 DEF Height
<1>17. Height(C, x) - Height(T, NULL) \in Change("insert")
  BY <1>16 DEF Change
<1> QED BY <1>6, <1>9, <1>15, <1>17 DEF Good, C, K, Z, x

\* What becomes of the heap and of the nodes of the tree when d is inserted.
Inserted(T, S, d, B, N) ==
    IF FindSorted(T, d) = NULL /\ CanAlloc(T)
    THEN \E x : Leafed(T, B, x, d) /\ N = S[T.root] \cup {x}
    ELSE B = T /\ N = S[T.root]

\* The end of the way down.
LEMMA WayDown ==
    ASSUME NEW T, NEW S, Tied(T, S, T.data), NEW d \in Int, T.root # NULL
    PROVE  LET e == Descend(T, T.root, d)
               s == SideOf(T, d, e)
           IN  /\ T.root \in Nodes /\ e \in Nodes /\ Leading(T, S, T.root, e, d) /\ Fits(T, S, T.data, e, d)
               /\ e \in S[T.root] /\ (T.data[e] = d <=> FindSorted(T, d) # NULL)
               /\ s \in Sides /\ (T.data[e] # d => T[s][e] = NULL /\ Before(s, d, T.data[e]) /\ At(T, e, s, NULL))
<1> DEFINE e == Descend(T, T.root, d)
           s == SideOf(T, d, e)
<1>1. IsPlace(T, S, T.data, d, e)
  BY DescendIs
<1>2. FindSorted(T, d) = IF T.data[e] = d THEN e ELSE NULL
  BY DEF FindSorted
<1> HIDE DEF e
<1>3. T.root \in Nodes /\ S[T.root] \subseteq Nodes /\ T.data \in [Nodes -> Int]
  <2>1. T.root \in Nodes /\ S[T.root] \subseteq Nodes
    BY InsideIs, NodesAre
  <2> QED BY <2>1 DEF Tied, Ordered
<1>4. e \in S[T.root] /\ Fits(T, S, T.data, e, d) /\ e \in Nodes /\ e # NULL
      /\ (T.data[e] # d => T[s][e] = NULL)
  BY <1>1, <1>3, NodesAre DEF IsPlace, SideOf
<1>5. Leading(T, S, T.root, e, d)
  BY <1>3, <1>4 DEF Leading, Fits
<1>6. s \in Sides /\ (T.data[e] # d => Before(s, d, T.data[e]))
  <2>1. T.data[e] \in Int
    BY <1>3, <1>4
  <2> QED BY <2>1 DEF SideOf, Sides, Before
<1>7. T.data[e] # d => At(T, e, s, NULL)
  <2> HIDE DEF s
  <2> QED BY <1>4, <1>6 DEF At
<1> QED BY <1>2, <1>3, <1>4, <1>5, <1>6, <1>7 DEF e

\* InsertHelper leaves a good tree.
LEMMA InsertGood ==
    ASSUME NEW T, NEW S, Tied(T, S, T.data), \A a \in S[T.root] : Level(T, a), S[T.root] = T.used, NEW d \in Int
    PROVE  \E B, N : /\ Inserted(T, S, d, B, N)
                     /\ Good("insert", T, S, T.root, NULL, "left", d, B, N, B.data, InsertHelper(T, T.root, d))
<1> DEFINE Z == Leaf(T, d).tree
           x == Leaf(T, d).node
           M == S[T.root] \cup {x}
           added == FindSorted(T, d) = NULL /\ CanAlloc(T)
           B == IF added THEN Z ELSE T
           N == IF added THEN M ELSE S[T.root]
           K == B.data
<1>1. PICK f : Unwinds("insert", T, d, f) /\ InsertHelper(T, T.root, d) = f[T.root]
  BY InsertIs
<1>2. CanAlloc(T) => Leafed(T, Z, x, d)
  <2>1. T \in Trees
    BY DEF Tied
  <2> QED BY <2>1, LeafIs
<1>3. \A e \in Ids : \A s : Roomy(T, S, e, s, d) /\ CanAlloc(T)
          => Good("insert", T, S, NULL, e, s, d, Z, M, Z.data, Leaf(T, d))
  BY LeafGood
<1>4. f[NULL] = IF CanAlloc(T) THEN Leaf(T, d) ELSE [tree |-> T, node |-> NULL]
  BY <1>1, NodesAre DEF Unwinds, Back, InsertBack
<1> HIDE DEF Z, x, M
<1>5. Inserted(T, S, d, B, N)
  BY <1>2 DEF Inserted, M
<1>6. ASSUME NEW e \in Ids, NEW s, Roomy(T, S, e, s, d), FindSorted(T, d) = NULL
      PROVE  Good("insert", T, S, NULL, e, s, d, B, N, K, f[NULL])
  <2>1. CASE CanAlloc(T)
    BY <1>3, <1>4, <1>6, <2>1
  <2>2. CASE ~CanAlloc(T)
    <3>1. Good("insert", T, S, NULL, e, s, d, T, S[T.root], T.data, [tree |-> T, node |-> NULL])
      BY <1>6, NodesAre, UnchangedGood DEF Roomy
    <3> QED BY <1>4, <2>2, <3>1
  <2> QED BY <2>1, <2>2
<1>7. CASE T.root = NULL
  <2>1. Roomy(T, S, NULL, "left", d)
    BY <1>7 DEF Roomy, At, Sides
  <2>2. FindSorted(T, d) = NULL
    BY <1>7 DEF FindSorted
  <2>3. Good("insert", T, S, NULL, NULL, "left", d, B, N, K, f[NULL])
    BY <1>6, <2>1, <2>2, NodesAre
  <2> HIDE DEF B, N
  <2> QED BY <1>1, <1>5, <1>7, <2>3
<1>8. CASE T.root # NULL
  <2> DEFINE e == Descend(T, T.root, d)
             s == SideOf(T, d, e)
  <2>1. /\ T.root \in Nodes /\ e \in Nodes /\ Leading(T, S, T.root, e, d) /\ Fits(T, S, T.data, e, d)
        /\ e \in S[T.root] /\ (T.data[e] = d <=> FindSorted(T, d) # NULL)
        /\ s \in Sides /\ (T.data[e] # d => T[s][e] = NULL /\ Before(s, d, T.data[e]) /\ At(T, e, s, NULL))
    BY <1>8, WayDown
  <2> HIDE DEF e
  <2>2. \A m \in S[T.root] : B.data[m] = T.data[m]
    <3>1. CASE added
      <4>1. Z.data = [T.data EXCEPT ![x] = d] /\ x \notin S[T.root]
        BY <1>2, <3>1 DEF Leafed
      <4>2. S[T.root] \subseteq Nodes /\ T.data \in [Nodes -> Int]
        BY InsideIs DEF Tied, Ordered
      <4> QED BY <3>1, <4>1, <4>2
    <3>2. CASE ~added
      BY <3>2
    <3> QED BY <3>1, <3>2
  <2>3. ASSUME NEW p \in Ids, NEW q, At(T, p, q, e)
        PROVE  Good("insert", T, S, e, p, q, d, B, N, K, f[e])
    <3>0. e \in Ids /\ e # NULL
      BY <2>1, NodesAre
    <3>1. CASE T.data[e] = d
      <4>1. f[e] = [tree |-> T, node |-> e]
        BY <1>1, <3>0, <3>1 DEF Unwinds, Back, InsertBack
      <4>2. B = T /\ N = S[T.root]
        BY <2>1, <3>1
      <4>3. Good("insert", T, S, e, p, q, d, T, S[T.root], T.data, [tree |-> T, node |-> e])
        BY <2>3, <3>0, UnchangedGood
      <4> QED BY <4>1, <4>2, <4>3
    <3>2. CASE T.data[e] # d
      <4>1. Roomy(T, S, e, s, d) /\ FindSorted(T, d) = NULL
        BY <2>1, <3>2 DEF Roomy
      <4>2. Good("insert", T, S, NULL, e, s, d, B, N, K, f[NULL])
        <5> HIDE DEF B, N, s
        <5> QED BY <1>6, <3>0, <4>1
      <4>3. T[s][e] = NULL /\ SideOf(T, d, e) = s
        BY <2>1, <3>2
      <4> HIDE DEF B, N, s
      <4>4. B.data[e] = T.data[e]
        BY <2>1, <2>2
      <4> QED BY <1>1, <2>1, <2>3, <3>2, <4>2, <4>3, <4>4, StepGood
    <3> QED BY <3>1, <3>2
  <2> HIDE DEF B, N, s
  <2>4. \A p \in Ids : \A q : At(T, p, q, T.root) => Good("insert", T, S, T.root, p, q, d, B, N, K, f[T.root])
    BY <1>1, <2>1, <2>2, <2>3, ClimbsGood
  <2>5. At(T, NULL, "left", T.root) /\ NULL \in Ids
    BY NodesAre DEF At, Sides
  <2> QED BY <1>1, <1>5, <2>4, <2>5
<1> QED BY <1>7, <1>8

-----------------------------------------------------------------------------
\* A node is freed.

Freed(T, A, y) ==
    /\ A \in Trees /\ A.root = T.root /\ A.used = T.used \ {y} /\ A.nodeCount = T.nodeCount - 1
    /\ A.data = [T.data EXCEPT ![y] = 0] /\ A.rank = [T.rank EXCEPT ![y] = 0]
    /\ A.parent = [T.parent EXCEPT ![y] = NULL] /\ \A t \in Sides : A[t] = [T[t] EXCEPT ![y] = NULL]

\* It is, and the count with it.
LEMMA FreedIs ==
    ASSUME NEW T \in Trees, NEW y \in Nodes
    PROVE  Freed(T, [Free(T, y) EXCEPT !.nodeCount = @ - 1], y)
<1> DEFINE A == [Free(T, y) EXCEPT !.nodeCount = @ - 1]
           u == T.used \ {y}
           l == [T.left EXCEPT ![y] = NULL]
           r == [T.right EXCEPT ![y] = NULL]
           p == [T.parent EXCEPT ![y] = NULL]
           w == [T.data EXCEPT ![y] = 0]
           k == [T.rank EXCEPT ![y] = 0]
           Y == [T EXCEPT !.used = u, !.left = l, !.right = r, !.parent = p, !.data = w, !.rank = k]
           c == T.nodeCount - 1
           Z == [Y EXCEPT !.nodeCount = c]
<1>1. /\ u \in SUBSET Nodes /\ l \in [Nodes -> Ids] /\ r \in [Nodes -> Ids] /\ p \in [Nodes -> Ids]
      /\ w \in [Nodes -> Int] /\ k \in [Nodes -> Int] /\ c \in Int
  BY NodesAre DEF Trees
<1>2. Free(T, y) = Y
  BY DEF Free, Trees
<1> HIDE DEF u, l, r, p, w, k
<1>3. /\ Y \in Trees /\ Y.root = T.root /\ Y.left = l /\ Y.right = r /\ Y.parent = p
      /\ Y.used = u /\ Y.nodeCount = T.nodeCount /\ Y.data = w /\ Y.rank = k
  BY <1>1 DEF Trees
<1> HIDE DEF Y
<1>4. A = Z
  BY <1>2, <1>3
<1> HIDE DEF c, A
<1>5. /\ Z \in Trees /\ Z.root = T.root /\ Z.left = l /\ Z.right = r /\ Z.parent = p
      /\ Z.used = u /\ Z.nodeCount = c /\ Z.data = w /\ Z.rank = k
  BY <1>1, <1>3 DEF Trees
<1>6. Freed(T, A, y)
  <2>1. ASSUME NEW t \in Sides PROVE A[t] = [T[t] EXCEPT ![y] = NULL]
    BY <1>4, <1>5 DEF Sides, l, r
  <2> QED BY <1>4, <1>5, <2>1 DEF Freed, u, p, w, k, c
<1> QED BY <1>6 DEF A

\* A leaf that is cut off is good.
LEMMA CutGood ==
    ASSUME NEW T, NEW S, NEW K, Tied(T, S, K), \A a \in S[T.root] : Level(T, a),
           NEW y \in Nodes, NEW p \in Ids, NEW q, At(T, p, q, y), \A t \in Sides : T[t][y] = NULL,
           NEW op, op # "insert", NEW d, NEW res, res.node = NULL,
           NEW C, C = Hang(res.tree, p, q, NULL), Cut(T, C, y, NULL),
           \A a \in Nodes : a # y => C.rank[a] = T.rank[a], NEW B, SameRest(B, C)
    PROVE  /\ Good(op, T, S, y, p, q, d, B, S[T.root] \ {y}, K, res)
           /\ Tied(C, Without(S, y), K)
<1> DEFINE R == Without(S, y)
<1>1. /\ T.parent[y] = p /\ y \in S[T.root] /\ q \in Sides /\ y # p
      /\ \A m \in Nodes, s \in Sides : T[s][m] = y => m = p /\ s = q
      /\ p # NULL => p \in S[T.root] /\ T.root # y /\ p \notin S[y]
      /\ p = NULL => T.root = y
  BY PlaceIs
<1>2. Tied(C, R, K) /\ R[C.root] = S[T.root] \ {y}
  <2>1. "left" \in Sides /\ T[Other("left")][y] = NULL /\ T["left"][y] = NULL
    BY SidesAre DEF Sides
  <2> QED BY <1>1, <2>1, CutTied
<1>3. /\ C \in Trees /\ C.root = IF T.root = y THEN NULL ELSE T.root
      /\ \A m \in Nodes, t \in Sides :
            C[t][m] = IF m = y THEN NULL ELSE IF T[t][m] = y THEN NULL ELSE T[t][m]
  BY DEF Cut
<1>4. R[NULL] = {}
  BY NodesAre DEF Without, Tied, Subtrees
<1> HIDE DEF R
<1>5. At(C, p, q, NULL) /\ (p # NULL => C.root = T.root)
  <2>1. CASE p = NULL
    BY <1>1, <1>3, <2>1 DEF At
  <2>2. CASE p # NULL
    <3>1. p \in Nodes /\ T[q][p] = y
      BY <2>2 DEF At
    <3> QED BY <1>1, <1>3, <2>2, <3>1 DEF At
  <2> QED BY <2>1, <2>2
<1>6. S[T.root] \subseteq Nodes /\ y \in S[y]
  BY InsideIs, SelfIs
<1>7. Kept(T, S, y, p, q, C, R)
  <2> SUFFICES ASSUME NEW a \in S[T.root] \ S[y]
               PROVE  /\ a \in R[C.root] /\ C.rank[a] = T.rank[a]
                      /\ \A t \in Sides : (a = p /\ t = q) \/ C[t][a] = T[t][a]
    BY DEF Kept
  <2>1. a \in Nodes /\ a # y /\ a \in R[C.root]
    BY <1>2, <1>6
  <2> QED BY <1>1, <1>3, <2>1
<1>8. ASSUME NEW a \in R[C.root], a # p PROVE Level(C, a)
  <2>1. a \in Nodes /\ a # y /\ Level(T, a)
    BY <1>2, <1>6
  <2>2. ASSUME NEW t \in Sides PROVE C[t][a] = T[t][a] /\ Height(C, T[t][a]) = Height(T, T[t][a])
    <3>1. T[t][a] # y
      BY <1>1, <1>8, <2>1
    <3>2. T[t][a] \in Ids
      BY <2>1, HangsIs
    <3> QED BY <1>3, <2>1, <3>1, <3>2, NodesAre DEF Height
  <2> QED BY <2>1, <2>2 DEF Level, Sides
<1>9. Renewed(T, S, y, p, q, C, R, K, NULL, {p})
  <2>1. R[NULL] \subseteq S[y] \cup (Nodes \ S[T.root])
    BY <1>4
  <2> QED BY <1>2, <1>5, <1>7, <1>8, <2>1 DEF Renewed
<1>10. Height(C, NULL) = 0 /\ Height(T, y) = 1
  <2>1. Level(T, y)
    BY <1>1
  <2>2. \A t \in Sides : Height(T, T[t][y]) = 0
    BY DEF Height
  <2>3. T.rank[y] = 1
    BY <2>1, <2>2 DEF Level, Lies, Max2, Sides
  <2> QED BY <2>3, NodesAre DEF Height
<1>11. Height(C, NULL) - Height(T, y) \in Change(op)
  BY <1>10 DEF Change
<1> QED BY <1>2, <1>9, <1>11 DEF Good, R

-----------------------------------------------------------------------------
\* Removal of a node with one child at most.

\* y, which is n or n's only child, is freed; n has its data then.
Dropped(T, S, n, y, B) ==
    /\ S[n] = {n, y}
    /\ B.used = T.used \ {y} /\ B.nodeCount = T.nodeCount - 1 /\ B.data \in [Nodes -> Int]
    /\ \A a \in Nodes : a # y => B.data[a] = IF a = n THEN T.data[y] ELSE T.data[a]

\* An only child is a leaf.
LEMMA OnlyChild ==
    ASSUME NEW T, NEW S, NEW K, Tied(T, S, K), \A a \in S[T.root] : Level(T, a),
           NEW n \in S[T.root], NEW s \in Sides, NEW x, T[s][n] = x, x # NULL, T[Other(s)][n] = NULL
    PROVE  /\ x \in Nodes /\ n \in Nodes /\ x # n /\ x \in S[T.root] /\ S[n] = {n, x} /\ T.root # x
           /\ \A t \in Sides : T[t][x] = NULL
<1>1. n \in Nodes /\ S[T.root] \subseteq Nodes
  BY InsideIs
<1>2. x \in Nodes /\ x # n /\ x \in S[T.root] /\ T.parent[x] = n
  BY <1>1, HangsIs, InsideIs
<1>3. T.root # x
  BY <1>1, <1>2, InsideIs, NodesAre
<1>4. Lies(T.rank[n], Height(T, x), Height(T, NULL))
  <2>1. Level(T, n)
    OBVIOUS
  <2> QED BY <2>1, LevelIs
<1>5. T.rank[x] <= 1
  BY <1>4 DEF Lies, Height
<1>6. ASSUME NEW t \in Sides PROVE T[t][x] = NULL
  <2>1. Height(T, T[t][x]) \in Nat /\ T.rank[x] > Height(T, T[t][x]) /\ T.rank[x] \in Nat
    BY <1>2, LevelHeights
  <2>2. Height(T, T[t][x]) = 0
    BY <1>5, <2>1
  <2>3. CASE T[t][x] # NULL
    <3> DEFINE c == T[t][x]
    <3>1. c \in S[T.root]
      BY <1>2, <2>3, InsideIs
    <3>2. Level(T, c) /\ "left" \in Sides
      BY <3>1 DEF Sides
    <3> HIDE DEF c
    <3>3. T.rank[c] > Height(T, T["left"][c]) /\ Height(T, T["left"][c]) \in Nat /\ T.rank[c] \in Nat
      BY <3>2, LevelHeights
    <3>4. T.rank[c] = 0
      BY <2>2, <2>3 DEF Height, c
    <3> QED BY <3>3, <3>4
  <2> QED BY <2>3
<1>7. S[n] = {n, x}
  <2>1. S[n] = {n} \cup S[x] \cup S[NULL]
    BY <1>1, ChildIs
  <2>2. S[x] = {x} \cup S[T["left"][x]] \cup S[T[Other("left")][x]] /\ S[NULL] = {}
    BY <1>2 DEF Tied, Subtrees, Sides
  <2>3. T["left"][x] = NULL /\ T[Other("left")][x] = NULL
    BY <1>6, SidesAre DEF Sides
  <2> QED BY <2>1, <2>2, <2>3
<1> QED BY <1>1, <1>2, <1>3, <1>6, <1>7

\* A leaf is dropped.
LEMMA DropLeaf ==
    ASSUME NEW T, NEW S, NEW K, Tied(T, S, K), \A a \in S[T.root] : Level(T, a),
           NEW n \in S[T.root], \A t \in Sides : T[t][n] = NULL, NEW op, op # "insert", NEW d
    PROVE  \E B : /\ Dropped(T, S, n, n, B)
                  /\ \A p \in Ids : \A q : At(T, p, q, n) =>
                        Good(op, T, S, n, p, q, d, B, S[T.root] \ {n}, K, DropOne(T, n))
<1> DEFINE B == [Free(T, n) EXCEPT !.nodeCount = @ - 1]
<1>1. n \in Nodes /\ T \in Trees
  BY InsideIs DEF Tied
<1>2. DropOne(T, n) = [tree |-> B, node |-> NULL]
  BY DEF DropOne, Sides
<1>3. Freed(T, B, n)
  BY <1>1, FreedIs
<1> HIDE DEF B
<1>4. /\ B \in Trees /\ T.data \in [Nodes -> Int] /\ T.rank \in [Nodes -> Int] /\ T.parent \in [Nodes -> Ids]
      /\ \A m \in Nodes, t \in Sides : B[t][m] = IF m = n THEN NULL ELSE T[t][m]
  <2>1. B \in Trees /\ \A t \in Sides : B[t] = [T[t] EXCEPT ![n] = NULL]
    BY <1>3 DEF Freed
  <2>2. /\ T.data \in [Nodes -> Int] /\ T.rank \in [Nodes -> Int] /\ T.parent \in [Nodes -> Ids]
        /\ \A t \in Sides : T[t] \in [Nodes -> Ids]
    BY <1>1, FieldsAre
  <2>3. \A m \in Nodes, t \in Sides : B[t][m] = IF m = n THEN NULL ELSE T[t][m]
    BY <2>1, <2>2
  <2> QED BY <2>1, <2>2, <2>3
<1>5. Dropped(T, S, n, n, B)
  <2>1. S[n] = {n, n}
    <3>1. S[n] = {n} \cup S[T["left"][n]] \cup S[T[Other("left")][n]] /\ S[NULL] = {}
      BY <1>1 DEF Tied, Subtrees, Sides
    <3>2. T["left"][n] = NULL /\ T[Other("left")][n] = NULL
      BY SidesAre DEF Sides
    <3> QED BY <3>1, <3>2
  <2>2. B.data \in [Nodes -> Int]
    BY <1>4, FieldsAre
  <2>3. \A a \in Nodes : a # n => B.data[a] = T.data[a]
    BY <1>3, <1>4 DEF Freed
  <2>4. B.used = T.used \ {n} /\ B.nodeCount = T.nodeCount - 1
    BY <1>3 DEF Freed
  <2> QED BY <2>1, <2>2, <2>3, <2>4 DEF Dropped
<1>6. ASSUME NEW p \in Ids, NEW q, At(T, p, q, n)
      PROVE  Good(op, T, S, n, p, q, d, B, S[T.root] \ {n}, K, DropOne(T, n))
  <2> DEFINE C == Hang(B, p, q, NULL)
  <2>1. /\ T.parent[n] = p /\ q \in Sides /\ n # p
        /\ \A m \in Nodes, s \in Sides : T[s][m] = n => m = p /\ s = q
        /\ p # NULL => T.root # n
        /\ p = NULL => T.root = n
    BY <1>1, <1>6, PlaceIs
  <2>2. Hanged(B, C, p, q, NULL)
    BY <1>4, <2>1, NodesAre, HangIs
  <2> HIDE DEF C
  <2>3. Cut(T, C, n, NULL)
    <3>1. C \in Trees /\ C.root = IF T.root = n THEN NULL ELSE T.root
      BY <1>3, <2>1, <2>2 DEF Hanged, Freed
    <3>2. ASSUME NEW m \in Nodes, NEW t \in Sides
          PROVE  C[t][m] = IF m = n THEN NULL ELSE IF T[t][m] = n THEN NULL ELSE T[t][m]
      <4>1. C[t][m] = (IF m = p /\ t = q THEN NULL ELSE B[t][m])
        BY <2>2 DEF Hanged
      <4>2. B[t][m] = IF m = n THEN NULL ELSE T[t][m]
        BY <1>4
      <4>3. m = p /\ t = q => T[t][m] = n
        BY <1>6, NodesAre DEF At
      <4> QED BY <2>1, <4>1, <4>2, <4>3
    <3>3. ASSUME NEW m \in Nodes
          PROVE  C.parent[m] = IF m = n THEN NULL ELSE IF m = NULL THEN T.parent[n] ELSE T.parent[m]
      <4>1. m # NULL
        BY NodesAre
      <4>2. C.parent[m] = B.parent[m]
        BY <2>2, <4>1 DEF Hanged
      <4> QED BY <1>3, <1>4, <4>1, <4>2 DEF Freed
    <3> QED BY <3>1, <3>2, <3>3 DEF Cut
  <2>4. SameRest(B, C) /\ \A a \in Nodes : a # n => C.rank[a] = T.rank[a]
    BY <1>3, <1>4, <2>2 DEF Hanged, Freed
  <2> DEFINE res == [tree |-> B, node |-> NULL]
  <2>5. res.node = NULL /\ C = Hang(res.tree, p, q, NULL)
    BY DEF C
  <2> HIDE DEF res
  <2>6. Good(op, T, S, n, p, q, d, B, S[T.root] \ {n}, K, res)
    BY <1>1, <1>6, <2>3, <2>4, <2>5, CutGood
  <2> QED BY <1>2, <2>6 DEF res
<1> QED BY <1>5, <1>6

\* n takes over the data of its only child, which is freed.
Overtaken(T, Z, n, s, x) ==
    /\ Z \in Trees /\ Z.root = T.root /\ Z.used = T.used \ {x} /\ Z.nodeCount = T.nodeCount - 1
    /\ Z.data = [T.data EXCEPT ![n] = T.data[x], ![x] = 0] /\ Z.rank = [T.rank EXCEPT ![x] = 0]
    /\ Z.parent = [T.parent EXCEPT ![x] = NULL]
    /\ \A m \in Nodes, t \in Sides : Z[t][m] = IF m = n \/ m = x THEN NULL ELSE T[t][m]

LEMMA OvertakenIs ==
    ASSUME NEW T \in Trees, NEW n \in Nodes, NEW x \in Nodes, x # n, NEW s \in Sides, T[s][n] = x,
           T[Other(s)][n] = NULL, \A t \in Sides : T[t][x] = NULL
    PROVE  \E Z : Overtaken(T, Z, n, s, x) /\ DropOne(T, n) = Lightened(Z, n)
<1> DEFINE T0 == [T EXCEPT !.data[n] = T.data[x]]
           T1 == Attach(Attach(T0, n, "left", NULL), n, "right", NULL)
           Z == [Free(T1, x) EXCEPT !.nodeCount = @ - 1]
<1>1. DropOne(T, n) = Lightened(Z, n)
  <2>1. x # NULL /\ T.left[x] = NULL /\ T.right[x] = NULL
    BY NodesAre DEF Sides
  <2>2. x = IF T.left[n] # NULL THEN T.left[n] ELSE T.right[n]
    BY <2>1 DEF Sides, Other
  <2> QED BY <2>1, <2>2 DEF DropOne
<1>2. /\ T.data \in [Nodes -> Int] /\ T.rank \in [Nodes -> Int] /\ T.parent \in [Nodes -> Ids]
      /\ T.left \in [Nodes -> Ids] /\ T.right \in [Nodes -> Ids]
  BY DEF Trees
<1>3. /\ T0 \in Trees /\ T0.root = T.root /\ T0.used = T.used /\ T0.nodeCount = T.nodeCount
      /\ T0.data = [T.data EXCEPT ![n] = T.data[x]] /\ T0.rank = T.rank /\ T0.parent = T.parent
      /\ T0.left = T.left /\ T0.right = T.right
  BY <1>2 DEF Trees
<1> HIDE DEF T0
<1>4. "left" \in Sides /\ "right" \in Sides /\ NULL \in Ids /\ \A m \in Nodes : m # NULL
  BY NodesAre DEF Sides
<1> DEFINE U == Attach(T0, n, "left", NULL)
<1>5. Attached(T0, U, n, "left", NULL)
  BY <1>3, <1>4, AttachIs
<1> HIDE DEF U
<1>6. T1 = Attach(U, n, "right", NULL)
  BY DEF U
<1>7. Attached(U, T1, n, "right", NULL)
  <2>1. U \in Trees
    BY <1>5 DEF Attached
  <2> QED BY <1>4, <1>6, <2>1, AttachIs
<1> HIDE DEF T1
<1>8. /\ T1 \in Trees /\ T1.root = T.root /\ T1.used = T.used /\ T1.nodeCount = T.nodeCount
      /\ T1.data = [T.data EXCEPT ![n] = T.data[x]] /\ T1.rank = T.rank
      /\ \A m \in Nodes : T1.parent[m] = T.parent[m]
      /\ \A m \in Nodes, t \in Sides : T1[t][m] = IF m = n THEN NULL ELSE T[t][m]
  <2>1. /\ T1 \in Trees /\ T1.root = T.root /\ T1.used = T.used /\ T1.nodeCount = T.nodeCount
        /\ T1.data = [T.data EXCEPT ![n] = T.data[x]] /\ T1.rank = T.rank
    BY <1>3, <1>5, <1>7 DEF Attached, SameRest
  <2>2. \A m \in Nodes : T1.parent[m] = T.parent[m]
    BY <1>3, <1>4, <1>5, <1>7 DEF Attached
  <2>3. ASSUME NEW m \in Nodes, NEW t \in Sides PROVE T1[t][m] = IF m = n THEN NULL ELSE T[t][m]
    <3>1. T1[t][m] = (IF m = n /\ t = "right" THEN NULL ELSE U[t][m])
      BY <1>7 DEF Attached
    <3>2. U[t][m] = (IF m = n /\ t = "left" THEN NULL ELSE T0[t][m])
      BY <1>5 DEF Attached
    <3>3. T0[t][m] = T[t][m]
      BY <1>3 DEF Sides
    <3> QED BY <3>1, <3>2, <3>3 DEF Sides
  <2> QED BY <2>1, <2>2, <2>3
<1>9. Freed(T1, Z, x)
  BY <1>8, FreedIs
<1> HIDE DEF Z
<1>10. Overtaken(T, Z, n, s, x)
  <2>1. /\ Z \in Trees /\ Z.root = T.root /\ Z.used = T.used \ {x} /\ Z.nodeCount = T.nodeCount - 1
        /\ Z.rank = [T.rank EXCEPT ![x] = 0]
        /\ Z.data = [T1.data EXCEPT ![x] = 0]
    BY <1>8, <1>9 DEF Freed
  <2>2. Z.data = [T.data EXCEPT ![n] = T.data[x], ![x] = 0]
    BY <1>2, <1>8, <2>1
  <2>3. Z.parent = [T.parent EXCEPT ![x] = NULL]
    <3>1. T1.parent \in [Nodes -> Ids] /\ Z.parent = [T1.parent EXCEPT ![x] = NULL]
      BY <1>8, <1>9, FieldsAre DEF Freed
    <3>2. T1.parent = T.parent
      BY <1>2, <1>8, <3>1
    <3> QED BY <3>1, <3>2
  <2>4. ASSUME NEW m \in Nodes, NEW t \in Sides PROVE Z[t][m] = IF m = n \/ m = x THEN NULL ELSE T[t][m]
    <3>1. T1[t] \in [Nodes -> Ids] /\ Z[t] = [T1[t] EXCEPT ![x] = NULL]
      BY <1>8, <1>9, FieldsAre DEF Freed
    <3> QED BY <1>8, <3>1
  <2> QED BY <2>1, <2>2, <2>3, <2>4 DEF Overtaken
<1> QED BY <1>1, <1>10 DEF Z

\* The node with the only child is put in order.
LEMMA DropChild ==
    ASSUME NEW T, NEW S, NEW K, Tied(T, S, K), \A a \in S[T.root] : Level(T, a),
           NEW n \in S[T.root], NEW s \in Sides, NEW x, T[s][n] = x, x # NULL, T[Other(s)][n] = NULL,
           NEW op, op # "insert", NEW d
    PROVE  \E B : /\ Dropped(T, S, n, x, B)
                  /\ \A p \in Ids : \A q : At(T, p, q, n) =>
                        Good(op, T, S, n, p, q, d, B, S[T.root] \ {x}, K, DropOne(T, n))
<1>1. /\ x \in Nodes /\ n \in Nodes /\ x # n /\ x \in S[T.root] /\ S[n] = {n, x} /\ T.root # x
      /\ \A t \in Sides : T[t][x] = NULL
  BY OnlyChild
<1>2. T \in Trees /\ n # NULL /\ n \in Ids
  BY <1>1, NodesAre DEF Tied
<1>3. PICK Z : Overtaken(T, Z, n, s, x) /\ DropOne(T, n) = Lightened(Z, n)
  BY <1>1, <1>2, OvertakenIs
<1>4. T.data \in [Nodes -> Int] /\ T.rank \in [Nodes -> Int] /\ T.parent \in [Nodes -> Ids] /\ Other(s) \in Sides
      /\ \A t \in Sides : t = s \/ t = Other(s)
  BY <1>2, FieldsAre, SidesAre
<1>5. Dropped(T, S, n, x, Z)
  <2>1. Z.data \in [Nodes -> Int]
    BY <1>3, FieldsAre DEF Overtaken
  <2>2. \A a \in Nodes : a # x => Z.data[a] = IF a = n THEN T.data[x] ELSE T.data[a]
    BY <1>1, <1>3, <1>4 DEF Overtaken
  <2> QED BY <1>1, <1>3, <2>1, <2>2 DEF Dropped, Overtaken
<1>6. At(T, n, s, x)
  BY <1>1, <1>2 DEF At
<1>7. Cut(T, Z, x, NULL)
  <2>1. \A m \in Nodes, t \in Sides : T[t][m] = x => m = n /\ t = s
    BY <1>1, <1>2, <1>6, PlaceIs
  <2>2. ASSUME NEW m \in Nodes, NEW t \in Sides
        PROVE  Z[t][m] = IF m = x THEN NULL ELSE IF T[t][m] = x THEN NULL ELSE T[t][m]
    <3>1. Z[t][m] = IF m = n \/ m = x THEN NULL ELSE T[t][m]
      BY <1>3 DEF Overtaken
    <3>2. m = n => T[t][m] = x \/ T[t][m] = NULL
      BY <1>4
    <3> QED BY <2>1, <3>1, <3>2
  <2>3. ASSUME NEW m \in Nodes
        PROVE  Z.parent[m] = IF m = x THEN NULL ELSE IF m = NULL THEN T.parent[x] ELSE T.parent[m]
    <3>1. m # NULL
      BY NodesAre
    <3> QED BY <1>1, <1>3, <1>4, <3>1 DEF Overtaken
  <2>4. Z \in Trees /\ Z.root = IF T.root = x THEN NULL ELSE T.root
    BY <1>1, <1>3 DEF Overtaken
  <2> QED BY <2>2, <2>3, <2>4 DEF Cut
<1>8. At(Z, n, s, NULL)
  BY <1>1, <1>2, <1>3 DEF At, Overtaken
<1>9. Tied(Z, Without(S, x), K)
  <2>1. T["left"][x] = NULL /\ T[Other("left")][x] = NULL /\ "left" \in Sides
    BY <1>1, SidesAre DEF Sides
  <2> QED BY <1>1, <1>7, <2>1, CutTied
<1>10. Hang(Z, n, s, NULL) = Z
  BY <1>2, <1>8, <1>9, NodesAre, HangSame
<1> DEFINE sub == [tree |-> Z, node |-> NULL]
<1>11. Good(op, T, S, x, n, s, d, Z, S[T.root] \ {x}, K, sub)
  <2>1. sub.node = NULL /\ Z = Hang(sub.tree, n, s, NULL)
    BY <1>10
  <2>2. SameRest(Z, Z) /\ \A a \in Nodes : a # x => Z.rank[a] = T.rank[a]
    BY <1>3, <1>4 DEF SameRest, Overtaken
  <2> HIDE DEF sub
  <2> QED BY <1>1, <1>2, <1>6, <1>7, <2>1, <2>2, CutGood
<1>12. Attach(sub.tree, n, s, sub.node) = Z
  BY <1>2, <1>10 DEF Hang
<1> HIDE DEF sub
<1>13. ASSUME NEW p \in Ids, NEW q, At(T, p, q, n)
       PROVE  Good(op, T, S, n, p, q, d, Z, S[T.root] \ {x}, K, DropOne(T, n))
  <2>1. Good(op, T, S, T[s][n], n, s, d, Z, S[T.root] \ {x}, K, sub)
    BY <1>11
  <2>2. Good(op, T, S, n, p, q, d, Z, S[T.root] \ {x}, K, Lightened(Attach(sub.tree, n, s, sub.node), n))
    BY <1>1, <1>13, <2>1, LoweredIs
  <2> QED BY <1>3, <1>12, <2>2
<1> QED BY <1>5, <1>13

\* DropOne.
LEMMA DropGood ==
    ASSUME NEW T, NEW S, NEW K, Tied(T, S, K), \A a \in S[T.root] : Level(T, a),
           NEW n \in S[T.root], NEW s \in Sides, T[s][n] = NULL, NEW op, op # "insert", NEW d
    PROVE  \E B, y : /\ Dropped(T, S, n, y, B)
                     /\ \A p \in Ids : \A q : At(T, p, q, n) =>
                           Good(op, T, S, n, p, q, d, B, S[T.root] \ {y}, K, DropOne(T, n))
<1>1. Other(s) \in Sides /\ Other(Other(s)) = s /\ \A t \in Sides : t = s \/ t = Other(s)
  BY SidesAre
<1>2. CASE T[Other(s)][n] = NULL
  <2>1. \A t \in Sides : T[t][n] = NULL
    BY <1>1, <1>2
  <2>2. \E B : /\ Dropped(T, S, n, n, B)
               /\ \A p \in Ids : \A q : At(T, p, q, n) =>
                     Good(op, T, S, n, p, q, d, B, S[T.root] \ {n}, K, DropOne(T, n))
    BY <2>1, DropLeaf
  <2> QED BY <2>2
<1>3. CASE T[Other(s)][n] # NULL
  <2> DEFINE o == Other(s)
             x == T[o][n]
  <2>1. o \in Sides /\ T[o][n] = x /\ x # NULL /\ T[Other(o)][n] = NULL
    BY <1>1, <1>3
  <2> HIDE DEF o, x
  <2>2. \E B : /\ Dropped(T, S, n, x, B)
               /\ \A p \in Ids : \A q : At(T, p, q, n) =>
                     Good(op, T, S, n, p, q, d, B, S[T.root] \ {x}, K, DropOne(T, n))
    BY <2>1, DropChild
  <2> QED BY <2>2
<1> QED BY <1>2, <1>3

-----------------------------------------------------------------------------
\* Removal of a node with two children.

\* What is good depends on the links and heights alone, and removals are all alike.
LEMMA GoodAgain ==
    ASSUME NEW T, NEW U, U.root = T.root, U.rank = T.rank, \A t \in Sides : U[t] = T[t],
           NEW S, NEW m, NEW p, NEW q, NEW B, NEW N, NEW K, NEW res,
           NEW op, op # "insert", NEW d, NEW oq, oq # "insert", NEW e,
           Good(op, U, S, m, p, q, d, B, N, K, res)
    PROVE  Good(oq, T, S, m, p, q, e, B, N, K, res)
<1> DEFINE C == Hang(res.tree, p, q, res.node)
           r == res.node
<1> HIDE DEF C, r
<1>1. /\ \E R : Renewed(U, S, m, p, q, C, R, K, r, {p}) /\ R[C.root] = N
      /\ SameRest(B, C) /\ Height(C, r) - Height(U, m) \in Change(op)
  BY DEF Good, C, r
<1>2. Height(U, m) = Height(T, m) /\ Change(op) = Change(oq)
  BY DEF Height, Change
<1>3. ASSUME NEW R, Renewed(U, S, m, p, q, C, R, K, r, {p}) PROVE Renewed(T, S, m, p, q, C, R, K, r, {p})
  <2>1. Kept(T, S, m, p, q, C, R)
    BY <1>3 DEF Renewed, Kept
  <2> QED BY <1>3, <2>1 DEF Renewed
<1> QED BY <1>1, <1>2, <1>3 DEF Good, C, r

\* The successor's data go to n, and the successor is removed below.
LEMMA NextGood ==
    ASSUME NEW T, NEW S, Tied(T, S, T.data), \A a \in S[T.root] : Level(T, a),
           NEW n \in S[T.root], T["left"][n] # NULL, T["right"][n] # NULL, NEW d
    PROVE  LET e == Outermost(T, T["right"][n], "left")
               U == [T EXCEPT !.data[n] = T.data[e]]
           IN  \E B, y : /\ Dropped(U, S, e, y, B)
                         /\ \A p \in Ids : \A q : At(T, p, q, n) =>
                               Good("remove", T, S, n, p, q, d, B, S[T.root] \ {y}, T.data, RemoveHere(T, n))
<1> DEFINE K == T.data
           c == T["right"][n]
           e == Outermost(T, c, "left")
           k == K[e]
           U == [T EXCEPT !.data[n] = k]
           sub == RemoveBelow(U, c, k, DropOne)
<1>1. "left" \in Sides /\ "right" \in Sides /\ T \in Trees /\ K \in [Nodes -> Int]
  BY DEF Sides, Tied, Ordered
<1>2. n \in Nodes /\ n \in Ids /\ S[T.root] \subseteq Nodes /\ S[n] \subseteq S[T.root]
  BY InsideIs, NodesAre
<1>3. c \in Nodes /\ S[c] \subseteq S[n] /\ n \notin S[c]
  BY <1>1, <1>2, HangsIs
<1>4. RemoveHere(T, n) = Lightened(Attach(sub.tree, n, "right", sub.node), n)
  BY DEF RemoveHere, RemoveNext
<1> HIDE DEF c
<1>5. IsOutermost(T, S, K, c, "left", e)
  BY <1>1, <1>3, OutermostIs
<1> HIDE DEF e
<1>6. e \in S[c] /\ T["left"][e] = NULL /\ e \in S[T.root] /\ e \in Nodes /\ e # n
  BY <1>2, <1>3, <1>5 DEF IsOutermost
<1>7. k \in Int
  BY <1>1, <1>6
<1> HIDE DEF k
<1>8. /\ U \in Trees /\ U.root = T.root /\ U.left = T.left /\ U.right = T.right /\ U.parent = T.parent
      /\ U.rank = T.rank /\ U.data = [K EXCEPT ![n] = k]
  BY <1>1, <1>2, <1>7 DEF Trees
<1> HIDE DEF U
<1>9. \A t \in Sides : U[t] = T[t]
  BY <1>8 DEF Sides
<1>10. Tied(U, S, K)
  BY <1>1, <1>8, <1>9, TiedAgain DEF SameLinks
<1>11. ASSUME NEW a \in S[U.root] PROVE Level(U, a)
  <2>1. Level(T, a)
    BY <1>8
  <2> QED BY <1>1, <1>8, <1>9, <2>1 DEF Level, Height
<1>12. PICK g : Unwinds("next", U, k, g) /\ sub = g[c]
  BY <1>10, RemoveNextIs
<1> HIDE DEF sub
<1>13. Leading(U, S, c, e, k)
  <2> SUFFICES ASSUME NEW m \in S[c], NEW q \in Sides, e \in S[U[q][m]] PROVE Before(q, k, U.data[m])
    BY <1>6 DEF Leading
  <2>1. m \in Nodes /\ m # n /\ e \in S[T[q][m]]
    BY <1>2, <1>3, <1>9
  <2>2. Before(q, K[e], K[m])
    BY <2>1, OrderIs
  <2>3. U.data[m] = K[m]
    BY <1>1, <1>8, <2>1
  <2> QED BY <2>2, <2>3 DEF k
<1>14. PICK B, y : /\ Dropped(U, S, e, y, B)
                   /\ \A p \in Ids : \A q : At(U, p, q, e) =>
                         Good("next", U, S, e, p, q, k, B, S[U.root] \ {y}, K, DropOne(U, e))
  <2>1. e \in S[U.root] /\ U["left"][e] = NULL
    BY <1>1, <1>6, <1>8, <1>9
  <2> QED BY <1>1, <1>10, <1>11, <2>1, DropGood
<1>15. g[e] = DropOne(U, e)
  <2>1. U.data[e] = k /\ e \in Ids /\ e # NULL
    BY <1>1, <1>6, <1>8, NodesAre DEF k
  <2> QED BY <1>12, <2>1 DEF Unwinds, Back, RemoveBack
<1> DEFINE N == S[T.root] \ {y}
<1>16. \A p \in Ids : \A q : At(U, p, q, c) => Good("next", U, S, c, p, q, k, B, N, K, g[c])
  <2>1. \A p \in Ids : \A q : At(U, p, q, e) => Good("next", U, S, e, p, q, k, B, N, K, g[e])
    BY <1>8, <1>14, <1>15
  <2> HIDE DEF N
  <2> QED BY <1>3, <1>7, <1>10, <1>11, <1>12, <1>13, <2>1, ClimbsGood
<1> HIDE DEF N
<1>17. Good("next", U, S, c, n, "right", k, B, N, K, sub)
  <2>1. At(U, n, "right", c)
    BY <1>1, <1>2, <1>9, NodesAre DEF At, c
  <2> QED BY <1>2, <1>12, <1>16, <2>1
<1>18. Good("remove", T, S, T["right"][n], n, "right", d, B, N, K, sub)
  BY <1>8, <1>9, <1>17, GoodAgain DEF c
<1>19. ASSUME NEW p \in Ids, NEW q, At(T, p, q, n)
       PROVE  Good("remove", T, S, n, p, q, d, B, N, K, RemoveHere(T, n))
  <2>1. Good("remove", T, S, n, p, q, d, B, N, K, Lightened(Attach(sub.tree, n, "right", sub.node), n))
    BY <1>1, <1>2, <1>18, <1>19, LoweredIs
  <2> QED BY <1>4, <2>1
<1> QED BY <1>14, <1>19 DEF U, k, e, c, N

-----------------------------------------------------------------------------
\* What a removal does to the data.

\* n, e and y follow each other in the order of K; each hands its data to the one before, and y is gone.
Shifted(X, K, n, e, y, L) ==
    /\ n \in X /\ e \in X /\ y \in X /\ (n = e => e = y)
    /\ (K[n] <= K[e] /\ K[e] <= K[y]) \/ (K[n] >= K[e] /\ K[e] >= K[y])
    /\ \A a \in X : a \in {n, e, y} \/ (\A b \in {n, e, y} : K[a] < K[b]) \/ (\A b \in {n, e, y} : K[a] > K[b])
    /\ \A a \in X : a # y => L[a] = IF a = n THEN K[e] ELSE IF a = e THEN K[y] ELSE K[a]

\* No two nodes of X have one key.
Distinct(X, K) == (\A a \in X : K[a] \in Int) /\ \A a, b \in X : K[a] = K[b] => a = b

\* The order of the others stays, and n's data are gone.
LEMMA ShiftedIs ==
    ASSUME NEW X, NEW K, Distinct(X, K), NEW n, NEW e, NEW y, NEW L, Shifted(X, K, n, e, y, L)
    PROVE  /\ \A a, b \in X \ {y} : K[a] < K[b] => L[a] < L[b]
           /\ {L[a] : a \in X \ {y}} = {K[a] : a \in X} \ {K[n]}
<1>1. /\ n \in X /\ e \in X /\ y \in X /\ (n = e => e = y)
      /\ (K[n] <= K[e] /\ K[e] <= K[y]) \/ (K[n] >= K[e] /\ K[e] >= K[y])
      /\ \A a \in X : a \in {n, e, y} \/ (K[a] < K[n] /\ K[a] < K[e] /\ K[a] < K[y])
                                     \/ (K[a] > K[n] /\ K[a] > K[e] /\ K[a] > K[y])
      /\ \A a \in X : a # y => L[a] = IF a = n THEN K[e] ELSE IF a = e THEN K[y] ELSE K[a]
      /\ (\A a \in X : K[a] \in Int) /\ \A a, b \in X : K[a] = K[b] => a = b
  BY DEF Shifted, Distinct
<1>2. n = y => e = y
  <2>1. CASE n = y
    <3>1. K[n] \in Int /\ K[e] \in Int
      BY <1>1
    <3>2. K[e] = K[n]
      BY <1>1, <2>1, <3>1
    <3> QED BY <1>1, <2>1, <3>2
  <2> QED BY <2>1
<1>3. ASSUME NEW a \in X \ {y}, NEW b \in X \ {y}, K[a] < K[b] PROVE L[a] < L[b]
  <2>1. K[a] \in Int /\ K[b] \in Int /\ K[n] \in Int /\ K[e] \in Int /\ K[y] \in Int /\ a # b
    BY <1>1, <1>3
  <2>2. CASE a \notin {n, e, y} /\ b \notin {n, e, y}
    <3>1. L[a] = K[a] /\ L[b] = K[b]
      BY <1>1, <2>2
    <3> QED BY <1>3, <3>1
  <2>3. CASE a \notin {n, e, y} /\ b \in {n, e, y}
    <3>1. L[a] = K[a] /\ (K[a] < K[n] /\ K[a] < K[e] /\ K[a] < K[y])
      BY <1>1, <1>3, <2>1, <2>3
    <3>2. L[b] \in {K[n], K[e], K[y]}
      BY <1>1, <2>3
    <3> QED BY <3>1, <3>2
  <2>4. CASE a \in {n, e, y} /\ b \notin {n, e, y}
    <3>1. L[b] = K[b] /\ (K[b] > K[n] /\ K[b] > K[e] /\ K[b] > K[y])
      BY <1>1, <1>3, <2>1, <2>4
    <3>2. L[a] \in {K[n], K[e], K[y]}
      BY <1>1, <2>4
    <3> QED BY <2>1, <3>1, <3>2
  <2>5. CASE a \in {n, e, y} /\ b \in {n, e, y}
    <3>1. K[e] # K[y] /\ n # e /\ e # y /\ K[n] # K[e]
      BY <1>1, <1>2, <2>1, <2>5
    <3>2. CASE a = n /\ b = e
      <4>1. L[a] = K[e] /\ L[b] = K[y]
        BY <1>1, <3>1, <3>2
      <4> QED BY <1>1, <1>3, <2>1, <3>1, <3>2, <4>1
    <3>3. CASE a = e /\ b = n
      <4>1. L[b] = K[e] /\ L[a] = K[y]
        BY <1>1, <3>1, <3>3
      <4> QED BY <1>1, <1>3, <2>1, <3>1, <3>3, <4>1
    <3> QED BY <2>1, <2>5, <3>2, <3>3
  <2> QED BY <2>2, <2>3, <2>4, <2>5
<1>4. ASSUME NEW a \in X \ {y} PROVE L[a] \in {K[b] : b \in X} \ {K[n]}
  <2>1. PICK h \in X : L[a] = K[h] /\ h # n
    <3>1. CASE a = n
      BY <1>1, <3>1
    <3>2. CASE a # n /\ a = e
      BY <1>1, <1>2, <3>2
    <3>3. CASE a # n /\ a # e
      BY <1>1, <3>3
    <3> QED BY <3>1, <3>2, <3>3
  <2>2. K[h] # K[n]
    BY <1>1, <2>1
  <2> QED BY <2>1, <2>2
<1>5. ASSUME NEW b \in X, K[b] # K[n] PROVE \E a \in X \ {y} : L[a] = K[b]
  <2>1. CASE b = e
    BY <1>1, <1>2, <1>5, <2>1
  <2>2. CASE b = y /\ b # e
    BY <1>1, <1>2, <1>5, <2>2
  <2>3. CASE b # y /\ b # e
    BY <1>1, <1>5, <2>3
  <2> QED BY <2>1, <2>2, <2>3
<1> QED BY <1>3, <1>4, <1>5

\* B is the heap without y, with the data of n gone.
Removed(T, S, n, y, B) ==
    /\ B.used = T.used \ {y} /\ B.nodeCount = T.nodeCount - 1 /\ B.data \in [Nodes -> Int]
    /\ \E e : Shifted(S[T.root], T.data, n, e, y, B.data)

\* The nodes that come together below n lie on one side of all others.
LEMMA AsideOf ==
    ASSUME NEW T, NEW S, NEW K, Tied(T, S, K), NEW n \in S[T.root], NEW a \in S[T.root] \ S[n]
    PROVE  (\A b \in S[n] : K[a] < K[b]) \/ (\A b \in S[n] : K[a] > K[b])
<1>1. T.root \in Nodes /\ n \in Nodes /\ S[T.root] \subseteq Nodes /\ n \in S[n] /\ K \in [Nodes -> Int] /\ a # n
  <2>1. T.root \in Nodes /\ n \in Nodes /\ S[T.root] \subseteq Nodes
    BY InsideIs, NodesAre
  <2>2. n \in S[n]
    BY <2>1, SelfIs
  <2> QED BY <2>1, <2>2 DEF Tied, Ordered
<1>2. K[a] \in Int /\ K[n] \in Int /\ K[a] # K[n]
  BY <1>1, OneKey
<1>3. \A b \in S[n], s \in Sides : Before(s, K[a], K[n]) => Before(s, K[a], K[b])
  BY <1>1, Convex
<1>4. "left" \in Sides /\ "right" \in Sides
  BY DEF Sides
<1>5. CASE K[a] < K[n]
  <2>1. \A b \in S[n] : Before("left", K[a], K[b])
    BY <1>3, <1>4, <1>5 DEF Before
  <2> QED BY <2>1 DEF Before
<1>6. CASE K[a] > K[n]
  <2>1. \A b \in S[n] : Before("right", K[a], K[b])
    BY <1>3, <1>4, <1>6 DEF Before
  <2> QED BY <2>1 DEF Before
<1> QED BY <1>2, <1>5, <1>6

\* A node with one child at most hands over to nobody, or takes its child's data.
LEMMA DroppedShift ==
    ASSUME NEW T, NEW S, Tied(T, S, T.data), NEW n \in S[T.root], NEW y, NEW B, Dropped(T, S, n, y, B)
    PROVE  Removed(T, S, n, y, B)
<1> DEFINE K == T.data
           X == S[T.root]
<1>1. /\ S[n] = {n, y} /\ B.used = T.used \ {y} /\ B.nodeCount = T.nodeCount - 1 /\ B.data \in [Nodes -> Int]
      /\ \A a \in Nodes : a # y => B.data[a] = IF a = n THEN K[y] ELSE K[a]
  BY DEF Dropped
<1>2. X \subseteq Nodes /\ S[n] \subseteq X /\ n \in X /\ y \in X
  <2>1. X \subseteq Nodes /\ S[n] \subseteq X
    BY InsideIs
  <2> QED BY <1>1, <2>1
<1>3. K[n] \in Int /\ K[y] \in Int
  BY <1>2 DEF Tied, Ordered
<1>4. ASSUME NEW a \in X, a \notin {n, y} PROVE (\A b \in {n, y} : K[a] < K[b]) \/ (\A b \in {n, y} : K[a] > K[b])
  <2>1. a \in S[T.root] \ S[n]
    BY <1>1, <1>4
  <2>2. (\A b \in S[n] : K[a] < K[b]) \/ (\A b \in S[n] : K[a] > K[b])
    BY <2>1, AsideOf
  <2> QED BY <1>1, <2>2
<1> HIDE DEF K, X
<1>5. Shifted(X, K, n, y, y, B.data)
  <2>1. \A a \in X : a \in {n, y, y} \/ (\A b \in {n, y, y} : K[a] < K[b]) \/ (\A b \in {n, y, y} : K[a] > K[b])
    BY <1>4
  <2>2. (K[n] <= K[y] /\ K[y] <= K[y]) \/ (K[n] >= K[y] /\ K[y] >= K[y])
    BY <1>3
  <2>3. \A a \in X : a # y => B.data[a] = IF a = n THEN K[y] ELSE IF a = y THEN K[y] ELSE K[a]
    BY <1>1, <1>2
  <2> QED BY <1>2, <2>1, <2>2, <2>3 DEF Shifted
<1> QED BY <1>1, <1>5 DEF Removed, K, X

\* A node with two children takes the data of the next node, which takes those of its child, if any.
LEMMA NextShift ==
    ASSUME NEW T, NEW S, Tied(T, S, T.data), NEW n \in S[T.root], T["right"][n] # NULL,
           NEW e, e = Outermost(T, T["right"][n], "left"),
           NEW U, U = [T EXCEPT !.data[n] = T.data[e]], NEW y, NEW B, Dropped(U, S, e, y, B)
    PROVE  Removed(T, S, n, y, B)
<1> DEFINE K == T.data
           X == S[T.root]
           c == T["right"][n]
           l == T["left"][n]
<1>1. "left" \in Sides /\ "right" \in Sides /\ T \in Trees /\ K \in [Nodes -> Int] /\ Other("right") = "left"
  BY DEF Sides, Tied, Ordered, Other
<1>2. n \in Nodes /\ X \subseteq Nodes /\ S[n] \subseteq X /\ n \in S[n]
  BY InsideIs, SelfIs
<1>3. c \in Nodes /\ S[c] \subseteq S[n] /\ n \notin S[c] /\ S[n] = {n} \cup S[c] \cup S[l]
  <2>1. c \in Nodes /\ S[c] \subseteq S[n] /\ n \notin S[c]
    BY <1>1, <1>2, HangsIs
  <2>2. S[n] = {n} \cup S[T["right"][n]] \cup S[T[Other("right")][n]]
    BY <1>1, <1>2, ChildIs
  <2> QED BY <1>1, <2>1, <2>2
<1>4. /\ \A a \in S[c] : Before("right", K[a], K[n])
      /\ \A a \in S[l] : Before("left", K[a], K[n])
  <2>1. /\ \A a \in S[T["right"][n]] : Before("right", K[a], K[n])
        /\ \A a \in S[T["left"][n]] : Before("left", K[a], K[n])
    BY <1>1, <1>2, OrderIs
  <2> QED BY <2>1
<1> HIDE DEF c, l
<1>5. IsOutermost(T, S, K, c, "left", e)
  BY <1>1, <1>3, OutermostIs DEF c
<1>6. S[e] = {e, y}
  BY DEF Dropped
<1>7. /\ e \in S[c] /\ e \in Nodes /\ e # n /\ S[e] \subseteq S[c] /\ y \in S[c] /\ y # n /\ y \in Nodes /\ y \in X /\ e \in X
      /\ \A a \in S[c] : a = e \/ Before("left", K[e], K[a])
  <2>1. e \in S[c] /\ \A a \in S[c] : a = e \/ Before("left", K[e], K[a])
    BY <1>5 DEF IsOutermost
  <2>2. S[e] \subseteq S[c]
    BY <1>3, <2>1, Nested
  <2> QED BY <1>2, <1>3, <1>6, <2>1, <2>2
<1>8. U.used = T.used /\ U.nodeCount = T.nodeCount /\ U.data = [K EXCEPT ![n] = K[e]]
  BY <1>1 DEF Trees
<1>9. /\ B.used = T.used \ {y} /\ B.nodeCount = T.nodeCount - 1 /\ B.data \in [Nodes -> Int]
      /\ \A a \in Nodes : a # y => B.data[a] = IF a = e THEN U.data[y] ELSE U.data[a]
  BY <1>8 DEF Dropped
<1>10. \A a \in X : a # y => B.data[a] = IF a = n THEN K[e] ELSE IF a = e THEN K[y] ELSE K[a]
  <2>1. \A a \in Nodes : U.data[a] = IF a = n THEN K[e] ELSE K[a]
    BY <1>1, <1>2, <1>8
  <2> QED BY <1>2, <1>7, <1>9, <2>1
<1>11. K[n] \in Int /\ K[e] \in Int /\ K[y] \in Int /\ \A a \in X : K[a] \in Int
  BY <1>1, <1>2, <1>7
<1>12. K[n] < K[e] /\ K[n] < K[y] /\ K[e] <= K[y]
  BY <1>4, <1>7, <1>11 DEF Before
<1>13. ASSUME NEW a \in X, a \notin {n, e, y}
       PROVE  (K[a] < K[n] /\ K[a] < K[e] /\ K[a] < K[y]) \/ (K[a] > K[n] /\ K[a] > K[e] /\ K[a] > K[y])
  <2>1. CASE a \notin S[n]
    <3>1. a \in S[T.root] \ S[n]
      BY <2>1 DEF X
    <3>2. (\A b \in S[n] : K[a] < K[b]) \/ (\A b \in S[n] : K[a] > K[b])
      BY <3>1, AsideOf
    <3> QED BY <1>2, <1>3, <1>7, <3>2
  <2>2. CASE a \in S[l]
    <3>1. K[a] < K[n]
      BY <1>4, <2>2 DEF Before
    <3> QED BY <1>11, <1>12, <3>1
  <2>3. CASE a \in S[c]
    <3>1. a \in S[T.root] \ S[e] /\ e \in S[T.root]
      BY <1>6, <1>7, <1>13 DEF X
    <3>2. (\A b \in S[e] : K[a] < K[b]) \/ (\A b \in S[e] : K[a] > K[b])
      BY <3>1, AsideOf
    <3>3. K[e] < K[a]
      BY <1>7, <1>13, <2>3 DEF Before
    <3>4. K[a] > K[e] /\ K[a] > K[y]
      BY <1>6, <1>11, <3>2, <3>3
    <3> QED BY <1>11, <1>12, <3>4
  <2> QED BY <1>3, <1>13, <2>1, <2>2, <2>3
<1> HIDE DEF K, X
<1>14. Shifted(X, K, n, e, y, B.data)
  <2>1. \A a \in X : a \in {n, e, y} \/ (\A b \in {n, e, y} : K[a] < K[b]) \/ (\A b \in {n, e, y} : K[a] > K[b])
    BY <1>13
  <2>2. n \in X /\ n # e
    BY <1>2, <1>7
  <2> QED BY <1>7, <1>10, <1>11, <1>12, <2>1, <2>2 DEF Shifted
<1> QED BY <1>9, <1>14 DEF Removed, K, X

\* RemoveHere.
LEMMA HereGood ==
    ASSUME NEW T, NEW S, Tied(T, S, T.data), \A a \in S[T.root] : Level(T, a), NEW n \in S[T.root], NEW d
    PROVE  \E B, y : /\ Removed(T, S, n, y, B)
                     /\ \A p \in Ids : \A q : At(T, p, q, n) =>
                           Good("remove", T, S, n, p, q, d, B, S[T.root] \ {y}, T.data, RemoveHere(T, n))
<1>1. CASE T["left"][n] # NULL /\ T["right"][n] # NULL
  <2> DEFINE e == Outermost(T, T["right"][n], "left")
             U == [T EXCEPT !.data[n] = T.data[e]]
  <2>1. PICK B, y : /\ Dropped(U, S, e, y, B)
                    /\ \A p \in Ids : \A q : At(T, p, q, n) =>
                          Good("remove", T, S, n, p, q, d, B, S[T.root] \ {y}, T.data, RemoveHere(T, n))
    BY <1>1, NextGood
  <2>2. Removed(T, S, n, y, B)
    BY <1>1, <2>1, NextShift
  <2> QED BY <2>1, <2>2
<1>2. ASSUME NEW s \in Sides, T[s][n] = NULL
      PROVE  \E B, y : /\ Removed(T, S, n, y, B)
                       /\ \A p \in Ids : \A q : At(T, p, q, n) =>
                             Good("remove", T, S, n, p, q, d, B, S[T.root] \ {y}, T.data, RemoveHere(T, n))
  <2>1. RemoveHere(T, n) = DropOne(T, n)
    <3>1. NULL \in {T.left[n], T.right[n]}
      BY <1>2 DEF Sides
    <3> QED BY <3>1 DEF RemoveHere
  <2>2. PICK B, y : /\ Dropped(T, S, n, y, B)
                    /\ \A p \in Ids : \A q : At(T, p, q, n) =>
                          Good("remove", T, S, n, p, q, d, B, S[T.root] \ {y}, T.data, DropOne(T, n))
    BY <1>2, DropGood
  <2>3. Removed(T, S, n, y, B)
    BY <2>2, DroppedShift
  <2> QED BY <2>1, <2>2, <2>3
<1>3. "left" \in Sides /\ "right" \in Sides
  BY DEF Sides
<1> QED BY <1>1, <1>2, <1>3

\* What becomes of the heap and of the nodes of the tree when d is removed.
Reduced(T, S, d, B, N) ==
    LET n == FindSorted(T, d) IN
    IF n = NULL THEN B = T /\ N = S[T.root]
    ELSE \E y : Removed(T, S, n, y, B) /\ N = S[T.root] \ {y}

\* RemoveHelper leaves a good tree.
LEMMA RemoveGood ==
    ASSUME NEW T, NEW S, Tied(T, S, T.data), \A a \in S[T.root] : Level(T, a), NEW d \in Int
    PROVE  \E B, N : /\ Reduced(T, S, d, B, N)
                     /\ Good("remove", T, S, T.root, NULL, "left", d, B, N, T.data, RemoveHelper(T, T.root, d))
<1> DEFINE K == T.data
<1>1. PICK f : Unwinds("remove", T, d, f) /\ RemoveHelper(T, T.root, d) = f[T.root]
  BY RemoveIs
<1>2. f[NULL] = [tree |-> T, node |-> NULL]
  BY <1>1, NodesAre DEF Unwinds, Back, RemoveBack
<1>3. At(T, NULL, "left", T.root) /\ NULL \in Ids /\ T.root \in Ids
  BY NodesAre, InsideIs DEF At, Sides
<1>4. CASE T.root = NULL
  <2>1. FindSorted(T, d) = NULL
    BY <1>4 DEF FindSorted
  <2>2. Good("remove", T, S, NULL, NULL, "left", d, T, S[T.root], K, [tree |-> T, node |-> NULL])
    BY <1>3, <1>4, UnchangedGood
  <2>3. Reduced(T, S, d, T, S[T.root])
    BY <2>1 DEF Reduced
  <2> QED BY <1>1, <1>2, <1>4, <2>2, <2>3
<1>5. CASE T.root # NULL
  <2> DEFINE e == Descend(T, T.root, d)
             s == SideOf(T, d, e)
  <2>1. /\ T.root \in Nodes /\ e \in Nodes /\ Leading(T, S, T.root, e, d)
        /\ e \in S[T.root] /\ (T.data[e] = d <=> FindSorted(T, d) # NULL)
        /\ s \in Sides /\ (T.data[e] # d => T[s][e] = NULL /\ Before(s, d, T.data[e]) /\ At(T, e, s, NULL))
    BY <1>5, WayDown
  <2>2. FindSorted(T, d) = IF T.data[e] = d THEN e ELSE NULL
    BY <1>5 DEF FindSorted
  <2>3. e \in Ids /\ e # NULL
    BY <2>1, NodesAre
  <2> HIDE DEF e, s
  <2>4. CASE T.data[e] = d
    <3>1. f[e] = RemoveHere(T, e)
      BY <1>1, <2>3, <2>4 DEF Unwinds, Back, RemoveBack
    <3>2. PICK B, y : /\ Removed(T, S, e, y, B)
                      /\ \A p \in Ids : \A q : At(T, p, q, e) =>
                            Good("remove", T, S, e, p, q, d, B, S[T.root] \ {y}, K, RemoveHere(T, e))
      BY <2>1, HereGood
    <3> DEFINE N == S[T.root] \ {y}
    <3>3. Reduced(T, S, d, B, N)
      BY <2>2, <2>3, <2>4, <3>2 DEF Reduced
    <3>4. \A p \in Ids : \A q : At(T, p, q, e) => Good("remove", T, S, e, p, q, d, B, N, K, f[e])
      BY <3>1, <3>2
    <3> HIDE DEF N, K
    <3>5. \A p \in Ids : \A q : At(T, p, q, T.root) => Good("remove", T, S, T.root, p, q, d, B, N, K, f[T.root])
      BY <1>1, <2>1, <3>4, ClimbsGood
    <3>6. Good("remove", T, S, T.root, NULL, "left", d, B, N, K, f[T.root])
      BY <1>3, <3>5
    <3> QED BY <1>1, <3>3, <3>6 DEF K
  <2>5. CASE T.data[e] # d
    <3> DEFINE N == S[T.root]
    <3>1. Reduced(T, S, d, T, N)
      BY <2>2, <2>5 DEF Reduced
    <3>2. Good("remove", T, S, T[s][e], e, s, d, T, N, K, f[T[s][e]])
      <4>1. At(T, e, s, NULL) /\ T[s][e] = NULL
        BY <2>1, <2>5
      <4>2. Good("remove", T, S, NULL, e, s, d, T, S[T.root], K, [tree |-> T, node |-> NULL])
        BY <1>3, <2>3, <4>1, UnchangedGood
      <4> QED BY <1>2, <4>1, <4>2
    <3> HIDE DEF N, K
    <3>3. ASSUME NEW p \in Ids, NEW q, At(T, p, q, e)
          PROVE  Good("remove", T, S, e, p, q, d, T, N, K, f[e])
      <4>1. SideOf(T, d, e) = s
        BY DEF s
      <4> QED BY <1>1, <2>1, <2>5, <3>2, <3>3, <4>1, StepGood
    <3>4. \A p \in Ids : \A q : At(T, p, q, T.root) => Good("remove", T, S, T.root, p, q, d, T, N, K, f[T.root])
      BY <1>1, <2>1, <3>3, ClimbsGood
    <3>5. Good("remove", T, S, T.root, NULL, "left", d, T, N, K, f[T.root])
      BY <1>3, <3>4
    <3> QED BY <1>1, <3>1, <3>5 DEF K
  <2> QED BY <2>4, <2>5
<1> QED BY <1>4, <1>5

-----------------------------------------------------------------------------
\* The tree after every call.

\* Keys that follow each other as before are in order as before.
LEMMA MonotoneTied ==
    ASSUME NEW T, NEW S, NEW K, Tied(T, S, K), NEW L \in [Nodes -> Int],
           \A a, b \in S[T.root] : K[a] < K[b] => L[a] < L[b]
    PROVE  Tied(T, S, L)
<1>1. ASSUME NEW m \in Nodes, NEW s \in Sides, NEW a \in S[T[s][m]]
      PROVE  Before(s, L[a], L[m])
  <2>1. T[s][m] # NULL
    BY <1>1 DEF Tied, Subtrees
  <2>2. m \in S[T.root] /\ T[s][m] \in S[T.root] /\ T[s][m] \in Nodes
    BY <2>1, InsideIs, ChildIs
  <2>3. a \in S[T.root]
    BY <1>1, <2>2, InsideIs
  <2>4. Before(s, K[a], K[m])
    BY <1>1 DEF Tied, Ordered
  <2> QED BY <2>2, <2>3, <2>4 DEF Before
<1> QED BY <1>1 DEF Tied, Ordered

\* The tree is in order and balanced, and so is the heap it lives in.
Sound(T, S) ==
    /\ Tied(T, S, T.data) /\ S[T.root] = T.used /\ \A a \in S[T.root] : Level(T, a)
    /\ T.nodeCount = Cardinality(T.used)
    /\ \A m \in T.used : T.data[m] \in Data

\* A is sound and holds the data V.
SoundWith(A, V) == \E R : Sound(A, R) /\ Keys(A, R) = V

\* What is known of a sound tree.
LEMMA SoundIs ==
    ASSUME NEW T, NEW S, Sound(T, S)
    PROVE  /\ Tied(T, S, T.data) /\ T \in Trees /\ T.used \in SUBSET Nodes /\ IsFiniteSet(T.used)
           /\ T.data \in [Nodes -> Int] /\ S[T.root] = T.used /\ T.root \in Ids
<1>1. Tied(T, S, T.data) /\ T \in Trees
  BY DEF Sound, Tied
<1>2. T.used \in SUBSET Nodes /\ T.data \in [Nodes -> Int] /\ T.root \in Ids
  BY <1>1, FieldsAre
<1> QED BY <1>1, <1>2, ManyNodes DEF Sound

\* What a call makes of the node its helper hands back.
Topped(res) == [res.tree EXCEPT !.root = res.node]

\* A is in order and balanced, with the keys K, the nodes N and the heap of B.
Arranged(A, B, N, K) ==
    /\ A.used = B.used /\ A.nodeCount = B.nodeCount /\ A.data = B.data
    /\ \E R : Tied(A, R, K) /\ R[A.root] = N /\ \A a \in N : Level(A, a)

\* What is good at the root is a good tree.
LEMMA GoodTree ==
    ASSUME NEW op, NEW T, NEW S, NEW d, NEW B, NEW N, NEW K, NEW res,
           Good(op, T, S, T.root, NULL, "left", d, B, N, K, res)
    PROVE  Arranged(Topped(res), B, N, K)
<1> DEFINE C == Hang(res.tree, NULL, "left", res.node)
<1>1. C = Topped(res)
  BY DEF Hang, Topped
<1>2. PICK R : Renewed(T, S, T.root, NULL, "left", C, R, K, res.node, {NULL}) /\ R[C.root] = N
  BY DEF Good
<1>3. SameRest(B, C)
  BY DEF Good
<1> HIDE DEF C
<1>4. Tied(C, R, K) /\ \A a \in N : a \in {NULL} \/ Level(C, a)
  BY <1>2 DEF Renewed
<1>5. N \subseteq Nodes
  BY <1>2, <1>4, InsideIs
<1>6. \A a \in N : Level(C, a)
  BY <1>4, <1>5, NodesAre
<1> QED BY <1>1, <1>2, <1>3, <1>4, <1>6 DEF SameRest, Arranged

\* An insertion keeps the tree sound, and adds its data unless they are there or no node is free.
LEMMA InsertSound ==
    ASSUME NEW T, NEW S, Sound(T, S), NEW d \in Data,
           NEW res, res = InsertHelper(T, T.root, d)
    PROVE  SoundWith(Topped(res),
                     IF FindSorted(T, d) = NULL /\ CanAlloc(T) THEN Keys(T, S) \cup {d} ELSE Keys(T, S))
<1> DEFINE A == Topped(res)
<1>1. Tied(T, S, T.data) /\ S[T.root] = T.used /\ (\A a \in S[T.root] : Level(T, a)) /\ d \in Int
  BY TreeAssumption DEF Sound
<1>2. PICK B, N : /\ Inserted(T, S, d, B, N)
                  /\ Good("insert", T, S, T.root, NULL, "left", d, B, N, B.data, res)
  BY <1>1, InsertGood
<1>3. Arranged(A, B, N, B.data)
  <2> DEFINE K == B.data
  <2>1. Good("insert", T, S, T.root, NULL, "left", d, B, N, K, res)
    BY <1>2
  <2> HIDE DEF K
  <2>2. Arranged(A, B, N, K)
    BY <2>1, GoodTree
  <2> QED BY <2>2 DEF K
<1> HIDE DEF A
<1>4. PICK R : Tied(A, R, A.data) /\ R[A.root] = N /\ \A a \in R[A.root] : Level(A, a)
  BY <1>3 DEF Arranged
<1>5. T.used \in SUBSET Nodes /\ IsFiniteSet(T.used) /\ T.data \in [Nodes -> Int]
  BY SoundIs
<1>6. CASE FindSorted(T, d) = NULL /\ CanAlloc(T)
  <2>1. PICK x : Leafed(T, B, x, d) /\ N = S[T.root] \cup {x}
    BY <1>2, <1>6 DEF Inserted
  <2>2. /\ x \in Nodes \ T.used /\ A.used = T.used \cup {x} /\ A.nodeCount = T.nodeCount + 1
        /\ A.data = [T.data EXCEPT ![x] = d] /\ R[A.root] = A.used
    BY <1>1, <1>3, <1>4, <2>1 DEF Leafed, Arranged
  <2>3. A.data[x] = d /\ \A m \in T.used : A.data[m] = T.data[m]
    BY <1>5, <2>2
  <2>4. A.nodeCount = Cardinality(A.used)
    <3>1. Cardinality(T.used \cup {x}) = Cardinality(T.used) + 1
      BY <1>5, <2>2, FS_AddElement
    <3> QED BY <2>2, <3>1 DEF Sound
  <2>5. \A m \in A.used : A.data[m] \in Data
    BY <2>2, <2>3 DEF Sound
  <2>6. Keys(A, R) = Keys(T, S) \cup {d}
    BY <1>1, <2>2, <2>3 DEF Keys
  <2> QED BY <1>4, <1>6, <2>2, <2>4, <2>5, <2>6 DEF SoundWith, Sound, A
<1>7. CASE ~(FindSorted(T, d) = NULL /\ CanAlloc(T))
  <2>1. B = T /\ N = S[T.root]
    BY <1>2, <1>7 DEF Inserted
  <2>2. A.used = T.used /\ A.nodeCount = T.nodeCount /\ A.data = T.data /\ R[A.root] = S[T.root]
    BY <1>3, <1>4, <2>1 DEF Arranged
  <2>3. Sound(A, R)
    BY <1>1, <1>4, <2>2 DEF Sound
  <2>4. Keys(A, R) = Keys(T, S)
    BY <2>2 DEF Keys
  <2> QED BY <1>7, <2>3, <2>4 DEF SoundWith, A
<1> QED BY <1>6, <1>7

\* A removal keeps the tree sound, takes its data and counts one less if they were there.
LEMMA RemoveSound ==
    ASSUME NEW T, NEW S, Sound(T, S), NEW d \in Data,
           NEW res, res = RemoveHelper(T, T.root, d)
    PROVE  LET A == Topped(res) IN
           /\ SoundWith(A, Keys(T, S) \ {d})
           /\ A.nodeCount = IF d \in Keys(T, S) THEN T.nodeCount - 1 ELSE T.nodeCount
<1> DEFINE A == Topped(res)
           n == FindSorted(T, d)
<1>1. Tied(T, S, T.data) /\ S[T.root] = T.used /\ (\A a \in S[T.root] : Level(T, a)) /\ d \in Int
  BY TreeAssumption DEF Sound
<1>2. PICK B, N : /\ Reduced(T, S, d, B, N)
                  /\ Good("remove", T, S, T.root, NULL, "left", d, B, N, T.data, res)
  BY <1>1, RemoveGood
<1>3. Arranged(A, B, N, T.data)
  <2> DEFINE K == T.data
  <2>1. Good("remove", T, S, T.root, NULL, "left", d, B, N, K, res)
    BY <1>2
  <2> HIDE DEF K
  <2>2. Arranged(A, B, N, K)
    BY <2>1, GoodTree
  <2> QED BY <2>2 DEF K
<1> HIDE DEF A
<1>4. PICK R : Tied(A, R, T.data) /\ R[A.root] = N /\ \A a \in R[A.root] : Level(A, a)
  BY <1>3 DEF Arranged
<1>5. T.used \in SUBSET Nodes /\ IsFiniteSet(T.used) /\ T.data \in [Nodes -> Int]
  BY SoundIs
<1>6. (n # NULL => n \in S[T.root] /\ T.data[n] = d) /\ (n = NULL => \A a \in S[T.root] : T.data[a] # d)
  BY <1>1, FindIs
<1>7. CASE n = NULL
  <2>1. B = T /\ N = S[T.root]
    BY <1>2, <1>7 DEF Reduced
  <2>2. A.used = T.used /\ A.nodeCount = T.nodeCount /\ A.data = T.data /\ R[A.root] = S[T.root]
    BY <1>3, <1>4, <2>1 DEF Arranged
  <2>3. Sound(A, R)
    BY <1>1, <1>4, <2>2 DEF Sound
  <2>4. d \notin Keys(T, S)
    BY <1>6, <1>7 DEF Keys
  <2>5. Keys(A, R) = Keys(T, S) \ {d}
    <3>1. Keys(A, R) = Keys(T, S)
      BY <2>2 DEF Keys
    <3> QED BY <2>4, <3>1
  <2> QED BY <2>2, <2>3, <2>4, <2>5 DEF SoundWith, A
<1>8. CASE n # NULL
  <2>1. n \in S[T.root] /\ T.data[n] = d
    BY <1>6, <1>8
  <2>2. PICK y : Removed(T, S, n, y, B) /\ N = S[T.root] \ {y}
    BY <1>2, <1>8 DEF Reduced
  <2>3. PICK e : Shifted(S[T.root], T.data, n, e, y, B.data)
    BY <2>2 DEF Removed
  <2> DEFINE X == S[T.root]
             K == T.data
             L == A.data
  <2>4. /\ A.used = T.used \ {y} /\ A.nodeCount = T.nodeCount - 1 /\ L \in [Nodes -> Int]
        /\ R[A.root] = X \ {y} /\ R[A.root] = A.used /\ Shifted(X, K, n, e, y, L)
    BY <1>1, <1>3, <1>4, <2>2, <2>3 DEF Removed, Arranged
  <2>5. y \in X
    BY <2>4 DEF Shifted
  <2>6. Distinct(X, K)
    <3>1. X \subseteq Nodes /\ T.root \in Nodes
      BY <1>1, <2>1, InsideIs, NodesAre
    <3>2. \A a, b \in S[T.root] : T.data[a] = T.data[b] => a = b
      BY <1>1, <3>1, OneKey
    <3> QED BY <1>5, <3>1, <3>2 DEF Distinct
  <2> HIDE DEF X, K, L, n
  <2>7. /\ \A a, b \in X \ {y} : K[a] < K[b] => L[a] < L[b]
        /\ {L[a] : a \in X \ {y}} = {K[a] : a \in X} \ {K[n]}
    BY <2>4, <2>6, ShiftedIs
  <2>8. Tied(A, R, L)
    <3>1. \A a, b \in R[A.root] : K[a] < K[b] => L[a] < L[b]
      BY <2>4, <2>7
    <3>2. Tied(A, R, K)
      BY <1>4 DEF K
    <3> QED BY <2>4, <3>1, <3>2, MonotoneTied
  <2>9. A.nodeCount = Cardinality(A.used)
    <3>1. y \in T.used
      BY <1>1, <2>5 DEF X
    <3>2. Cardinality(T.used \ {y}) = Cardinality(T.used) - 1
      BY <1>5, <3>1, FS_RemoveElement
    <3> QED BY <2>4, <3>2 DEF Sound
  <2>10. Keys(A, R) = Keys(T, S) \ {d}
    BY <2>1, <2>4, <2>7 DEF Keys, X, K, L
  <2>11. \A m \in A.used : A.data[m] \in Data
    <3>1. \A a \in X : K[a] \in Data
      BY <1>1 DEF Sound, X, K
    <3>2. ASSUME NEW m \in A.used PROVE L[m] \in Data
      <4>1. L[m] \in {L[a] : a \in X \ {y}}
        BY <2>4, <3>2
      <4>2. L[m] \in {K[a] : a \in X}
        BY <2>7, <4>1
      <4> QED BY <3>1, <4>2
    <3> QED BY <3>2 DEF L
  <2>12. Sound(A, R)
    BY <1>4, <2>4, <2>8, <2>9, <2>11 DEF Sound, L
  <2>13. d \in Keys(T, S)
    BY <2>1 DEF Keys
  <2> QED BY <2>4, <2>10, <2>12, <2>13 DEF SoundWith, A
<1> QED BY <1>7, <1>8

-----------------------------------------------------------------------------
IInv == kind = "AVL" /\ (\E S : Sound(tree, S)) /\ IsAnswer(reply)

\* The empty tree is sound.
LEMMA InitSound ==
    ASSUME Init
    PROVE  SoundWith(tree, {})
<1> DEFINE S == [m \in Ids |-> IF m = NULL THEN {} ELSE {m}]
<1>1. /\ tree.root = NULL /\ tree.nodeCount = 0 /\ tree.used = {}
      /\ tree.left = Empty /\ tree.right = Empty /\ tree.parent = Empty /\ tree.data = Empty /\ tree.rank = Empty
      /\ tree = [root |-> NULL, nodeCount |-> 0, used |-> {}, left |-> Empty, right |-> Empty,
                 parent |-> Empty, data |-> Empty, rank |-> Empty]
  BY DEF Init, Opened
<1>2. Empty \in [Nodes -> Ids] /\ Empty \in [Nodes -> Int] /\ \A m \in Nodes : Empty[m] = NULL
  BY NodesAre DEF Empty, NULL
<1>3. tree \in Trees
  BY <1>1, <1>2, NodesAre DEF Trees
<1>4. \A m \in Nodes : (\A q \in Sides : tree[q][m] = NULL) /\ tree.parent[m] = NULL
  BY <1>1, <1>2 DEF Sides
<1>5. S \in [Ids -> SUBSET Nodes] /\ S[NULL] = {} /\ \A m \in Nodes : S[m] = {m}
  BY NodesAre
<1> HIDE DEF S
<1>6. Tied(tree, S, tree.data)
  <2>1. Subtrees(tree, S)
    BY <1>4, <1>5, SidesAre DEF Subtrees
  <2>2. Ordered(tree, S, tree.data)
    BY <1>1, <1>2, <1>4, <1>5 DEF Ordered
  <2>3. Linked(tree, S)
    BY <1>1, <1>4, <1>5 DEF Linked
  <2> QED BY <1>3, <2>1, <2>2, <2>3 DEF Tied
<1>7. Sound(tree, S)
  BY <1>1, <1>5, <1>6, FS_EmptySet DEF Sound
<1>8. Keys(tree, S) = {}
  BY <1>1, <1>5 DEF Keys
<1> QED BY <1>7, <1>8 DEF SoundWith

\* What a call does to the contents, and what it answers.
Called(T, S, A, r, d) ==
    \/ r = Answer("Insert", d, d \notin Keys(T, S)) /\ SoundWith(A, Keys(T, S) \cup {d})
    \/ r = Answer("Insert", d, FALSE) /\ SoundWith(A, Keys(T, S))
    \/ r = Answer("Remove", d, d \in Keys(T, S)) /\ SoundWith(A, Keys(T, S) \ {d})
    \/ r = Answer("Find", d, d \in Keys(T, S)) /\ A = T

\* Every call does to the contents what it answers.
LEMMA CallIs ==
    ASSUME NEW S, Sound(tree, S), NEW d \in Data, Calls(d)
    PROVE  Called(tree, S, tree', reply', d)
<1> DEFINE n == FindSorted(tree, d)
           V == Keys(tree, S)
<1>1. Tied(tree, S, tree.data) /\ d \in Int
  BY SoundIs, TreeAssumption
<1>2. (n # NULL => n \in S[tree.root] /\ tree.data[n] = d) /\ (n = NULL => \A a \in S[tree.root] : tree.data[a] # d)
  BY <1>1, FindIs
<1>3. n # NULL <=> d \in V
  BY <1>2 DEF Keys
<1>4. CASE InsertSorted(d)
  <2> DEFINE res == InsertHelper(tree, tree.root, d)
             added == n = NULL /\ CanAlloc(tree)
  <2>1. tree' = Topped(res) /\ reply' = Answer("Insert", d, added)
    BY <1>4 DEF InsertSorted, Topped
  <2>2. SoundWith(Topped(res), IF added THEN V \cup {d} ELSE V)
    BY InsertSound
  <2> HIDE DEF n, res
  <2>3. CASE added
    <3>1. added = (d \notin V)
      BY <1>3, <2>3
    <3> QED BY <2>1, <2>2, <2>3, <3>1 DEF Called
  <2>4. CASE ~added
    <3>1. added = FALSE
      BY <2>4
    <3> QED BY <2>1, <2>2, <3>1 DEF Called
  <2> QED BY <2>3, <2>4
<1>5. CASE RemoveSorted(d)
  <2> DEFINE res == RemoveHelper(tree, tree.root, d)
             A == Topped(res)
  <2>1. tree' = A /\ reply' = Answer("Remove", d, res.tree.nodeCount < tree.nodeCount)
    BY <1>5 DEF RemoveSorted, Topped
  <2>2. SoundWith(A, V \ {d}) /\ A.nodeCount = IF d \in V THEN tree.nodeCount - 1 ELSE tree.nodeCount
    BY RemoveSound
  <2> HIDE DEF res
  <2>3. res.tree.nodeCount = A.nodeCount
    <3>1. PICK R : Sound(A, R)
      BY <2>2 DEF SoundWith
    <3>2. A \in Trees
      BY <3>1, SoundIs
    <3>3. A = [res.tree EXCEPT !.root = res.node]
      BY DEF Topped
    <3> HIDE DEF A
    <3>4. "nodeCount" \in DOMAIN A
      BY <3>2 DEF Trees
    <3> QED BY <3>3, <3>4
  <2>4. tree.nodeCount \in Int
    BY SoundIs, FieldsAre
  <2>5. (res.tree.nodeCount < tree.nodeCount) = (d \in V)
    BY <2>2, <2>3, <2>4
  <2> QED BY <2>1, <2>2, <2>5 DEF Called
<1>6. CASE Lookup(d)
  <2>1. tree' = tree /\ reply' = Answer("Find", d, n # NULL)
    BY <1>6 DEF Lookup
  <2>2. (n # NULL) = (d \in V)
    BY <1>3
  <2> QED BY <2>1, <2>2 DEF Called
<1> QED BY <1>4, <1>5, <1>6 DEF Calls

\* The inductive invariant.
LEMMA IInvHolds == Spec => []IInv
<1>1. Init => IInv
  <2> SUFFICES ASSUME Init PROVE IInv
    OBVIOUS
  <2>1. SoundWith(tree, {})
    BY InitSound
  <2> QED BY <2>1 DEF IInv, Init, Opened, IsAnswer, SoundWith
<1>2. IInv /\ [Next]_vars => IInv'
  <2> SUFFICES ASSUME IInv, [Next]_vars PROVE IInv'
    OBVIOUS
  <2>1. CASE UNCHANGED vars
    BY <2>1 DEF vars, IInv
  <2>2. CASE Next
    <3>1. PICK d \in Data : Calls(d)
      BY <2>2 DEF Next
    <3>2. PICK S : Sound(tree, S)
      BY DEF IInv
    <3>3. Called(tree, S, tree', reply', d)
      BY <3>1, <3>2, CallIs
    <3>4. \E R : Sound(tree', R)
      BY <3>2, <3>3 DEF Called, SoundWith
    <3>5. IsAnswer(reply')
      <4>1. \A ok \in BOOLEAN, call \in {"Insert", "Remove", "Find"} : IsAnswer(Answer(call, d, ok))
        BY DEF IsAnswer, Answer
      <4>2. (d \in Keys(tree, S)) \in BOOLEAN /\ (d \notin Keys(tree, S)) \in BOOLEAN
        OBVIOUS
      <4> QED BY <3>3, <4>1, <4>2 DEF Called
    <3> QED BY <2>2, <3>4, <3>5 DEF IInv, Next
  <2> QED BY <2>1, <2>2
<1> QED BY <1>1, <1>2, PTL DEF Spec

\* The contents of a sound tree.
LEMMA SoundContents ==
    ASSUME NEW T, NEW S, Sound(T, S)
    PROVE  Contents(T) = Keys(T, S)
BY SoundIs, ContentsAre

\* So that is what a call leaves.
LEMMA ContentsWith ==
    ASSUME NEW A, NEW V, SoundWith(A, V)
    PROVE  Contents(A) = V
BY SoundContents DEF SoundWith

\* H[m] is the height of what hangs below m.
Highs(T, H) == H = [m \in Ids |-> IF m = NULL THEN 0 ELSE Max2(H[T.left[m]], H[T.right[m]]) + 1]

\* The heights are those the nodes keep; a node outside the tree stands alone.
LEMMA HighsAre ==
    ASSUME NEW T, NEW S, NEW K, Tied(T, S, K), \A a \in S[T.root] : Level(T, a)
    PROVE  /\ \E H : Highs(T, H)
           /\ \A H : Highs(T, H) => \A n \in S[T.root] : T.rank[n] = H[n]
<1> DEFINE V == [m \in Ids |-> IF m = NULL THEN 0 ELSE IF m \in S[T.root] THEN T.rank[m] ELSE 1]
<1>1. V[NULL] = 0 /\ \A m \in Nodes : V[m] = IF m \in S[T.root] THEN T.rank[m] ELSE 1
  BY NodesAre
<1>2. T.left \in [Nodes -> Ids] /\ T.right \in [Nodes -> Ids] /\ "left" \in Sides /\ "right" \in Sides
  BY DEF Tied, Trees, Sides
<1>3. ASSUME NEW m \in Nodes PROVE V[m] = Max2(V[T.left[m]], V[T.right[m]]) + 1
  <2>1. CASE m \in S[T.root]
    <3>1. ASSUME NEW s \in Sides PROVE V[T[s][m]] = Height(T, T[s][m])
      <4>1. T[s][m] = NULL \/ (T[s][m] \in S[T.root] /\ T[s][m] \in Nodes)
        BY InsideIs
      <4> HIDE DEF V
      <4> QED BY <1>1, <4>1, NodesAre DEF Height
    <3>2. T.rank[m] = Max2(Height(T, T["left"][m]), Height(T, T["right"][m])) + 1
      BY <2>1 DEF Level, Lies
    <3>3. V[T["left"][m]] = Height(T, T["left"][m]) /\ V[T["right"][m]] = Height(T, T["right"][m])
      BY <1>2, <3>1
    <3> HIDE DEF V
    <3> QED BY <1>1, <2>1, <3>2, <3>3
  <2>2. CASE m \notin S[T.root]
    <3>1. T["left"][m] = NULL /\ T["right"][m] = NULL
      BY <1>2, <2>2 DEF Tied, Linked
    <3> HIDE DEF V
    <3> QED BY <1>1, <2>2, <3>1 DEF Max2
  <2> QED BY <2>1, <2>2
<1>4. V = [m \in Ids |-> V[m]]
  OBVIOUS
<1> HIDE DEF V
<1>5. Highs(T, V)
  BY <1>1, <1>3, <1>4, NodesAre DEF Highs
<1>6. ASSUME NEW H, Highs(T, H), NEW n \in S[T.root] PROVE T.rank[n] = H[n]
  <2>1. H[NULL] = 0 /\ \A m \in Nodes : H[m] = Max2(H[T.left[m]], H[T.right[m]]) + 1
    BY <1>6, NodesAre DEF Highs
  <2> DEFINE Q == {m \in Nodes : H[m] = V[m]}
  <2>2. ASSUME NEW m \in Nodes, \A s \in Sides : T[s][m] # NULL => T[s][m] \in Q PROVE m \in Q
    <3>1. H[T["left"][m]] = V[T["left"][m]] /\ H[T["right"][m]] = V[T["right"][m]]
      BY <1>1, <1>2, <2>1, <2>2
    <3> QED BY <1>3, <2>1, <3>1
  <2>3. Nodes \subseteq Q
    <3> HIDE DEF Q
    <3> QED BY <2>2, TreeInduction
  <2>4. n \in Nodes
    BY <1>6, InsideIs
  <2> QED BY <1>1, <1>6, <2>3, <2>4
<1> QED BY <1>5, <1>6

-----------------------------------------------------------------------------
\* What that shows.

\* Every field of a node in use refers to nodes in use: no call of AVLBinaryTree leaves a link to
\* a freed node behind, in a child, a parent or the root.
THEOREM TypeCorrect == Spec => []TypeOK
<1>1. IInv => TypeOK
  <2> SUFFICES ASSUME IInv PROVE TypeOK
    OBVIOUS
  <2>1. PICK S : Sound(tree, S)
    BY DEF IInv
  <2>2. /\ Tied(tree, S, tree.data) /\ tree \in Trees /\ tree.used \in SUBSET Nodes
        /\ IsFiniteSet(tree.used) /\ S[tree.root] = tree.used
    BY <2>1, SoundIs
  <2>3. tree.root \in {NULL} \cup tree.used
    BY <2>2, InsideIs
  <2>4. tree.nodeCount \in Nat
    BY <2>1, <2>2, FS_CardinalityType DEF Sound
  <2>5. ASSUME NEW n \in tree.used
        PROVE  /\ {tree.left[n], tree.right[n], tree.parent[n]} \subseteq {NULL} \cup tree.used
               /\ tree.data[n] \in Data /\ tree.rank[n] \in Nat
    <3>1. n \in Nodes /\ tree.data[n] \in Data
      BY <2>1, <2>2 DEF Sound
    <3>2. \A q \in Sides : tree[q][n] # NULL => tree[q][n] \in S[tree.root]
      BY <2>2, <3>1, InsideIs
    <3>3. tree.left[n] \in {NULL} \cup tree.used /\ tree.right[n] \in {NULL} \cup tree.used
      BY <2>2, <3>2 DEF Sides
    <3>4. tree.parent[n] \in {NULL} \cup tree.used
      BY <2>2, InsideIs
    <3>5. tree.rank[n] \in Nat
      <4>1. Level(tree, n) /\ "left" \in Sides
        BY <2>1, <2>2 DEF Sound, Sides
      <4> QED BY <4>1, LevelHeights
    <3> QED BY <3>1, <3>3, <3>4, <3>5
  <2>6. IsAnswer(reply) /\ kind \in {"RB", "AVL"}
    BY DEF IInv
  <2> QED BY <2>2, <2>3, <2>4, <2>5, <2>6 DEF TypeOK
<1> QED BY <1>1, IInvHolds, PTL

\* The parent of a child is its parent after every rotation and removal, the nodes of the tree are
\* in use, and nodeCount counts what TFalloc gave out.
THEOREM LinksAgreeAlways == Spec => []LinksAgree
<1>1. IInv /\ TypeOK => LinksAgree
  <2> SUFFICES ASSUME IInv, TypeOK PROVE LinksAgree
    OBVIOUS
  <2>1. PICK S : Sound(tree, S)
    BY DEF IInv
  <2>2. Tied(tree, S, tree.data) /\ S[tree.root] = tree.used /\ tree.root \in Ids
    BY <2>1, SoundIs
  <2>3. InTree(tree) = S[tree.root]
    BY <2>2, BelowIs DEF InTree
  <2>4. InTree(tree) \subseteq Nodes /\ tree.nodeCount = Cardinality(tree.used)
    BY <2>1, <2>2, <2>3, InsideIs DEF Sound
  <2> QED BY <2>2, <2>3, <2>4 DEF LinksAgree, Tied, Linked, Sides
<1> QED BY <1>1, IInvHolds, TypeCorrect, PTL

\* No node that TFalloc gave out is lost, the height kept in a node is that of its subtree, and no two
\* sister subtrees differ by more than one, although a removal may rotate at every node on the way back.
THEOREM BalancedAlways == Spec => [](kind = "AVL" /\ Balanced)
<1>1. IInv => kind = "AVL" /\ Balanced
  <2> SUFFICES ASSUME IInv PROVE Balanced
    BY DEF IInv
  <2> DEFINE E(f) == [m \in Ids |-> IF m = NULL THEN 0 ELSE Max2(f[tree.left[m]], f[tree.right[m]]) + 1]
             high == CHOOSE f : f = E(f)
  <2>1. PICK S : Sound(tree, S)
    BY DEF IInv
  <2>2. Tied(tree, S, tree.data) /\ tree.root \in Ids /\ \A a \in S[tree.root] : Level(tree, a)
    BY <2>1, SoundIs DEF Sound
  <2>3. InTree(tree) = S[tree.root]
    BY <2>2, BelowIs DEF InTree
  <2>4. \A f : f = E(f) <=> Highs(tree, f)
    BY DEF Highs
  <2>5. (\E f : Highs(tree, f)) /\ \A f : Highs(tree, f) => \A n \in S[tree.root] : tree.rank[n] = f[n]
    BY <2>2, HighsAre
  <2>6. high = E(high)
    <3> HIDE DEF E
    <3> QED BY <2>4, <2>5
  <2>7. \A n \in S[tree.root] : tree.rank[n] = high[n]
    <3> HIDE DEF E, high
    <3> QED BY <2>4, <2>5, <2>6
  <2>8. ASSUME NEW n \in S[tree.root] PROVE Balance(tree, n) \in -1 .. 1
    <3>1. n \in Nodes
      BY <2>2, InsideIs
    <3>2. Level(tree, n) /\ n # NULL
      BY <2>2, <3>1, NodesAre
    <3> QED BY <3>2 DEF Level, Lies, Balance
  <2>9. Balanced <=> (kind = "AVL" =>
                        /\ tree.used \subseteq InTree(tree)
                        /\ \A n \in InTree(tree) : tree.rank[n] = high[n] /\ Balance(tree, n) \in -1 .. 1)
    BY DEF Balanced, Ids
  <2>10. S[tree.root] = tree.used
    BY <2>1, SoundIs
  <2> HIDE DEF high
  <2> QED BY <2>3, <2>7, <2>8, <2>9, <2>10
<1> QED BY <1>1, IInvHolds, PTL

\* Begin and Next visit every node in ascending order, Last and Prev the same way back, although
\* they find their way by the parent links alone.
THEOREM VisitsInOrderCorrect == Spec => []VisitsInOrder
<1>1. IInv => VisitsInOrder
  <2> SUFFICES ASSUME IInv PROVE VisitsInOrder
    OBVIOUS
  <2>1. PICK S : Sound(tree, S)
    BY DEF IInv
  <2>2. WalksInOrder(tree)
    BY <2>1, SoundIs, WalksAre
  <2> QED BY <2>2 DEF VisitsInOrder
<1> QED BY <1>1, IInvHolds, PTL

\* Every insertion, removal and search is one of the set the tree stands for, and answers as the
\* set does, although a removal hands data from node to node and then looks for what it copied.
THEOREM SortedSetCorrect == Spec => IsSortedSet
<1>1. Init => Promised!Init
  <2> SUFFICES ASSUME Init PROVE Promised!Init
    OBVIOUS
  <2>1. Contents(tree) = {}
    BY InitSound, ContentsWith
  <2> QED BY <2>1 DEF Promised!Init, Init, Opened, NoAnswer, Promised!NoAnswer, Answer, Promised!Answer
<1>2. IInv /\ [Next]_vars => [Promised!Next]_<<Contents(tree), reply>>
  <2> SUFFICES ASSUME IInv, [Next]_vars PROVE [Promised!Next]_<<Contents(tree), reply>>
    OBVIOUS
  <2>1. CASE UNCHANGED vars
    <3>1. tree' = tree /\ reply' = reply
      BY <2>1 DEF vars
    <3>2. Contents(tree') = Contents(tree)
      BY <3>1
    <3> QED BY <3>1, <3>2
  <2>2. CASE Next
    <3>1. PICK d \in Data : Calls(d)
      BY <2>2 DEF Next
    <3>2. PICK S : Sound(tree, S)
      BY DEF IInv
    <3>3. Called(tree, S, tree', reply', d)
      BY <3>1, <3>2, CallIs
    <3>4. Contents(tree) = Keys(tree, S)
      BY <3>2, SoundContents
    <3> DEFINE V == Contents(tree)
               W == Contents(tree')
    <3>5. \/ reply' = Answer("Insert", d, d \notin V) /\ W = V \cup {d}
          \/ reply' = Answer("Insert", d, FALSE) /\ W = V
          \/ reply' = Answer("Remove", d, d \in V) /\ W = V \ {d}
          \/ reply' = Answer("Find", d, d \in V) /\ W = V
      <4>1. CASE reply' = Answer("Insert", d, d \notin V) /\ SoundWith(tree', V \cup {d})
        BY <4>1, ContentsWith
      <4>2. CASE reply' = Answer("Insert", d, FALSE) /\ SoundWith(tree', V)
        BY <4>2, ContentsWith
      <4>3. CASE reply' = Answer("Remove", d, d \in V) /\ SoundWith(tree', V \ {d})
        BY <4>3, ContentsWith
      <4>4. CASE reply' = Answer("Find", d, d \in V) /\ tree' = tree
        BY <4>4
      <4> QED BY <3>3, <3>4, <4>1, <4>2, <4>3, <4>4 DEF Called
    <3> HIDE DEF V, W
    <3>6. reply'.data = d
      BY <3>5 DEF Answer
    <3>7. Promised!Insert(d) \/ Promised!Remove(d) \/ Promised!Find(d)
      <4>1. CASE reply' = Answer("Insert", d, d \notin V) /\ W = V \cup {d}
        <5>1. CASE d \in V
          <6>1. W = V /\ (d \notin V) = FALSE
            BY <4>1, <5>1
          <6> QED BY <4>1, <6>1 DEF Promised!Insert, V, W, Answer, Promised!Answer
        <5>2. CASE d \notin V
          <6>1. (d \notin V) = TRUE
            BY <5>2
          <6> QED BY <4>1, <5>2, <6>1 DEF Promised!Insert, V, W, Answer, Promised!Answer
        <5> QED BY <5>1, <5>2
      <4>2. CASE reply' = Answer("Insert", d, FALSE) /\ W = V
        BY <4>2 DEF Promised!Insert, V, W, Answer, Promised!Answer
      <4>3. CASE reply' = Answer("Remove", d, d \in V) /\ W = V \ {d}
        BY <4>3 DEF Promised!Remove, V, W, Answer, Promised!Answer
      <4>4. CASE reply' = Answer("Find", d, d \in V) /\ W = V
        BY <4>4 DEF Promised!Find, V, W, Answer, Promised!Answer
      <4> QED BY <3>5, <4>1, <4>2, <4>3, <4>4
    <3> QED BY <3>6, <3>7 DEF Promised!Next
  <2> QED BY <2>1, <2>2
<1> QED BY <1>1, <1>2, IInvHolds, PTL DEF Spec, IsSortedSet, Promised!Spec
=============================================================================
