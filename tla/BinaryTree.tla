----------------------------- MODULE BinaryTree -----------------------------
(***************************************************************************)
(* The linked nodes under the red-black and AVL trees of CSources/LISTE.C. *)
(*                                                                         *)
(* A tree T is the head together with the heap its nodes live in: root,    *)
(* nodeCount, the nodes TFalloc gave out (used) and, for every node, the   *)
(* fields left, right, parent and data.  NULL is 0.  left and right are    *)
(* named by strings, so that what the code writes twice, mirrored, is      *)
(* written once.                                                           *)
(***************************************************************************)
EXTENDS TreeCalls, FiniteSets, Integers, Sequences

CONSTANT MaxNodes   \* TFalloc returns NULL when so many nodes are in use

ASSUME TreeAssumption == MaxNodes \in Nat \ {0} /\ Data \subseteq Int

Nodes == 1 .. MaxNodes
Other(side) == IF side = "left" THEN "right" ELSE "left"

\* the free node TFalloc hands out; its bytes are zero
Fresh(T) == CHOOSE n \in Nodes \ T.used : \A m \in Nodes \ T.used : n <= m
CanAlloc(T) == T.used # Nodes

Free(T, n) ==
    [T EXCEPT !.used = @ \ {n}, !.left[n] = NULL, !.right[n] = NULL, !.parent[n] = NULL,
              !.data[n] = 0, !.rank[n] = 0]

\* n->left->parent = n and the like, when there is such a node
SetParent(T, n, p) == IF n = NULL THEN T ELSE [T EXCEPT !.parent[n] = p]

Attach(T, n, side, child) == SetParent([T EXCEPT ![side][n] = child], child, n)

Side(T, n) == IF n = T.left[T.parent[n]] THEN "left" ELSE "right"
Sibling(T, n) == T[Other(Side(T, n))][T.parent[n]]

-----------------------------------------------------------------------------
\* the end of the path that leads from n to the given side
Outermost(T, n, side) ==
    LET end[m \in Nodes] == IF T[side][m] = NULL THEN m ELSE end[T[side][m]] IN end[n]

FirstNode(T) == IF T.root = NULL THEN NULL ELSE Outermost(T, T.root, "left")
LastNode(T) == IF T.root = NULL THEN NULL ELSE Outermost(T, T.root, "right")

\* fault: the parent, from whichever side it is entered
Step_NoClimb(T, n, side) ==
    IF T[side][n] # NULL THEN Outermost(T, T[side][n], Other(side)) ELSE T.parent[n]

\* the climb to the first ancestor that is entered from its other side
Step(T, n, side) ==
    LET climb[m \in Nodes] ==
            LET p == T.parent[m] IN
            IF p = NULL \/ T[Other(side)][p] = m THEN p ELSE climb[p]
    IN  IF T[side][n] # NULL THEN Outermost(T, T[side][n], Other(side)) ELSE climb[n]

TreeNext(T, n) == Step(T, n, "right")
TreePrev(T, n) == Step(T, n, "left")

\* the node that holds d, or the last one on the way to where it would be
Descend(T, n, d) ==
    LET side(m) == IF T.data[m] > d THEN "left" ELSE "right"
        down[m \in Nodes] ==
            IF T.data[m] = d \/ T[side(m)][m] = NULL THEN m ELSE down[T[side(m)][m]]
    IN  down[n]

FindSorted(T, d) ==
    IF T.root = NULL THEN NULL
    ELSE LET n == Descend(T, T.root, d) IN IF T.data[n] = d THEN n ELSE NULL

-----------------------------------------------------------------------------
\* what hangs below n, itself included
Below(T, n) ==
    LET below[m \in 0 .. MaxNodes] ==
            IF m = NULL THEN {} ELSE {m} \cup below[T.left[m]] \cup below[T.right[m]]
    IN  below[n]

InTree(T) == Below(T, T.root)
Contents(T) == {T.data[n] : n \in InTree(T)}

Onward(T, n, side) == IF n = NULL THEN NULL ELSE Step(T, n, side)

\* the data met from node n on, stepping to the given side
Walk(T, n, side) ==
    LET at[k \in 0 .. MaxNodes] == IF k = 0 THEN n ELSE Onward(T, at[k - 1], side)
    IN  [i \in 1 .. Cardinality({k \in 0 .. MaxNodes : at[k] # NULL}) |-> T.data[at[i - 1]]]

\* From the first node on, Next visits the whole contents in ascending order; Prev takes
\* the same way back from the last one.
WalksInOrder(T) ==
    LET up == Walk(T, FirstNode(T), "right")
        down == Walk(T, LastNode(T), "left")
    IN  /\ {up[i] : i \in DOMAIN up} = Contents(T)
        /\ \A i, j \in DOMAIN up : i < j => up[i] < up[j]
        /\ Len(down) = Len(up)
        /\ \A i \in DOMAIN up : down[i] = up[Len(up) + 1 - i]
=============================================================================
