------------------------------ MODULE AVLTree -------------------------------
(***************************************************************************)
(* AVLBinaryTree of CSources/LISTE.C: recursive insertion and deletion     *)
(* that rebalance on the way back.  rank[n] is the height.  The helpers    *)
(* are functions of the node they are called with, as they go down the     *)
(* links of the tree that the call found.                                  *)
(***************************************************************************)
EXTENDS SortedTree

Init == kind = "AVL" /\ Opened

Measure(T, n) == [T EXCEPT !.rank[n] = Max2(Height(T, T.left[n]), Height(T, T.right[n])) + 1]

\* RotateLeft and RotateRight: n goes down to the given side, its child r takes its place
Rotate(T, n, side) ==
    LET r == T[Other(side)][n]
        T1 == Attach(T, n, Other(side), T[side][r])
        T2 == [T1 EXCEPT ![side][r] = n, !.parent[r] = T.parent[n], !.parent[n] = r]
    IN  [tree |-> Measure(Measure(T2, n), r), node |-> r]

\* the child on that side is rotated down to the side, then n to the other one
RotateTwice(T, n, side) ==
    LET inner == Rotate(T, T[side][n], side)
    IN  Rotate([inner.tree EXCEPT ![side][n] = inner.node], n, Other(side))

-----------------------------------------------------------------------------
Leaf(T, d) ==
    LET n == Fresh(T) IN
    [tree |-> [T EXCEPT !.used = @ \cup {n}, !.data[n] = d, !.rank[n] = 1, !.nodeCount = @ + 1],
     node |-> n]

\* after an insertion of d below n the data tell which rotation is due
Rebalance(T, n, d) ==
    LET heavy == IF Balance(T, n) > 1 THEN "left" ELSE "right"
        child == T[heavy][n]
    IN  IF Balance(T, n) \in -1 .. 1 THEN [tree |-> T, node |-> n]
        ELSE IF (T.data[child] > d) = (heavy = "left") THEN Rotate(T, n, Other(heavy))
        ELSE RotateTwice(T, n, heavy)

\* [tree, node]: the tree and what n's parent points to now; NULL when TFalloc refused
InsertHelper(T, n, d) ==
    LET insert[m \in 0 .. MaxNodes] ==
            LET side == IF T.data[m] > d THEN "left" ELSE "right"
                sub == insert[T[side][m]]
            IN  IF m = NULL THEN IF CanAlloc(T) THEN Leaf(T, d) ELSE [tree |-> T, node |-> NULL]
                ELSE IF T.data[m] = d THEN [tree |-> T, node |-> m]
                ELSE Rebalance(Measure(Attach(sub.tree, m, side, sub.node), m), m, d)
    IN  insert[n]

InsertSorted(d) ==
    LET result == InsertHelper(tree, tree.root, d) IN
    /\ tree' = [result.tree EXCEPT !.root = result.node]
    /\ reply' = Answer("Insert", d, FindSorted(tree, d) = NULL /\ CanAlloc(tree))

-----------------------------------------------------------------------------
\* fault: single and double rotation are chosen as after an insertion
RebalanceRemoved_Strict(T, n) ==
    LET heavy == IF Balance(T, n) > 1 THEN "left" ELSE "right"
        lean == Balance(T, T[heavy][n])
    IN  IF Balance(T, n) \in -1 .. 1 THEN [tree |-> T, node |-> n]
        ELSE IF (heavy = "left" /\ lean > 0) \/ (heavy = "right" /\ lean < 0)
             THEN Rotate(T, n, Other(heavy))
        ELSE RotateTwice(T, n, heavy)

\* after a deletion the balance of the heavy child tells which rotation is due
RebalanceRemoved(T, n) ==
    LET heavy == IF Balance(T, n) > 1 THEN "left" ELSE "right"
        lean == Balance(T, T[heavy][n])
    IN  IF Balance(T, n) \in -1 .. 1 THEN [tree |-> T, node |-> n]
        ELSE IF (heavy = "left" /\ lean >= 0) \/ (heavy = "right" /\ lean <= 0)
             THEN Rotate(T, n, Other(heavy))
        ELSE RotateTwice(T, n, heavy)

\* n on the way back, with a subtree that may have become lower
Lightened(T, n) == RebalanceRemoved(Measure(T, n), n)

\* n has at most one child: it is freed, or takes over the child's data and children
DropOne(T, n) ==
    LET child == IF T.left[n] # NULL THEN T.left[n] ELSE T.right[n]
        T1 == Attach(Attach([T EXCEPT !.data[n] = T.data[child]], n, "left", T.left[child]),
                     n, "right", T.right[child])
    IN  IF child = NULL
        THEN [tree |-> [Free(T, n) EXCEPT !.nodeCount = @ - 1], node |-> NULL]
        ELSE Lightened([Free(T1, child) EXCEPT !.nodeCount = @ - 1], n)

\* down from n to the node that holds d, which Drop removes, and back
RemoveBelow(T, n, d, Drop(_, _)) ==
    LET remove[m \in 0 .. MaxNodes] ==
            LET side == IF T.data[m] > d THEN "left" ELSE "right"
                sub == remove[T[side][m]]
            IN  IF m = NULL THEN [tree |-> T, node |-> NULL]
                ELSE IF T.data[m] = d THEN Drop(T, m)
                ELSE Lightened(Attach(sub.tree, m, side, sub.node), m)
    IN  remove[n]

\* the code copies the successor's data and removes them below
RemoveNext(T, n, next, d) ==
    LET sub == RemoveBelow([T EXCEPT !.data[n] = next], T.right[n], d, DropOne)
    IN  Lightened(Attach(sub.tree, n, "right", sub.node), n)

\* fault: what is removed below is the old data
RemoveHere_OldData(T, n) ==
    IF NULL \in {T.left[n], T.right[n]} THEN DropOne(T, n)
    ELSE RemoveNext(T, n, T.data[Outermost(T, T.right[n], "left")], T.data[n])

\* A node with two children takes its successor's data, which is removed below:
\* that node has no left child.
RemoveHere(T, n) ==
    LET next == T.data[Outermost(T, T.right[n], "left")] IN
    IF NULL \in {T.left[n], T.right[n]} THEN DropOne(T, n)
    ELSE RemoveNext(T, n, next, next)

RemoveHelper(T, n, d) == RemoveBelow(T, n, d, RemoveHere)

RemoveSorted(d) ==
    LET result == RemoveHelper(tree, tree.root, d) IN
    /\ tree' = [result.tree EXCEPT !.root = result.node]
    /\ reply' = Answer("Remove", d, result.tree.nodeCount < tree.nodeCount)

Lookup(d) ==
    UNCHANGED tree /\ reply' = Answer("Find", d, FindSorted(tree, d) # NULL)

Calls(d) == InsertSorted(d) \/ RemoveSorted(d) \/ Lookup(d)

Next == UNCHANGED kind /\ \E d \in Data : Calls(d)

Spec == Init /\ [][Next]_vars
=============================================================================
