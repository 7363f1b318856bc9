------------------------------- MODULE RBTree -------------------------------
(***************************************************************************)
(* RBBinaryTree of CSources/LISTE.C: insertion and deletion with the       *)
(* repair cases 1 to 5 and 1 to 6.  rank[n] is the color.                  *)
(***************************************************************************)
EXTENDS SortedTree

Init == kind = "RB" /\ Opened

GrandParent(T, n) == T.parent[T.parent[n]]
Paint(T, n, color) == [T EXCEPT !.rank[n] = color]

ReplaceNode(T, old, new) ==
    LET p == T.parent[old] IN
    SetParent(IF p = NULL THEN [T EXCEPT !.root = new] ELSE [T EXCEPT ![Side(T, old)][p] = new],
              new, p)

\* RotateLeft and RotateRight: n goes down to the given side
Rotate(T, n, side) ==
    LET r == T[Other(side)][n] IN
    Attach(Attach(ReplaceNode(T, n, r), n, Other(side), T[side][r]), r, side, n)

-----------------------------------------------------------------------------
\* n is outside its grandparent or was brought there
InsertCase5(T, n) ==
    LET g == GrandParent(T, n) IN
    Rotate(Paint(Paint(T, T.parent[n], BLACK), g, RED), g, Other(Side(T, n)))

InsertCase4(T, n) ==
    LET p == T.parent[n] IN
    IF Side(T, n) = Side(T, p) THEN InsertCase5(T, n)
    ELSE InsertCase5(Rotate(T, p, Side(T, p)), p)

RedUncle(T, n) ==
    LET p == T.parent[n] IN p # NULL /\ Color(T, p) = RED /\ Color(T, Sibling(T, p)) = RED

\* at: a call of InsertCase1, its tree and its node.  With a red uncle the next
\* call is about the grandparent.
InsertCase3(at) ==
    LET T == at.tree
        p == T.parent[at.node]
        g == GrandParent(T, at.node)
    IN  IF RedUncle(T, at.node)
        THEN [tree |-> Paint(Paint(Paint(T, p, BLACK), Sibling(T, p), BLACK), g, RED), node |-> g]
        ELSE at

\* the last call of InsertCase1 by way of case 3
InsertLast(T, n) ==
    LET call[k \in 0 .. MaxNodes] ==
            IF k = 0 THEN [tree |-> T, node |-> n] ELSE InsertCase3(call[k - 1])
    IN  call[MaxNodes]

InsertCase2(T, n) ==
    IF T.parent[n] = NULL THEN Paint(T, n, BLACK)
    ELSE IF Color(T, T.parent[n]) = BLACK THEN T
    ELSE InsertCase4(T, n)

InsertCase1(T, n) == LET last == InsertLast(T, n) IN InsertCase2(last.tree, last.node)

-----------------------------------------------------------------------------
\* fault: the nephew on the far side stays red
DeleteCase6_RedNephew(T, n) ==
    LET p == T.parent[n]
        s == Sibling(T, n)
    IN  Rotate(Paint(Paint(T, s, T.rank[p]), p, BLACK), p, Side(T, n))

DeleteCase6(T, n) ==
    LET p == T.parent[n]
        side == Side(T, n)
        s == Sibling(T, n)
    IN  Rotate(Paint(Paint(Paint(T, s, T.rank[p]), p, BLACK), T[Other(side)][s], BLACK), p, side)

\* the red nephew on n's side is brought to the other side
DeleteCase5(T, n) ==
    LET side == Side(T, n)
        s == Sibling(T, n)
    IN  IF Color(T, s) = BLACK /\ Color(T, T[side][s]) = RED /\ Color(T, T[Other(side)][s]) = BLACK
        THEN DeleteCase6(Rotate(Paint(Paint(T, s, RED), T[side][s], BLACK), s, Other(side)), n)
        ELSE DeleteCase6(T, n)

\* the sibling and its children are black
BlackFamily(T, n) ==
    LET s == Sibling(T, n) IN
    Color(T, s) = BLACK /\ Color(T, T.left[s]) = BLACK /\ Color(T, T.right[s]) = BLACK

DeleteCase4(T, n) ==
    IF Color(T, T.parent[n]) = RED /\ BlackFamily(T, n)
    THEN Paint(Paint(T, Sibling(T, n), RED), T.parent[n], BLACK)
    ELSE DeleteCase5(T, n)

\* a red sibling is rotated above the parent
DeleteCase2(T, n) ==
    LET p == T.parent[n]
        s == Sibling(T, n)
    IN  IF Color(T, s) = RED THEN Rotate(Paint(Paint(T, p, RED), s, BLACK), p, Side(T, n)) ELSE T

\* at: a call of DeleteCase1.  When parent, sibling and nephews are black the
\* next call is about the parent.
DeleteCase3(at) ==
    LET n == at.node
        p == at.tree.parent[n]
        T == DeleteCase2(at.tree, n)
    IN  IF p # NULL /\ Color(T, T.parent[n]) = BLACK /\ BlackFamily(T, n)
        THEN [tree |-> Paint(T, Sibling(T, n), RED), node |-> T.parent[n]]
        ELSE at

\* the last call of DeleteCase1 by way of case 3
DeleteLast(T, n) ==
    LET call[k \in 0 .. MaxNodes] ==
            IF k = 0 THEN [tree |-> T, node |-> n] ELSE DeleteCase3(call[k - 1])
    IN  call[MaxNodes]

DeleteCase1(T, n) ==
    LET last == DeleteLast(T, n) IN
    IF last.tree.parent[last.node] = NULL THEN last.tree
    ELSE DeleteCase4(DeleteCase2(last.tree, last.node), last.node)

-----------------------------------------------------------------------------
\* a new red leaf for d; nodeCount is counted up before the search
NewNode(T, d) ==
    LET n == Fresh(T) IN
    [T EXCEPT !.used = @ \cup {n}, !.data[n] = d, !.nodeCount = @ + 1]

\* a value that is there already returns NULL and leaves the new node behind
InsertNode(T, d) ==
    LET n == Fresh(T)
        T1 == NewNode(T, d)
        at == Descend(T1, T1.root, d)
    IN  IF T.root = NULL THEN InsertCase1([T1 EXCEPT !.root = n], n)
        ELSE IF T.data[at] = d THEN T1
        ELSE InsertCase1(Attach(T1, at, IF T.data[at] > d THEN "left" ELSE "right", n), n)

InsertSorted(d) ==
    IF CanAlloc(tree)
    THEN tree' = InsertNode(tree, d) /\ reply' = Answer("Insert", d, FindSorted(tree, d) = NULL)
    ELSE UNCHANGED tree /\ reply' = Answer("Insert", d, FALSE)

\* fault: a node without children is not unlinked
Unlink_KeepsLeaf(T, n) ==
    LET child == IF T.right[n] = NULL THEN T.left[n] ELSE T.right[n]
        T1 == IF T.rank[n] = BLACK THEN DeleteCase1(Paint(T, n, Color(T, child)), n) ELSE T
        T2 == IF child = NULL THEN T1 ELSE ReplaceNode(T1, n, child)
        T3 == IF T1.parent[n] = NULL /\ child # NULL THEN Paint(T2, child, BLACK) ELSE T2
    IN  [Free(T3, n) EXCEPT !.nodeCount = @ - 1]

\* n has at most one child: it takes its place
Unlink(T, n) ==
    LET child == IF T.right[n] = NULL THEN T.left[n] ELSE T.right[n]
        T1 == IF T.rank[n] = BLACK THEN DeleteCase1(Paint(T, n, Color(T, child)), n) ELSE T
        T2 == ReplaceNode(T1, n, child)
        T3 == IF T1.parent[n] = NULL /\ child # NULL THEN Paint(T2, child, BLACK) ELSE T2
    IN  [Free(T3, n) EXCEPT !.nodeCount = @ - 1]

\* a node with two children exchanges its data with its predecessor
RemoveNode(T, n) ==
    LET pred == Outermost(T, T.left[n], "right") IN
    IF T.left[n] # NULL /\ T.right[n] # NULL
    THEN Unlink([T EXCEPT !.data[n] = T.data[pred], !.data[pred] = T.data[n]], pred)
    ELSE Unlink(T, n)

RemoveSorted(d) ==
    LET n == FindSorted(tree, d) IN
    /\ tree' = IF n = NULL THEN tree ELSE RemoveNode(tree, n)
    /\ reply' = Answer("Remove", d, n # NULL)

Lookup(d) ==
    UNCHANGED tree /\ reply' = Answer("Find", d, FindSorted(tree, d) # NULL)

Calls(d) == InsertSorted(d) \/ RemoveSorted(d) \/ Lookup(d)

Next == UNCHANGED kind /\ \E d \in Data : Calls(d)

Spec == Init /\ [][Next]_vars

=============================================================================
