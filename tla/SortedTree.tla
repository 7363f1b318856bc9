---------------------------- MODULE SortedTree -----------------------------
(***************************************************************************)
(* What the red-black and the AVL tree of CSources/LISTE.C have in common: *)
(* the head and its nodes, how they are opened, and what callers rely on   *)
(* whichever of the two they use.                                          *)
(***************************************************************************)
EXTENDS BinaryTree

VARIABLES
    kind,   \* "RB" or "AVL": which of the two it is
    tree,   \* the head and the heap its nodes live in
    reply   \* what the last call returned

vars == <<kind, tree, reply>>

Empty == [x \in Nodes |-> NULL]

Opened ==
    /\ tree = [root |-> NULL, nodeCount |-> 0, used |-> {}, left |-> Empty, right |-> Empty,
               parent |-> Empty, data |-> Empty, rank |-> Empty]
    /\ reply = NoAnswer

-----------------------------------------------------------------------------
\* rank[n] of a red-black tree is the color.
RED == 0      \* the first enumerator, what zeroed memory is
BLACK == 1
Color(T, n) == IF n = NULL THEN BLACK ELSE T.rank[n]

\* rank[n] of an AVL tree is the height.
Height(T, n) == IF n = NULL THEN 0 ELSE T.rank[n]
Max2(a, b) == IF a > b THEN a ELSE b
Balance(T, n) == IF n = NULL THEN 0 ELSE Height(T, T.left[n]) - Height(T, T.right[n])

-----------------------------------------------------------------------------
TypeOK ==
    /\ kind \in {"RB", "AVL"}
    /\ tree.used \subseteq Nodes /\ tree.root \in {NULL} \cup tree.used
    /\ tree.nodeCount \in Nat
    /\ \A n \in tree.used :
          /\ {tree.left[n], tree.right[n], tree.parent[n]} \subseteq {NULL} \cup tree.used
          /\ tree.data[n] \in Data /\ tree.rank[n] \in Nat
    /\ IsAnswer(reply)

\* The links agree: a child knows its parent, no link leads to a freed node, and nodeCount
\* counts what TFalloc gave out.
LinksAgree ==
    /\ TypeOK
    /\ tree.root # NULL => tree.parent[tree.root] = NULL
    /\ InTree(tree) \subseteq tree.used /\ tree.nodeCount = Cardinality(tree.used)
    /\ \A n \in InTree(tree), side \in {"left", "right"} :
          tree[side][n] # NULL => tree.parent[tree[side][n]] = n

\* The black nodes on the way from n to the root.
BlackAbove(n) ==
    LET up[m \in 0 .. MaxNodes] ==
            IF m = NULL THEN 0 ELSE Color(tree, m) + up[tree.parent[m]]
    IN  up[n]

\* RBBinaryTreeVerifyProperties: every node is red or black, the root is black, no red
\* node has a red neighbour, every path to a missing child meets as many black nodes.
VerifyProperties ==
    kind = "RB" =>
        /\ \A n \in InTree(tree) : Color(tree, n) \in {RED, BLACK}
        /\ Color(tree, tree.root) = BLACK
        /\ \A n \in InTree(tree) : Color(tree, n) = RED =>
              {Color(tree, tree.left[n]), Color(tree, tree.right[n]), Color(tree, tree.parent[n])}
                 = {BLACK}
        /\ \A m, n \in {k \in InTree(tree) : NULL \in {tree.left[k], tree.right[k]}} :
              BlackAbove(m) = BlackAbove(n)

\* Every node in use of an AVL tree hangs in it, keeps the height of its subtree, and has subtrees
\* that differ by one at most.
Balanced ==
    LET high[n \in 0 .. MaxNodes] ==
            IF n = NULL THEN 0 ELSE Max2(high[tree.left[n]], high[tree.right[n]]) + 1
    IN  kind = "AVL" =>
            /\ tree.used \subseteq InTree(tree)
            /\ \A n \in InTree(tree) : tree.rank[n] = high[n] /\ Balance(tree, n) \in -1 .. 1

\* Begin, Next, Last and Prev, which climb by the parent links, visit the nodes in order.
VisitsInOrder == WalksInOrder(tree)

\* The tree implements the set it stands for.
Promised == INSTANCE SortedSet WITH contents <- Contents(tree)
IsSortedSet == Promised!Spec
=============================================================================
