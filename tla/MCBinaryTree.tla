---------------------------- MODULE MCBinaryTree -----------------------------
(***************************************************************************)
(* The red-black and the AVL tree for TLC, one of them at a time.          *)
(*                                                                         *)
(* A tree sees data only through comparisons, and which node is which does *)
(* not matter: states are told apart by shape, by the ranks of the data,   *)
(* by what the nodes keep of their own (color, height), by which children  *)
(* know their parent, by the nodes in use, lost ones included, and by the  *)
(* count.  Calls are made about every value a node holds and one in every  *)
(* gap between two of them.  The last answer is not looked at by anything. *)
(***************************************************************************)
EXTENDS SortedTree, FiniteSetsExt, TLC

RB == INSTANCE RBTree
AVL == INSTANCE AVLTree

\* room for twelve halvings of a gap
Wide == 4096
Numbers == 1 .. 40 * Wide

Between(a, b) == IF a + 1 < b THEN (a + b) \div 2 ELSE Assert(FALSE, "no gap left")

Candidates ==
    LET held == {tree.data[n] : n \in tree.used}
        above(v) == {x \in held : x > v}
    IN  IF held = {} THEN {20 * Wide}
        ELSE held \cup {Min(held) - Wide, Max(held) + Wide}
               \cup {Between(v, Min(above(v))) : v \in held \ {Max(held)}}

MCInit == kind \in {"RB", "AVL"} /\ Opened

MCNext ==
    /\ UNCHANGED kind
    /\ \E d \in Candidates : (kind = "RB" /\ RB!Calls(d)) \/ (kind = "AVL" /\ AVL!Calls(d))

MCSpec == MCInit /\ [][MCNext]_vars

Shape ==
    LET held == Contents(tree)
        smaller(n) == Cardinality({d \in held : d < tree.data[n]})
        shape[n \in 0 .. MaxNodes] ==
            IF n = NULL THEN <<>>
            ELSE <<shape[tree.left[n]], smaller(n), tree.rank[n], n \in tree.used, shape[tree.right[n]],
                   {c \in {tree.left[n], tree.right[n]} \ {NULL} : tree.parent[c] # n} = {}>>
    IN  <<tree.root # NULL => tree.parent[tree.root] = NULL, shape[tree.root]>>

Seen == <<kind, Shape, Cardinality(tree.used), tree.nodeCount>>
=============================================================================
