------------------------------- MODULE BTree --------------------------------
(***************************************************************************)
(* BTree of CSources/LISTE.C.  A leaf (isData) holds data, another node    *)
(* its children, and every node a key: the datum its search compares with. *)
(* A node that is full is split, and one that has become too empty joins a *)
(* neighbour; both may go on at its parent.                                *)
(*                                                                         *)
(* The recursive helpers return along the way they came, which is the way  *)
(* of the parent links (LinksAgree), so both are written as a climb.       *)
(***************************************************************************)
EXTENDS TreeCalls, FiniteSets, SequencesExt

CONSTANTS
    MaxNodes, MaxData,   \* bounds: nodes in use and data in the tree
    maxEntriesPerNode,
    Searched             \* the tree is used by the sort function, not only by position

\* of a node of three entries a split leaves one with a single entry
BTreeAssumption ==
    /\ MaxNodes \in Nat \ {0} /\ MaxData \in Nat
    /\ maxEntriesPerNode \in Nat /\ maxEntriesPerNode >= 4
    /\ Searched \in BOOLEAN

Nodes == 1 .. MaxNodes

VARIABLES tree, reply
vars == <<tree, reply>>

Init ==
    /\ tree = [root |-> 1, nodeCount |-> 0, used |-> {1}, entries |-> [n \in Nodes |-> <<>>],
               parent |-> [n \in Nodes |-> NULL], key |-> [n \in Nodes |-> NULL],
               isData |-> [n \in Nodes |-> n = 1], tested |-> FALSE]
    /\ reply = NoAnswer

Cnt(T, n) == Len(T.entries[n])
Children(T, n) == IF T.isData[n] THEN {} ELSE ToSet(T.entries[n])
Place(T, n) == CHOOSE i \in 1 .. Cnt(T, T.parent[n]) : T.entries[T.parent[n]][i] = n
Underflow(T, n) == Cnt(T, n) < maxEntriesPerNode \div 2
Full(T, n) == Cnt(T, n) >= maxEntriesPerNode

\* an insertion needs a node on every level and a new root
Fresh(T) == CHOOSE n \in Nodes \ T.used : \A m \in Nodes \ T.used : n <= m
Roomy(T) == T.nodeCount < MaxData /\ Cardinality(T.used) + 4 <= MaxNodes

FreeNode(T, n) ==
    [T EXCEPT !.used = @ \ {n}, !.entries[n] = <<>>, !.parent[n] = NULL, !.key[n] = NULL,
              !.isData[n] = FALSE]

Adopt(T, n, children) == FoldSet(LAMBDA m, U : [U EXCEPT !.parent[m] = n], T, children)

-----------------------------------------------------------------------------
(* Begin, Last, Next, Prev and Index.  A position is a leaf and an offset. *)

Outermost(T, n, side) ==
    LET end[m \in Nodes] ==
            IF T.isData[m] THEN m ELSE end[T.entries[m][IF side = "left" THEN 1 ELSE Cnt(T, m)]]
    IN  end[n]

At(n, i) == [node |-> n, offset |-> i]
NoPlace == At(NULL, 0)
GetData(T, at) == T.entries[at.node][at.offset]

\* the first or last position below n
EndOf(T, n, side) ==
    LET m == Outermost(T, n, side) IN
    IF Cnt(T, m) = 0 THEN NoPlace ELSE At(m, IF side = "left" THEN 1 ELSE Cnt(T, m))

\* fault: the climb stops one level up
BTreeNext_NoClimb(T, at) ==
    LET p == T.parent[at.node] IN
    IF at.offset < Cnt(T, at.node) THEN At(at.node, at.offset + 1)
    ELSE IF p = NULL \/ Place(T, at.node) = Cnt(T, p) THEN NoPlace
    ELSE EndOf(T, T.entries[p][Place(T, at.node) + 1], "left")

\* the climb to the first ancestor that is not the last child
BTreeNext(T, at) ==
    LET climb[n \in Nodes] ==
            LET p == T.parent[n] IN
            IF p = NULL THEN NoPlace
            ELSE IF Place(T, n) < Cnt(T, p) THEN EndOf(T, T.entries[p][Place(T, n) + 1], "left")
            ELSE climb[p]
    IN  IF at.offset < Cnt(T, at.node) THEN At(at.node, at.offset + 1) ELSE climb[at.node]

BTreePrev(T, at) ==
    LET climb[n \in Nodes] ==
            LET p == T.parent[n] IN
            IF p = NULL THEN NoPlace
            ELSE IF Place(T, n) > 1 THEN EndOf(T, T.entries[p][Place(T, n) - 1], "right")
            ELSE climb[p]
    IN  IF at.offset > 1 THEN At(at.node, at.offset - 1) ELSE climb[at.node]

\* the data below n, leaf after leaf, which Index counts through
Flat(T, n) ==
    LET flat[m \in Nodes] ==
            IF T.isData[m] THEN T.entries[m]
            ELSE FoldLeft(LAMBDA all, child : all \o flat[child], <<>>, T.entries[m])
    IN  flat[n]

Contents(T) == ToSet(Flat(T, T.root))

-----------------------------------------------------------------------------
(* FindSorted and the way down the sorted calls take                       *)

\* the last child whose key is not above d, or the first one
Route(T, n, d) ==
    CHOOSE i \in 1 .. Cnt(T, n) :
        /\ i = Cnt(T, n) \/ T.key[T.entries[n][i + 1]] > d
        /\ \A j \in 1 .. i - 1 : T.key[T.entries[n][j + 1]] <= d

LeafFor(T, d) ==
    LET down[m \in Nodes] == IF T.isData[m] THEN m ELSE down[T.entries[m][Route(T, m, d)]]
    IN  down[T.root]

InLeaf(T, n, d) ==
    IF d \in ToSet(T.entries[n])
    THEN At(n, CHOOSE i \in 1 .. Cnt(T, n) : T.entries[n][i] = d) ELSE NoPlace

FindSorted(T, d) == InLeaf(T, LeafFor(T, d), d)

\* Find looks at all data from Begin on
Find(T, d) ==
    IF d \notin Contents(T) THEN NoPlace
    ELSE InLeaf(T, CHOOSE n \in T.used : T.isData[n] /\ d \in ToSet(T.entries[n]), d)

-----------------------------------------------------------------------------
(* The keys                                                                *)

FirstKey(T, n) == IF T.isData[n] THEN T.entries[n][1] ELSE T.key[T.entries[n][1]]

\* fault: only the node itself gets the key
KeyUpdate_Here(T, n) == [T EXCEPT !.key[n] = FirstKey(T, n)]

\* as far up as n begins the parent
RECURSIVE KeyUpdate(_, _)
KeyUpdate(T, n) ==
    LET T1 == [T EXCEPT !.key[n] = FirstKey(T, n)]
        p == T.parent[n]
    IN  IF p # NULL /\ T.entries[p][1] = n THEN KeyUpdate(T1, p) ELSE T1

-----------------------------------------------------------------------------
(* Insertion                                                               *)

\* the last entries of n move to a new node
Split(T, n, many) ==
    LET m == Fresh(T)
        kept == Cnt(T, n) - many
        T1 == [T EXCEPT !.used = @ \cup {m}, !.isData[m] = T.isData[n],
                        !.entries[n] = SubSeq(@, 1, kept),
                        !.entries[m] = SubSeq(T.entries[n], kept + 1, Cnt(T, n))]
    IN  [tree |-> Adopt([T1 EXCEPT !.key[m] = FirstKey(T1, m)], m, Children(T1, m)), node |-> m]

\* Append moves one entry, Prepend all but one
Moved(way, cnt) ==
    CASE way = "append" -> 1 [] way = "prepend" -> cnt - 1 [] OTHER -> cnt \div 2

\* a new root above n and m
Grow(T, n, m) ==
    LET top == Fresh(T)
    IN  [T EXCEPT !.used = @ \cup {top}, !.root = top, !.entries[top] = <<n, m>>,
                  !.key[top] = T.key[n], !.parent[n] = top, !.parent[m] = top]

\* m comes behind n in n's parent p
Widen(T, p, n, m) ==
    [T EXCEPT !.entries[p] = InsertAt(@, Place(T, n) + 1, m), !.parent[m] = p]

\* as long as a node is full; the root gets a parent
RECURSIVE SplitUp(_, _, _)
SplitUp(T, n, way) ==
    LET s == Split(T, n, Moved(way, Cnt(T, n)))
        p == T.parent[n]
    IN  IF ~Full(T, n) THEN T
        ELSE IF p = NULL THEN Grow(s.tree, n, s.node)
        ELSE SplitUp(Widen(s.tree, p, n, s.node), p, way)

\* where entry i of a leaf is after splits made T of the tree U
Settled(U, T, leaf, i) ==
    LET right == CHOOSE n \in T.used \ U.used : T.isData[n]
    IN  IF i <= Cnt(T, leaf) THEN At(leaf, i) ELSE At(right, i - Cnt(T, leaf))

Placed(U, T, leaf, i) == [tree |-> T, at |-> Settled(U, T, leaf, i)]

\* d becomes entry i of a leaf
Put(T, leaf, i, d, way) ==
    LET T1 == [T EXCEPT !.entries[leaf] = InsertAt(@, i, d), !.nodeCount = @ + 1, !.tested = FALSE]
        T2 == IF i = 1 THEN KeyUpdate(T1, leaf) ELSE T1
    IN  Placed(T, SplitUp(T2, leaf, way), leaf, i)

\* the answer tells what the returned position holds
Inserted(result) ==
    /\ tree' = result.tree
    /\ reply' = Answer("Insert", GetData(result.tree, result.at), TRUE)

\* equal data fail the assertions of BTreeSortedTester, which looks at the
\* tree when it has a new root
BTreeInsertSorted(d) ==
    /\ Searched /\ Roomy(tree) /\ d \notin Contents(tree)
    /\ LET leaf == LeafFor(tree, d)
           i == Cardinality({x \in ToSet(tree.entries[leaf]) : x < d}) + 1
           result == Put(tree, leaf, i, d, "sorted")
       IN  Inserted([result EXCEPT !.tree.tested = result.tree.root # tree.root])

(* The calls that insert at a position are made where they keep the order. *)

BTreeAppend(d) ==
    /\ Roomy(tree) /\ \A x \in Contents(tree) : x < d
    /\ LET leaf == Outermost(tree, tree.root, "right")
       IN  Inserted(Put(tree, leaf, Cnt(tree, leaf) + 1, d, "append"))

BTreePrepend(d) ==
    /\ Roomy(tree) /\ \A x \in Contents(tree) : x > d
    /\ Inserted(Put(tree, Outermost(tree, tree.root, "left"), 1, d, "prepend"))

\* before the first datum above d
BTreeInsertBefore(d) ==
    LET above == {x \in Contents(tree) : x > d} IN
    /\ Roomy(tree) /\ above # {} /\ d \notin Contents(tree)
    /\ LET at == Find(tree, Min(above)) IN Inserted(Put(tree, at.node, at.offset, d, "half"))

\* Behind the last datum below d.  Where a leaf ends, d may come to lie left of
\* a key that is not above it, and FindSorted passes it by.
BTreeInsertAfter(d) ==
    LET below == {x \in Contents(tree) : x < d} IN
    /\ ~Searched /\ Roomy(tree) /\ below # {} /\ d \notin Contents(tree)
    /\ LET at == Find(tree, Max(below)) IN Inserted(Put(tree, at.node, at.offset + 1, d, "half"))

-----------------------------------------------------------------------------
(* Removal                                                                 *)

\* the entries of src are appended to dest
Join(T, dest, src) ==
    LET T1 == Adopt([T EXCEPT !.entries[dest] = @ \o T.entries[src]], dest, Children(T, src))
        T2 == [T1 EXCEPT !.entries[T.parent[src]] = RemoveAt(@, Place(T, src))]
        T3 == FreeNode(T2, src)
    IN  IF Cnt(T, dest) = 0 /\ Place(T, dest) = 1 THEN KeyUpdate(T3, dest) ELSE T3

Drop(T, n) == FreeNode([T EXCEPT !.entries[T.parent[n]] = RemoveAt(@, Place(T, n))], n)

Fit(T, m, n) == Cnt(T, m) + Cnt(T, n) < maxEntriesPerNode

\* a root with one child gives way to it
RECURSIVE Shrink(_)
Shrink(T) ==
    LET child == T.entries[T.root][1] IN
    IF ~T.isData[T.root] /\ Cnt(T, T.root) = 1
    THEN Shrink(FreeNode([T EXCEPT !.root = child, !.parent[child] = NULL], T.root)) ELSE T

\* n joins its right or left neighbour if both fit into a node
Relieve(T, n) ==
    LET p == T.parent[n]
        i == Place(T, n)
        right == T.entries[p][i + 1]
        left == T.entries[p][i - 1]
    IN  IF Cnt(T, p) < 2 /\ Cnt(T, n) = 0 THEN Drop(T, n)
        ELSE IF i < Cnt(T, p) /\ Fit(T, n, right) THEN Join(T, n, right)
        ELSE IF i > 1 /\ Fit(T, n, left) THEN Join(T, left, n)
        ELSE T

\* RemoveSorted goes up from a node that underflowed and joined, and looks
\* at the tree when it reaches the root; Remove goes up to the root
RECURSIVE RelieveUp(_, _, _)
RelieveUp(T, n, sorted) ==
    LET p == T.parent[n]
        T1 == Relieve(T, n)
    IN  IF p = NULL THEN [Shrink(T) EXCEPT !.tested = sorted]
        ELSE IF sorted /\ (T1 = T \/ ~Underflow(T1, p)) THEN T1
        ELSE RelieveUp(T1, p, sorted)

Take(T, at, sorted) ==
    LET n == at.node
        T1 == [T EXCEPT !.entries[n] = RemoveAt(@, at.offset), !.nodeCount = @ - 1, !.tested = FALSE]
        T2 == IF at.offset = 1 /\ Cnt(T1, n) > 0 THEN KeyUpdate(T1, n) ELSE T1
    IN  IF Underflow(T2, n) THEN RelieveUp(T2, n, sorted) ELSE T2

BTreeRemoveSorted(d) ==
    LET at == FindSorted(tree, d) IN
    /\ Searched
    /\ tree' = IF at = NoPlace THEN tree ELSE Take(tree, at, TRUE)
    /\ reply' = Answer("Remove", d, at # NoPlace)

\* at a position found before
BTreeRemove(d) ==
    LET at == Find(tree, d) IN
    /\ at # NoPlace
    /\ tree' = Take(tree, at, FALSE)
    /\ reply' = Answer("Remove", d, TRUE)

Lookup(d) ==
    Searched /\ UNCHANGED tree /\ reply' = Answer("Find", d, FindSorted(tree, d) # NoPlace)

Calls(d) ==
    \/ BTreeInsertSorted(d) \/ BTreeAppend(d) \/ BTreePrepend(d)
    \/ BTreeInsertBefore(d) \/ BTreeInsertAfter(d)
    \/ BTreeRemoveSorted(d) \/ BTreeRemove(d) \/ Lookup(d)

Next == \E d \in Data : Calls(d)

Spec == Init /\ [][Next]_vars

-----------------------------------------------------------------------------
TypeOK ==
    /\ tree.used \subseteq Nodes /\ tree.root \in tree.used
    /\ tree.nodeCount \in Nat /\ tree.tested \in BOOLEAN
    /\ \A n \in tree.used :
          /\ tree.isData[n] \in BOOLEAN /\ tree.parent[n] \in {NULL} \cup tree.used
          /\ \A x \in ToSet(tree.entries[n]) : x \in IF tree.isData[n] THEN Data ELSE tree.used
          /\ tree.key[n] = NULL \/ tree.key[n] \in Data
    /\ IsAnswer(reply)

Depth(n) ==
    LET up[m \in Nodes] == IF tree.parent[m] = NULL THEN 0 ELSE up[tree.parent[m]] + 1 IN up[n]

\* Every node in use hangs in the tree, once, below the node it calls its
\* parent, and the count is the number of data.
LinksAgree ==
    /\ tree.parent[tree.root] = NULL
    /\ \A n \in tree.used : Children(tree, n) = {m \in tree.used : tree.parent[m] = n}
    /\ \A n \in tree.used : ~tree.isData[n] => IsInjective(tree.entries[n])
    /\ \A n \in tree.used \ {tree.root} : tree.parent[n] # NULL
    /\ tree.nodeCount = Len(Flat(tree, tree.root))

\* All leaves are on one level; no node is full, and none but the root is empty.
Balanced ==
    /\ \A m, n \in {k \in tree.used : tree.isData[k]} : Depth(m) = Depth(n)
    /\ \A n \in tree.used :
          /\ Cnt(tree, n) < maxEntriesPerNode
          /\ Cnt(tree, n) = 0 => n = tree.root /\ tree.isData[n]

\* The key of a child is above all data on its left, and not above its own,
\* so that the way down leads to the leaf of every datum.
KeysSeparate ==
    Searched => \A n \in tree.used : ~tree.isData[n] =>
        \A i \in 2 .. Cnt(tree, n) :
            LET key == tree.key[tree.entries[n][i]] IN
            /\ \A x \in ToSet(Flat(tree, tree.entries[n][i - 1])) : x < key
            /\ \A x \in ToSet(Flat(tree, tree.entries[n][i])) : key <= x

Walk(at, step(_, _)) ==
    LET walk[k \in 0 .. tree.nodeCount + 1, n \in 0 .. MaxNodes, i \in 0 .. maxEntriesPerNode] ==
            IF n = NULL \/ k = 0 THEN <<>>
            ELSE LET next == step(tree, At(n, i))
                 IN  <<tree.entries[n][i]>> \o walk[k - 1, next.node, next.offset]
    IN  walk[tree.nodeCount + 1, at.node, at.offset]

\* Begin and Next visit the data in the order of Index, which is ascending;
\* Last and Prev take the same way back.
VisitsInOrder ==
    LET all == Flat(tree, tree.root) IN
    /\ \A i, j \in DOMAIN all : i < j => all[i] < all[j]
    /\ Walk(EndOf(tree, tree.root, "left"), BTreeNext) = all
    /\ Walk(EndOf(tree, tree.root, "right"), BTreePrev) = Reverse(all)

\* What BTreeSortedTester asserts when it is called: the key of a leaf is its
\* first datum, and the keys of neighbours ascend.
SortedTester ==
    tree.tested =>
        /\ \A n \in tree.used : tree.isData[n] /\ Cnt(tree, n) > 0 => tree.key[n] = tree.entries[n][1]
        /\ \A n \in tree.used : ~tree.isData[n] =>
              \A i \in 2 .. Cnt(tree, n) :
                  tree.key[tree.entries[n][i - 1]] < tree.key[tree.entries[n][i]]
=============================================================================
