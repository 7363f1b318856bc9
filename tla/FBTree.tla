------------------------------- MODULE FBTree -------------------------------
(***************************************************************************)
(* The B-tree of CSources/DBASENDX.C, the index of a dBase file.  It splits *)
(* and joins as BTree does, and every node is also a page of the index     *)
(* file: a call writes the pages it changes one by one, and the head with  *)
(* the place of the root and the count.  In a batch nothing is written     *)
(* until FBTreeEndBatch.                                                   *)
(*                                                                         *)
(* Nodes are loaded when they are needed and then kept; a page that was    *)
(* not loaded is what the node would be, so the model holds all of them.   *)
(* Data are numbers, a key with its record; no two records have equal keys. *)
(***************************************************************************)
EXTENDS BTree

CONSTANT BatchCalls   \* bound: insertions and removals in a batch

Pages == 1 .. 2 * MaxNodes

\* no datum is NULL
NeverWritten == [isData |-> TRUE, entries |-> <<NULL>>]

VARIABLE store
(* file      what a program that opens the file reads                      *)
(* page      fpNode: the page of a node, NULL before it has one            *)
(* modified, toAppend   isModified, isToAppend                             *)
(* calls     those of the batch                                            *)
(* torn      the files a crash during the last call could have left        *)

FBTreeInit ==
    /\ Init
    /\ store = [file |-> [root |-> NULL, nodeCount |-> 0,
                          pages |-> [p \in Pages |-> NeverWritten]],
                page |-> [n \in Nodes |-> NULL], modified |-> {}, toAppend |-> {},
                isBatch |-> FALSE, calls |-> 0, torn |-> <<>>]

-----------------------------------------------------------------------------
(* Pages.  A call works on S, the tree and the store together.             *)

Now == [tree |-> tree, store |-> [store EXCEPT !.torn = <<>>]]

Below(f, p) == {f.pages[p].entries[i].next : i \in DOMAIN f.pages[p].entries}

\* the pages below p, p the first
PagesFrom(f, p) ==
    LET all[q \in Pages] ==
            <<q>> \o IF f.pages[q].isData THEN <<>>
                     ELSE FoldLeft(LAMBDA s, e : s \o all[e.next], <<>>, f.pages[q].entries)
    IN  IF p = NULL THEN <<>> ELSE all[p]

PagesOf(f) == PagesFrom(f, f.root)

DataOf(f, pages) ==
    UNION {ToSet(f.pages[p].entries) : p \in {q \in pages : f.pages[q].isData}}

FileValues ==
    LET f == store.file
        pages == ToSet(PagesOf(f))
    IN  DataOf(f, pages)
          \cup UNION {{e.key : e \in ToSet(f.pages[p].entries)} : p \in {q \in pages : ~f.pages[q].isData}}

\* the file grows; a page nothing leads to is never read again
FreshPage(S) ==
    LET taken == ToSet(PagesOf(S.store.file)) \cup {S.store.page[n] : n \in S.tree.used}
    IN  CHOOSE p \in Pages \ taken : \A q \in Pages \ taken : p <= q

\* cnt, isData and the entries: data, or a key and the page of a child
Content(S, n) ==
    [isData |-> S.tree.isData[n],
     entries |-> IF S.tree.isData[n] THEN S.tree.entries[n]
                 ELSE [i \in 1 .. Cnt(S.tree, n) |->
                          [key |-> S.tree.key[S.tree.entries[n][i]],
                           next |-> S.store.page[S.tree.entries[n][i]]]]]

Wrote(S, file) == [S EXCEPT !.store.file = file, !.store.torn = Append(@, file)]

UpdateRoot(S) ==
    IF S.store.isBatch THEN S
    ELSE Wrote(S, [S.store.file EXCEPT !.root = S.store.page[S.tree.root],
                                       !.nodeCount = S.tree.nodeCount])

WriteNode(S, n) ==
    IF S.store.isBatch THEN [S EXCEPT !.store.modified = @ \cup {n}]
    ELSE Wrote(S, [S.store.file EXCEPT !.pages[S.store.page[n]] = Content(S, n)])

AppendNode(S, n) ==
    IF S.store.isBatch THEN [S EXCEPT !.store.toAppend = @ \cup {n}]
    ELSE WriteNode([S EXCEPT !.store.page[n] = FreshPage(S)], n)

\* an empty leaf, written also in a batch
CreateRoot(S) ==
    LET S1 == [S EXCEPT !.store.page[S.tree.root] = FreshPage(S)]
    IN  UpdateRoot(Wrote(S1, [S1.store.file EXCEPT
                                 !.pages[S1.store.page[S1.tree.root]] = Content(S1, S1.tree.root)]))

\* what was kept about nodes that TFfree took
Forget(S) ==
    [S EXCEPT !.store.page = [n \in Nodes |-> IF n \in S.tree.used THEN @[n] ELSE NULL],
              !.store.modified = @ \cap S.tree.used, !.store.toAppend = @ \cap S.tree.used]

\* a batch is so long
Counted(S) == IF S.store.isBatch THEN [S EXCEPT !.store.calls = @ + 1] ELSE S
InBatch == store.isBatch => store.calls < BatchCalls

Done(S) == tree' = S.tree /\ store' = Counted(S).store

-----------------------------------------------------------------------------
(* Insertion                                                               *)

\* fault: only the first parent is written
UpdateKeys_Once(S, n) ==
    LET p == S.tree.parent[n] IN
    IF p = NULL THEN S ELSE WriteNode([S EXCEPT !.tree = KeyUpdate(S.tree, n)], p)

RECURSIVE UpdateKeys(_, _)
UpdateKeys(S, n) ==
    LET p == S.tree.parent[n]
        S1 == WriteNode([S EXCEPT !.tree.key[n] = FirstKey(S.tree, n)], p)
    IN  IF p = NULL THEN S ELSE IF S.tree.entries[p][1] = n THEN UpdateKeys(S1, p) ELSE S1

\* n got an entry
RECURSIVE WriteUp(_, _)
WriteUp(S, n) ==
    LET s == Split(S.tree, n, Cnt(S.tree, n) \div 2)
        m == s.node
        p == S.tree.parent[n]
        top == Fresh(s.tree)
        S1 == WriteNode([S EXCEPT !.tree = s.tree], n)
        S2 == AppendNode([S1 EXCEPT !.tree.parent[m] = IF p = NULL THEN top ELSE p], m)
        wider == [S2 EXCEPT !.tree.entries[p] = InsertAt(@, Place(S.tree, n) + 1, m)]
        grown == [S2 EXCEPT !.tree.used = @ \cup {top}, !.tree.entries[top] = <<n, m>>,
                            !.tree.key[n] = FirstKey(S2.tree, n), !.tree.parent[n] = top]
        S3 == [AppendNode(grown, top) EXCEPT !.tree.root = top]
    IN  IF ~Full(S.tree, n) THEN WriteNode(S, n)
        ELSE IF p = NULL THEN UpdateRoot(S3) ELSE WriteUp(wider, p)

FBTreeInsertSorted(d) ==
    /\ InBatch /\ Roomy(tree) /\ d \notin Contents(tree)
    /\ LET leaf == LeafFor(tree, d)
           i == Cardinality({x \in ToSet(tree.entries[leaf]) : x < d}) + 1
           S1 == IF store.page[tree.root] = NULL /\ tree.root \notin store.toAppend
                 THEN CreateRoot(Now) ELSE Now
           S2 == [S1 EXCEPT !.tree.entries[leaf] = InsertAt(@, i, d)]
           S3 == IF i = 1 THEN UpdateKeys(S2, leaf) ELSE S2
       IN  Done(WriteUp(UpdateRoot([S3 EXCEPT !.tree.nodeCount = @ + 1]), leaf))
    /\ reply' = Answer("Insert", d, TRUE)

-----------------------------------------------------------------------------
(* Removal                                                                 *)

\* fault: the parent forgets src before dest has its entries
JoinNodes_ParentFirst(S, dest, src) ==
    LET p == S.tree.parent[src]
        took == Adopt([S.tree EXCEPT !.entries[dest] = @ \o S.tree.entries[src]],
                      dest, Children(S.tree, src))
        first == Cnt(S.tree, dest) = 0 /\ Place(S.tree, dest) = 1
        less == FreeNode([took EXCEPT !.entries[p] = RemoveAt(@, Place(S.tree, src))], src)
        S1 == WriteNode([S EXCEPT !.tree = less], p)
        S2 == WriteNode(S1, dest)
    IN  Forget(IF first THEN UpdateKeys(S2, dest) ELSE S2)

\* the parent leads to both until the end
JoinNodes(S, dest, src) ==
    LET p == S.tree.parent[src]
        took == Adopt([S.tree EXCEPT !.entries[dest] = @ \o S.tree.entries[src]],
                      dest, Children(S.tree, src))
        first == Cnt(S.tree, dest) = 0 /\ Place(S.tree, dest) = 1
        S1 == WriteNode([S EXCEPT !.tree = took], dest)
        S2 == IF first THEN UpdateKeys(S1, dest) ELSE S1
        less == FreeNode([S2.tree EXCEPT !.entries[p] = RemoveAt(@, Place(S.tree, src))], src)
    IN  Forget(WriteNode([S2 EXCEPT !.tree = less], p))

\* n, which has become too empty, goes or joins its right or left neighbour
RelieveNode(S, n) ==
    LET T == S.tree
        p == T.parent[n]
        i == Place(T, n)
    IN  IF Cnt(T, p) < 2 /\ Cnt(T, n) = 0 THEN Forget([S EXCEPT !.tree = Drop(T, n)])
        ELSE IF i < Cnt(T, p) /\ Fit(T, n, T.entries[p][i + 1])
        THEN JoinNodes(S, n, T.entries[p][i + 1])
        ELSE IF i > 1 /\ Fit(T, n, T.entries[p][i - 1])
        THEN JoinNodes(S, T.entries[p][i - 1], n)
        ELSE S

RECURSIVE RelieveNodeUp(_, _)
RelieveNodeUp(S, n) ==
    LET p == S.tree.parent[n]
        S1 == RelieveNode(S, n)
    IN  IF p = NULL THEN UpdateRoot(Forget([S EXCEPT !.tree = Shrink(S.tree)]))
        ELSE IF S1 # S /\ Underflow(S1.tree, p) THEN RelieveNodeUp(S1, p) ELSE S1

\* FBTreeRemoveSortedHelper asserts that there is something to remove
FBTreeRemoveSorted(d) ==
    LET at == FindSorted(tree, d)
        n == at.node
        S1 == WriteNode([Now EXCEPT !.tree.entries[n] = RemoveAt(@, at.offset)], n)
        S2 == IF at.offset = 1 /\ Cnt(S1.tree, n) > 0 THEN UpdateKeys(S1, n) ELSE S1
        S3 == UpdateRoot([S2 EXCEPT !.tree.nodeCount = @ - 1])
    IN  /\ InBatch /\ tree.nodeCount > 0
        /\ Done(IF at = NoPlace THEN Now ELSE IF Underflow(S3.tree, n) THEN RelieveNodeUp(S3, n) ELSE S3)
        /\ reply' = Answer("Remove", d, at # NoPlace)

FBTreeFindSorted(d) == Lookup(d) /\ store' = Now.store

-----------------------------------------------------------------------------
(* Batches, and the file opened anew                                       *)

FBTreeBeginBatch ==
    /\ ~store.isBatch
    /\ store' = [Now.store EXCEPT !.isBatch = TRUE]
    /\ UNCHANGED <<tree, reply>>

\* children before their parents, which learn their pages
RECURSIVE Flush(_, _)
Flush(S, n) ==
    LET S1 == IF S.tree.isData[n] THEN S ELSE FoldLeft(Flush, S, S.tree.entries[n]) IN
    IF n \in S.store.toAppend THEN AppendNode(S1, n)
    ELSE IF n \in S.store.modified \/ ~S.tree.isData[n] THEN WriteNode(S1, n)
    ELSE S1

FBTreeEndBatch ==
    LET S1 == UpdateRoot(Flush([Now EXCEPT !.store.isBatch = FALSE], tree.root)) IN
    /\ store.isBatch
    /\ store' = [S1.store EXCEPT !.modified = {}, !.toAppend = {}, !.calls = 0]
    /\ UNCHANGED <<tree, reply>>

\* the tree of a file; node ids are given in the order of the pages
Load(f) ==
    LET pages == PagesOf(f)
        used == DOMAIN pages
        id(p) == CHOOSE n \in used : pages[n] = p
        content(n) == f.pages[pages[n]]
        parents(n) == {m \in used : ~content(m).isData /\ pages[n] \in Below(f, pages[m])}
        parent == [n \in Nodes |->
                      IF n \in used /\ parents(n) # {} THEN CHOOSE m \in parents(n) : TRUE ELSE NULL]
        key(n) == CHOOSE k \in {e.key : e \in ToSet(content(parent[n]).entries)} :
                      [key |-> k, next |-> pages[n]] \in ToSet(content(parent[n]).entries)
    IN  [tree |-> [root |-> 1, nodeCount |-> f.nodeCount, used |-> {1} \cup used,
                   entries |-> [n \in Nodes |->
                       IF n \notin used THEN <<>>
                       ELSE IF content(n).isData THEN content(n).entries
                       ELSE [i \in DOMAIN content(n).entries |-> id(content(n).entries[i].next)]],
                   parent |-> parent,
                   key |-> [n \in Nodes |-> IF parent[n] = NULL THEN NULL ELSE key(n)],
                   isData |-> [n \in Nodes |-> IF n \in used THEN content(n).isData ELSE n = 1],
                   tested |-> FALSE],
         page |-> [n \in Nodes |-> IF n \in used THEN pages[n] ELSE NULL]]

\* closing throws away what a batch did not write
Reopen ==
    /\ ~store.isBatch
    /\ tree' = Load(store.file).tree
    /\ store' = [Now.store EXCEPT !.page = Load(store.file).page]
    /\ UNCHANGED reply

FBTreeCalls(d) ==
    \/ FBTreeInsertSorted(d) \/ FBTreeRemoveSorted(d) \/ FBTreeFindSorted(d)
    \/ FBTreeBeginBatch \/ FBTreeEndBatch \/ Reopen

FBTreeSpec == FBTreeInit /\ [][\E d \in Data : FBTreeCalls(d)]_<<tree, reply, store>>

-----------------------------------------------------------------------------
\* Outside of a batch the file holds the tree that is in memory, page for node
\* and key for key, although a call writes only the pages it thinks it changed.
FileAgrees ==
    ~store.isBatch =>
        /\ store.file.nodeCount = tree.nodeCount
        /\ store.file.root = store.page[tree.root]
        /\ store.file.root # NULL =>
              \A n \in tree.used : store.file.pages[store.page[n]] = Content([tree |-> tree, store |-> store], n)

\* the data of the leaves a file leads to, as often as it leads there
DataRead(f) ==
    FoldLeft(LAMBDA s, p : IF f.pages[p].isData THEN s \o f.pages[p].entries ELSE s, <<>>, PagesOf(f))

\* A crash between two writes leaves a file whose pages hold nothing but what was
\* there before the call or would be after it.  It loses no datum that was there
\* before and would be after, except those that the call moves to a page it
\* appends; a new root moves nothing.  Outside of a batch a walk meets a
\* datum twice at most, and one page without entries at most, besides the root.  That
\* the file can be used is not said: see the README on the page without entries.
CrashKeeps ==
    LET f == store.file
        old == ToSet(PagesOf(f))
        new == ToSet(PagesOf(store'.file)) \ {store'.file.root}
        moved == DataOf(store'.file, UNION {ToSet(PagesFrom(store'.file, p)) : p \in new \ old})
        before == ToSet(DataRead(f))
        after == ToSet(DataRead(store'.file))
    IN  \A i \in DOMAIN store'.torn :
            LET g == store'.torn[i]
                pages == ToSet(PagesOf(g))
                met == DataRead(g)
            IN  /\ ToSet(met) \subseteq before \cup after
                /\ (before \cap after) \ moved \subseteq ToSet(met)
                /\ ~store.isBatch =>
                      /\ \A d \in ToSet(met) : Cardinality({j \in DOMAIN met : met[j] = d}) <= 2
                      /\ Cardinality({p \in pages \ {g.root} : g.pages[p].entries = <<>>}) <= 1
=============================================================================
