------------------------------- MODULE MCTrees -------------------------------
(***************************************************************************)
(* The B-trees and the index file for TLC.                                 *)
(*                                                                         *)
(* The trees see data only through comparisons, and which node is which    *)
(* does not matter: states are told apart by shape and ranks instead of    *)
(* data, by which children know their parent, by the nodes in use and by   *)
(* the count.  Calls are made about every value the tree holds and one in  *)
(* every gap between two of them.  The last answer is not looked at by     *)
(* anything.                                                               *)
(***************************************************************************)
EXTENDS TreeCalls, FiniteSetsExt, SequencesExt

CONSTANTS
    Kinds, MaxB, MaxData, MaxList, MaxListData, MaxFile, MaxFileData, BatchCalls, Entries

VARIABLES kind, tree, reply, store

B == INSTANCE BTree WITH MaxNodes <- MaxB, maxEntriesPerNode <- Entries, Searched <- TRUE
List == INSTANCE BTree WITH MaxNodes <- MaxList, MaxData <- MaxListData, maxEntriesPerNode <- Entries,
                          Searched <- FALSE
File == INSTANCE FBTree WITH MaxNodes <- MaxFile, MaxData <- MaxFileData, maxEntriesPerNode <- Entries,
                             Searched <- TRUE

ASSUME TreesAssumption ==
    B!BTreeAssumption /\ List!BTreeAssumption /\ File!BTreeAssumption

Init ==
    /\ kind \in Kinds
    /\ kind = "B" => B!Init
    /\ kind = "List" => List!Init
    /\ IF kind = "File" THEN File!FBTreeInit ELSE store = NULL

\* room for sixteen halvings of a gap
Wide == 65536
Numbers == 1 .. 40 * Wide
Values ==
    UNION {ToSet(tree.entries[n]) : n \in {m \in tree.used : tree.isData[m]}}
        \cup (IF kind = "List" THEN {} ELSE {tree.key[n] : n \in tree.used \ {tree.root}})
        \cup (IF kind = "File" THEN File!FileValues ELSE {})

Between(a, b) == IF a + 1 < b THEN (a + b) \div 2 ELSE Assert(FALSE, "no gap left")

Candidates ==
    LET held == Values
        above(v) == {x \in held : x > v}
    IN  IF held = {} THEN {20 * Wide}
        ELSE held \cup {Min(held) - Wide, Max(held) + Wide}
               \cup {Between(v, Min(above(v))) : v \in held \ {Max(held)}}

Next ==
    /\ UNCHANGED kind
    /\ \E d \in Candidates :
          \/ kind = "B" /\ B!Calls(d) /\ UNCHANGED store
          \/ kind = "List" /\ List!Calls(d) /\ UNCHANGED store
          \/ kind = "File" /\ File!FBTreeCalls(d)

Spec == Init /\ [][Next]_<<kind, tree, reply, store>>

-----------------------------------------------------------------------------
BShape ==
    LET held == Values
        rank == [d \in held |-> Cardinality({x \in held : x < d})]
        shape[n \in tree.used] ==
            <<IF n = tree.root \/ kind = "List" THEN 0 ELSE rank[tree.key[n]],
              IF tree.isData[n] THEN [i \in DOMAIN tree.entries[n] |-> rank[tree.entries[n][i]]]
              ELSE [i \in DOMAIN tree.entries[n] |->
                       <<tree.parent[tree.entries[n][i]] = n, shape[tree.entries[n][i]]>>]>>
    IN  <<tree.parent[tree.root], Cardinality(tree.used), tree.nodeCount, shape[tree.root]>>

\* A page of the file that a node has not got is told from others by nothing.
FileShape ==
    LET held == Values
        rank == [d \in held |-> Cardinality({x \in held : x < d})]
        f == store.file
        pages == File!PagesOf(f)
        place(n) == {i \in DOMAIN pages : pages[i] = store.page[n]}
        node[n \in tree.used] ==
            <<place(n), store.page[n] = NULL, n \in store.modified, n \in store.toAppend,
              IF tree.isData[n] THEN <<>> ELSE [i \in DOMAIN tree.entries[n] |-> node[tree.entries[n][i]]]>>
        page[p \in ToSet(pages)] ==
            IF f.pages[p].isData THEN [i \in DOMAIN f.pages[p].entries |-> rank[f.pages[p].entries[i]]]
            ELSE [i \in DOMAIN f.pages[p].entries |->
                     <<rank[f.pages[p].entries[i].key], page[f.pages[p].entries[i].next]>>]
    IN  <<IF f.root = NULL THEN <<>> ELSE page[f.root],
          f.nodeCount, store.isBatch, store.calls, node[tree.root]>>

Seen ==
    IF kind = "File" THEN <<kind, BShape, FileShape>> ELSE <<kind, BShape, tree.tested>>

-----------------------------------------------------------------------------
TypeOK ==
    /\ kind = "B" => B!TypeOK
    /\ kind = "List" => List!TypeOK
    /\ kind = "File" => File!TypeOK

\* After every call the links of the nodes agree with each other, with the nodes in
\* use and with the count; paths stay short, also when the repair goes up several
\* levels; and the keys lead to the leaf of every datum, although some are of data
\* that were removed.  Begin, Next, Last and Prev, which climb by the parent links, visit
\* the nodes in order.
WellFormed ==
    /\ TypeOK
    /\ kind = "B" => B!LinksAgree /\ B!Balanced /\ B!KeysSeparate /\ B!VisitsInOrder
    /\ kind = "List" => List!LinksAgree /\ List!Balanced /\ List!VisitsInOrder
    /\ kind = "File" => File!LinksAgree /\ File!Balanced /\ File!KeysSeparate /\ File!VisitsInOrder

Contents ==
    CASE kind = "B" -> B!Contents(tree)
      [] kind = "List" -> List!Contents(tree)
      [] kind = "File" -> File!Contents(tree)

\* Every tree implements the set it stands for.
Promised == INSTANCE SortedSet WITH contents <- Contents
IsSortedSet == Promised!Spec

\* The index file holds what the index in memory holds.
FileAgrees == kind = "File" => File!FileAgrees

\* What a crash can do to the index file.
CrashKeeps == [][kind = "File" => File!CrashKeeps]_<<kind, tree, reply, store>>

\* What BTreeSortedTester asserts when it is called.
SortedTester == kind = "B" => B!SortedTester
=============================================================================
