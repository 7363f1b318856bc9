----------------------------- MODULE SortedSet ------------------------------
(***************************************************************************)
(* What the three trees promise: a set of data, at most one for each value *)
(* of the sort function, and the answer to every call.                     *)
(***************************************************************************)
EXTENDS TreeCalls

VARIABLES
    contents,   \* the data in the tree
    reply       \* what the last call returned

Init == contents = {} /\ reply = NoAnswer

\* a new value is inserted, unless TFalloc refuses
Insert(d) ==
    \/ reply' = Answer("Insert", d, TRUE) /\ d \notin contents /\ contents' = contents \cup {d}
    \/ reply' = Answer("Insert", d, FALSE) /\ contents' = contents

Remove(d) == reply' = Answer("Remove", d, d \in contents) /\ contents' = contents \ {d}

Find(d) == reply' = Answer("Find", d, d \in contents) /\ contents' = contents

Next ==
    /\ reply'.data \in Data
    /\ LET d == reply'.data IN Insert(d) \/ Remove(d) \/ Find(d)

Spec == Init /\ [][Next]_<<contents, reply>>
=============================================================================
