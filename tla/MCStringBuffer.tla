--------------------------- MODULE MCStringBuffer ---------------------------
(***************************************************************************)
(* Instances of StringBuffer: the letters A and a, which ToLowerCase makes *)
(* a, and the texts of one or two of them that tell the calls apart.       *)
(***************************************************************************)
EXTENDS StringBuffer, TLC

CONSTANTS t1, t2, o1, o2, o3, b1, b2, b3, b4, b5

VARIABLE alone     \* one thread makes every call, or two make those that edit

Letters == {"A", "a"}
Small(c) == "a"
TwoTexts == {<<"A">>, <<"a", "A">>}
Edits == {"SetString", "AppendString", "DeleteString", "Copy", "Clear"}
EveryCall == Edits \cup {"Fill", "SetSize", "InsertString", "ToLowerCase", "ScanString"}
Scans == {"SetString", "AppendString", "Copy", "ScanString"}
Same == Permutations(Threads) \cup Permutations(Objects) \cup Permutations(Blocks)

Owned(t) == {o \in Objects : owner[o] = t}

\* bound: a thread with two strings is the only one that calls
Alone == owner' = owner /\ \A t \in Threads : call'[t] # NoCall => Cardinality(Owned(t)) = 2

\* bound: two threads make the calls Edits on strings of up to two A
Together ==
    \A t \in Threads : pc[t] = "idle" /\ pc'[t] # "idle" =>
        LET c == call'[t] IN
        /\ c.name \in Edits /\ c.text \in {<<>>, <<"A">>} /\ c.len <= 2
        /\ c.name = "AppendString" => lench'[t] < 2

ShareInit ==
    /\ Init /\ alone \in BOOLEAN
    /\ alone => \E t \in Threads : Cardinality(Owned(t)) = 2

ShareNext == Next /\ UNCHANGED alone /\ (IF alone THEN Alone ELSE Together)
ShareSpec == ShareInit /\ [][ShareNext]_<<vars, alone>>

ScanSpec == (Init /\ alone = FALSE) /\ [][Next /\ UNCHANGED alone]_<<vars, alone>>
=============================================================================
