----------------------------- MODULE TreeCalls ------------------------------
(***************************************************************************)
(* What the trees of CSources/LISTE.C are called with and what they say.   *)
(* They look at data only through the sort function, so data are numbers.  *)
(***************************************************************************)
EXTENDS Naturals

CONSTANT Data   \* what is inserted, ordered by the sort function

NULL == 0

\* what a call about d returned: TRUE for a node or true, FALSE for NULL or false
Answer(call, d, ok) == [call |-> call, data |-> d, ok |-> ok]
NoAnswer == Answer("none", 0, FALSE)
IsAnswer(r) ==
    r = NoAnswer \/ (r.call \in {"Insert", "Remove", "Find"} /\ r.data \in Data /\ r.ok \in BOOLEAN)
=============================================================================
