----------------------------- MODULE TaskBoard ------------------------------
(***************************************************************************)
(* What a thread pool promises about a callback handed to it: it is run    *)
(* once, and its result is given out once.  Only shutting threads down can *)
(* lose a callback, and never one that is running.                         *)
(***************************************************************************)
CONSTANT Tasks

VARIABLE status

Statuses == {"new", "queued", "running", "finished", "collected", "lost"}

BoardInit == status = [k \in Tasks |-> "new"]

Move(k, from, to) == status[k] = from /\ status' = [status EXCEPT ![k] = to]

Queue(k) == Move(k, "new", "queued")
Start(k) == Move(k, "queued", "running")
Finish(k) == Move(k, "running", "finished")
Collect(k) == Move(k, "finished", "collected")

\* a thread leaves the pool with what it has not run and what nobody asked for
Lose ==
    \E gone \in SUBSET {k \in Tasks : status[k] \in {"queued", "finished"}} :
        status' = [k \in Tasks |-> IF k \in gone THEN "lost" ELSE status[k]]

BoardNext == Lose \/ \E k \in Tasks : Queue(k) \/ Start(k) \/ Finish(k) \/ Collect(k)

BoardSpec == BoardInit /\ [][BoardNext]_status
=============================================================================
