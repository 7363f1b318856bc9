-------------------------- MODULE MCAsyncIOManager --------------------------
(* Instance of AsyncIOManager for TLC. *)
EXTENDS AsyncIOManager
CONSTANTS c1, c2, r1, r2

MCClients == {c1, c2}
MCIoTasks == {r1, r2}

\* the file copy: reads are the odd operations; the TCP client
MCPrograms ==
    {[clients |-> {c1}, locks |-> FALSE, tests |-> {n \in Ops : n % 2 = 1}],
     [clients |-> MCClients, locks |-> TRUE, tests |-> Ops]}
=============================================================================
