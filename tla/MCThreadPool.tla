---------------------------- MODULE MCThreadPool ----------------------------
(* Instances of ThreadPool for TLC. *)
EXTENDS ThreadPool, TLC
CONSTANTS c1, c2, k1, k2, k3

MCClients == {c1, c2}
MCTasks == {k1, k2}
MCOneTask == {k1}
MCThreeTasks == {k1, k2, k3}
MCSymmetry == Permutations(MCTasks)

\* c1 owns the pool and shuts it down, c2 only uses it, tasks add tasks
MCSafetyAllowed == [a \in Actors |->
    CASE a = c1 -> {"AddTask", "Wait", "StopAll", "JoinAll", "ThreadStopAll", "ThreadJoinAll"}
      [] a = c2 -> {"AddTask", "GetResult"}
      [] OTHER -> {"AddTask"}]

\* nobody stops the pool
MCUseAllowed == [a \in Actors |-> IF a = c1 THEN {"AddTask", "Wait"} ELSE {}]

\* shutdown while another client still adds
MCStopAllowed == [a \in Actors |->
    CASE a = c1 -> {"StopAll", "ThreadStopAll", "JoinAll", "ThreadJoinAll"}
      [] a = c2 -> {"AddTask"}
      [] OTHER -> {}]
=============================================================================
