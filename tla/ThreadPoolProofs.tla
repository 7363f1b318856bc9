-------------------------- MODULE ThreadPoolProofs --------------------------
EXTENDS ThreadPool, SequenceTheorems, TLAPS

(***************************************************************************)
(* Proofs about ThreadPool.  IInv is inductive: TypeOK and RunningIsHead   *)
(* are strengthened by what the locals of an operation are while it is     *)
(* under way (LocalsOK), by the one actor that may join (JoinOK: nobody    *)
(* shortens m_Threads under a JoinAll), and by what a WaitForComplete has  *)
(* seen so far (WaitOK).                                                   *)
(***************************************************************************)

\* where an actor is between the choice of its task or thread and the use of it
HoldsTask == {"addLock", "addScan", "addLeast", "addAppend", "addWake"}
JoinBody == {"joinTest", "joinSelect", "pthreadJoin", "unlist", "joinedBack", "timedOutBack"}
JoinPcs == {"joinLock", "joinNext"} \cup JoinBody
HoldsThread == {"addAppend", "addWake"} \cup JoinBody

\* An operation that is going to use a task, a thread or a result has one.
LocalsOK ==
    /\ \A a \in Actors : pc[a] \in HoldsTask => arg[a] \in Tasks
    /\ \A a \in Actors : pc[a] \in HoldsThread => tgt[a] \in Threads
    /\ \A t \in Threads : wpc[t] = "relock" => ret[t] \in ResultCodes

\* Actors keep to the operations they may call, and the position of a JoinAll
\* stays inside the list although it gives up the lock.
JoinOK ==
    /\ \A a \in Actors : op[a] # "none" => op[a] \in Allowed[a]
    /\ \A a \in Actors : pc[a] \in JoinPcs => op[a] \in JoinOps
    /\ \A a \in Actors : (op[a] = "JoinAll" /\ pc[a] \in JoinBody) => it[a] <= Len(m_Threads)

\* A WaitForComplete keeps the global lock while it scans, and every thread it has
\* passed still has an empty queue.
WaitOK == 
  /\ \A a \in Actors : op[a] = "Wait" => pc[a] \in {"waitLock", "waitScan", "waitSleep"}
  /\ \A a \in Actors : pc[a] = "waitScan" =>
        /\ gMutex = a
        /\ it[a] <= Len(m_Threads) + 1
        /\ \A i \in 1 .. (it[a] - 1) : m_TaskQueue[m_Threads[i]] = <<>>
  /\ \A a \in Actors : pc[a] \in {"idle", "waitLock", "waitSleep"} => it[a] = 1

\* the inductive invariant
IInv == TypeOK /\ RunningIsHead /\ LocalsOK /\ JoinOK /\ WaitOK

\* Type and length of two sequences put together, without the definition of \o.
LEMMA ConcatType ==
    ASSUME NEW S, NEW u \in Seq(S), NEW v \in Seq(S)
    PROVE  u \o v \in Seq(S) /\ Len(u \o v) = Len(u) + Len(v)
  BY ConcatProperties

\* Removing an element leaves a sequence one shorter (m_Threads.Remove).
LEMMA RemoveAtType ==
    ASSUME NEW S, NEW s \in Seq(S), NEW i \in 1 .. Len(s)
    PROVE  RemoveAt(s, i) \in Seq(S) /\ Len(RemoveAt(s, i)) = Len(s) - 1
  <1>1. SubSeq(s, 1, i - 1) \in Seq(S) /\ Len(SubSeq(s, 1, i - 1)) = i - 1
    BY SubSeqProperties
  <1>2. SubSeq(s, i + 1, Len(s)) \in Seq(S) /\ Len(SubSeq(s, i + 1, Len(s))) = Len(s) - i
    BY SubSeqProperties
  <1>3. /\ SubSeq(s, 1, i - 1) \o SubSeq(s, i + 1, Len(s)) \in Seq(S)
        /\ Len(SubSeq(s, 1, i - 1) \o SubSeq(s, i + 1, Len(s))) = (i - 1) + (Len(s) - i)
    BY <1>1, <1>2, ConcatType
  <1>4. (i - 1) + (Len(s) - i) = Len(s) - 1
    OBVIOUS
  <1>. HIDE DEF RemoveAt
  <1>5. RemoveAt(s, i) = SubSeq(s, 1, i - 1) \o SubSeq(s, i + 1, Len(s))
    BY Zenon DEF RemoveAt
  <1>. QED BY <1>3, <1>4, <1>5

\* The iterator of an operation that is not at the end points to a thread.
LEMMA HereType ==
    ASSUME PoolTypeOK, ActorTypeOK, NEW a \in Actors, ~AtEnd(a)
    PROVE  Here(a) \in Threads
  BY DEF PoolTypeOK, ActorTypeOK, AtEnd, Here

\* What MoreThreads does to the lists, and that it touches no thread that ran before.
LEMMA AppendThreadsEffect ==
    ASSUME PoolTypeOK, RunTypeOK, ConstantsAssumption, NEW n \in Nat, NEW b \in BOOLEAN, AppendThreads(n, b), b => n > 0
    PROVE  /\ m_Threads' \in Seq(Threads)
           /\ Len(m_Threads') = Len(m_Threads) + n
           /\ gThreadList' \in Seq(Threads)
           /\ created' \in 0 .. MaxThreads
           /\ m_bStarted' \in [Threads -> BOOLEAN]
           /\ wpc' \in [Threads -> WorkerPcs]
           /\ \A t \in Threads : wpc'[t] # wpc[t] => wpc'[t] = "check"
           /\ UNCHANGED <<m_bStop, m_bResultCode, m_lock, cur, ret>>
  <1>. DEFINE new == [i \in 1 .. n |-> created + i]
              ok == IF b THEN n - 1 ELSE n
  <1>1. new \in Seq(Threads) /\ Len(new) = n
    BY IsASeq DEF AppendThreads, PoolTypeOK, ConstantsAssumption, Threads
  <1>2. ok \in 0 .. n
    OBVIOUS
  <1>3. SubSeq(new, 1, ok) \in Seq(Threads)
    BY <1>1, <1>2, SubSeqProperties
  <1>4. m_Threads' = m_Threads \o new /\ gThreadList' = gThreadList \o SubSeq(new, 1, ok)
    BY DEF AppendThreads
  <1>5. /\ m_Threads' \in Seq(Threads) /\ Len(m_Threads') = Len(m_Threads) + n
        /\ gThreadList' \in Seq(Threads)
    <2>. HIDE DEF new, ok
    <2>. QED BY <1>1, <1>3, <1>4, ConcatType DEF PoolTypeOK
  <1>6. created' \in 0 .. MaxThreads
    BY DEF AppendThreads, PoolTypeOK, ConstantsAssumption
  <1>. QED
    BY <1>5, <1>6 DEF AppendThreads, PoolTypeOK, RunTypeOK, WorkerPcs

\* Which operations change the pool's lists, the queues, the workers and the history:
\* all the others leave them alone.
LEMMA ActorFrame ==
    ASSUME NEW a \in Actors, Calling(a) \/ Operation(a)
    PROVE  /\ UNCHANGED <<poolVars, threadVars>> \/ AddGrow(a) \/ AddGrowThrows(a) \/ StopAll(a)
              \/ ThreadStopAll(a) \/ PthreadJoin(a) \/ Unlist(a) \/ JoinedBack(a)
           /\ UNCHANGED queueVars \/ AddAppend(a) \/ GetScan(a)
           /\ UNCHANGED runVars \/ AddGrow(a) \/ AddGrowThrows(a) \/ AddWake(a)
           /\ UNCHANGED historyVars \/ CallAddTask(a) \/ GetScan(a)
  <1>. USE DEF Begin, Enter, CallOp, SetStop, JoinGoto, poolVars, threadVars, queueVars, runVars, historyVars
  <1>1. CASE Calling(a) BY <1>1 DEF Calling, CallAddTask, CallGetResult, CallWait, StopAll, ThreadStopAll, CallJoinAll, CallThreadJoinAll
  <1>2. CASE Adding(a) BY <1>2 DEF Adding, AddLock, AddScan, AddGrow, AddGrowThrows, AddNoGrow, AddLeast, AddChosen, AddRefused, AddAppend, AddWake
  <1>3. CASE Getting(a) BY <1>3 DEF Getting, GetLock, GetScan, GetNothing
  <1>4. CASE Waiting(a) BY <1>4 DEF Waiting, WaitLock, WaitScan, WaitSleep, WaitReturn
  <1>5. CASE Joining(a) BY <1>5 DEF Joining, JoinLock, JoinNext, JoinReturn, JoinTest, JoinSelect, PthreadJoin, Unlist, JoinedBack, TimedOutBack
  <1>. QED BY <1>1, <1>2, <1>3, <1>4, <1>5 DEF Operation

\* AddTask grows the pool by at least one thread, under the global lock.
LEMMA PoolGrows ==
    ASSUME TypeOK, ConstantsAssumption, NEW a \in Actors, AddGrow(a) \/ AddGrowThrows(a)
    PROVE  \E n \in Nat, b \in BOOLEAN :
              /\ n > 0 /\ AppendThreads(n, b)
              /\ Len(m_Threads') = Len(m_Threads) + n /\ gMutex = a
  <1>1. Len(m_Threads) \in Nat
    BY DEF TypeOK, PoolTypeOK
  <1>2. CASE AddGrow(a)
    <2>. DEFINE n == GrowTarget(Len(m_Threads)) - Len(m_Threads)
    <2>1. n \in Nat /\ n > 0
      BY <1>1, <1>2 DEF AddGrow, CanGrow, GrowTarget, ConstantsAssumption
    <2>2. AppendThreads(n, FALSE) /\ gMutex = a
      BY <1>2 DEF AddGrow, Scanning
    <2>. HIDE DEF n
    <2>. QED BY <2>1, <2>2, AppendThreadsEffect DEF TypeOK
  <1>3. CASE AddGrowThrows(a)
    <2>1. PICK n \in 1 .. (GrowTarget(Len(m_Threads)) - Len(m_Threads)) : AppendThreads(n, TRUE)
      BY <1>3 DEF AddGrowThrows
    <2>2. n \in Nat /\ n > 0 /\ gMutex = a
      BY <1>3 DEF AddGrowThrows, Scanning
    <2>. QED BY <2>1, <2>2, AppendThreadsEffect DEF TypeOK
  <1>. QED BY <1>2, <1>3


\* A step of one actor leaves the locals of every other actor alone.
LocalsUnchanged(b) ==
    /\ op'[b] = op[b] /\ pc'[b] = pc[b] /\ it'[b] = it[b]
    /\ tgt'[b] = tgt[b] /\ arg'[b] = arg[b] /\ minCnt'[b] = minCnt[b]

\* Leaving an operation keeps the types of the actors' locals.
LEMMA LeaveType ==
    ASSUME ActorTypeOK, NEW a \in Actors, Leave(a)
    PROVE  ActorTypeOK' /\ \A b \in Actors \ {a} : LocalsUnchanged(b)
  BY DEF ActorTypeOK, Leave, LocalsUnchanged, ActorPcs, PoolOps

\* A step of an operation keeps the types of the actors' locals.
LEMMA ActorTypeStep ==
    ASSUME TypeOK, NEW a \in Actors, Calling(a) \/ Operation(a)
    PROVE  ActorTypeOK' /\ \A b \in Actors \ {a} : LocalsUnchanged(b)
  <1>. USE DEF TypeOK, ActorTypeOK, LocalsUnchanged, actorVars, ActorPcs, PoolOps, Goto, Leave, Enter, Begin, CallOp, SetStop, JoinGoto, Scanning, Advance
  <1>1. CASE Calling(a)
    <2>1. submitted \subseteq Tasks BY DEF HistoryTypeOK
    <2>. QED BY <1>1, <2>1 DEF Calling, CallAddTask, CallGetResult, CallWait, StopAll, ThreadStopAll, CallJoinAll, CallThreadJoinAll
  <1>2. CASE AddScan(a)
    <2>1. Here(a) \in Threads BY <1>2, HereType DEF AddScan
    <2>. QED BY <1>2, <2>1 DEF AddScan
  <1>3. CASE AddLeast(a)
    <2>1. Here(a) \in Threads /\ GetTaskCount(Here(a)) \in Nat BY <1>3, HereType DEF AddLeast, GetTaskCount, QueueTypeOK
    <2>. QED BY <1>3, <2>1 DEF AddLeast
  <1>4. CASE AddLock(a) BY <1>4 DEF AddLock
  <1>5. CASE AddGrow(a) BY <1>5 DEF AddGrow
  <1>12. CASE AddGrowThrows(a) \/ AddRefused(a) \/ AddWake(a) \/ JoinReturn(a)
    <2>1. Leave(a) BY <1>12 DEF AddGrowThrows, AddRefused, AddWake, JoinReturn
    <2>. QED BY <2>1, LeaveType
  <1>13. CASE AddChosen(a) \/ AddAppend(a)
    BY <1>13 DEF AddChosen, AddAppend
  <1>14. CASE AddNoGrow(a) BY <1>14 DEF AddNoGrow
  <1>6. CASE Getting(a)
    BY <1>6 DEF Getting, GetLock, GetScan, GetNothing
  <1>7. CASE Waiting(a)
    BY <1>7 DEF Waiting, WaitLock, WaitScan, WaitSleep, WaitReturn
  <1>8. CASE JoinNext(a)
    <2>1. JoinList(a)[it[a]] \in Threads BY <1>8 DEF JoinNext, JoinList, PoolTypeOK
    <2>. QED BY <1>8, <2>1 DEF JoinNext
  <1>9. CASE JoinTest(a) \/ JoinSelect(a)
    BY <1>9 DEF JoinTest, JoinSelect
  <1>10. CASE JoinLock(a)
    BY <1>10 DEF JoinLock
  <1>15. CASE PthreadJoin(a) \/ Unlist(a)
    BY <1>15 DEF PthreadJoin, Unlist
  <1>11. CASE JoinedBack(a) \/ TimedOutBack(a)
    BY <1>11 DEF JoinedBack, TimedOutBack
  <1>. QED
    BY <1>1, <1>2, <1>3, <1>4, <1>5, <1>6, <1>7, <1>8, <1>9, <1>10, <1>11, <1>12, <1>13, <1>14, <1>15 DEF Operation, Adding, Joining

\* A step of an operation keeps the types of everything the actors share.
LEMMA SharedTypeStep ==
    ASSUME TypeOK, LocalsOK, JoinOK, ConstantsAssumption, NEW a \in Actors, Calling(a) \/ Operation(a)
    PROVE  PoolTypeOK' /\ QueueTypeOK' /\ RunTypeOK' /\ HistoryTypeOK'
  <1>. USE DEF TypeOK, poolVars, threadVars, queueVars, runVars, historyVars
  <1>1. CASE AddGrow(a)
    <2>. DEFINE n == GrowTarget(Len(m_Threads)) - Len(m_Threads)
    <2>1. n \in Nat /\ n > 0
      BY <1>1 DEF AddGrow, CanGrow, GrowTarget, PoolTypeOK, ConstantsAssumption
    <2>2. AppendThreads(n, FALSE) /\ UNCHANGED <<failures, queueVars, historyVars>>
      BY <1>1 DEF AddGrow
    <2>. HIDE DEF n
    <2>. QED BY <2>1, <2>2, AppendThreadsEffect DEF PoolTypeOK, QueueTypeOK, RunTypeOK, HistoryTypeOK
  <1>2. CASE AddGrowThrows(a)
    <2>1. PICK n \in 1 .. (GrowTarget(Len(m_Threads)) - Len(m_Threads)) : AppendThreads(n, TRUE)
      BY <1>2 DEF AddGrowThrows
    <2>2. n \in Nat /\ n > 0 /\ failures' \in Nat /\ UNCHANGED <<queueVars, historyVars>>
      BY <1>2 DEF AddGrowThrows, PoolTypeOK
    <2>. QED BY <2>1, <2>2, AppendThreadsEffect DEF PoolTypeOK, QueueTypeOK, RunTypeOK, HistoryTypeOK
  <1>. SUFFICES ASSUME ~AddGrow(a), ~AddGrowThrows(a) PROVE PoolTypeOK' /\ QueueTypeOK' /\ RunTypeOK' /\ HistoryTypeOK'
    BY <1>1, <1>2
  <1>3. PoolTypeOK'
    <2>1. CASE StopAll(a) \/ ThreadStopAll(a)
      BY <2>1 DEF StopAll, ThreadStopAll, SetStop, PoolTypeOK
    <2>2. CASE PthreadJoin(a)
      BY <2>2 DEF PthreadJoin, PoolTypeOK
    <2>3. CASE Unlist(a)
      BY <2>3, RemoveAtType DEF Unlist, PoolTypeOK
    <2>4. CASE JoinedBack(a)
      <3>1. op[a] = "JoinAll" => it[a] \in 1 .. Len(m_Threads)
        BY <2>4 DEF JoinedBack, JoinOK, JoinBody, PoolTypeOK, ActorTypeOK
      <3>. QED BY <2>4, <3>1, RemoveAtType DEF JoinedBack, PoolTypeOK
    <2>. QED BY <2>1, <2>2, <2>3, <2>4, ActorFrame DEF PoolTypeOK
  <1>4. QueueTypeOK'
    <2>1. CASE AddAppend(a)
      <3>1. tgt[a] \in Threads /\ arg[a] \in Tasks
        BY <2>1 DEF AddAppend, Scanning, LocalsOK, HoldsTask, HoldsThread, JoinBody
      <3>. QED BY <2>1, <3>1 DEF AddAppend, QueueTypeOK
    <2>2. CASE GetScan(a)
      BY <2>2 DEF GetScan, QueueTypeOK
    <2>. QED BY <2>1, <2>2, ActorFrame DEF QueueTypeOK
  <1>5. RunTypeOK'
    <2>1. CASE AddWake(a)
      BY <2>1 DEF AddWake, RunTypeOK, WorkerPcs
    <2>. QED BY <2>1, ActorFrame DEF RunTypeOK
  <1>6. HistoryTypeOK'
    <2>1. CASE CallAddTask(a)
      BY <2>1 DEF CallAddTask, HistoryTypeOK
    <2>2. CASE GetScan(a)
      <3>1. Here(a) \in Threads
        BY <2>2, HereType DEF GetScan
      <3>2. \A r \in m_ResultQueue[Here(a)] : r[2] \in ResultCodes
        BY <3>1 DEF QueueTypeOK
      <3>. QED BY <2>2, <3>2 DEF GetScan, HistoryTypeOK
    <2>. QED BY <2>1, <2>2, ActorFrame DEF HistoryTypeOK
  <1>. QED BY <1>3, <1>4, <1>5, <1>6

\* A step of a worker keeps all types.
LEMMA RunTypeStep ==
    ASSUME TypeOK, LocalsOK, RunningIsHead, NEW t \in Threads, Run(t)
    PROVE  TypeOK' /\ \A a \in Actors : LocalsUnchanged(a)
  <1>. USE DEF TypeOK, PoolTypeOK, RunTypeOK, QueueTypeOK, HistoryTypeOK, ActorTypeOK, LocalsUnchanged, poolVars, threadVars, queueVars, runVars, historyVars, actorVars, WorkerPcs, RunGoto
  <1>1. CASE RunInvoke(t)
    <2>1. Head(m_TaskQueue[t]) \in Tasks
      BY <1>1 DEF RunInvoke
    <2>2. cur' \in [Threads -> Tasks \cup {None}] /\ runs' \in [Tasks -> Nat]
      BY <1>1, <2>1 DEF RunInvoke
    <2>. QED BY <1>1, <2>2 DEF RunInvoke
  <1>2. CASE RunFinish(t)
    <2>1. m_TaskQueue[t] # <<>> /\ cur[t] = Head(m_TaskQueue[t]) /\ ret[t] \in ResultCodes
      BY <1>2 DEF RunFinish, LocalsOK, RunningIsHead
    <2>2. Tail(m_TaskQueue[t]) \in Seq(Tasks) /\ cur[t] \in Tasks
      BY <2>1
    <2>3. m_TaskQueue' \in [Threads -> Seq(Tasks)]
      BY <1>2, <2>2 DEF RunFinish
    <2>4. m_ResultQueue' \in [Threads -> SUBSET (Tasks \X ResultCodes)]
      BY <1>2, <2>1, <2>2 DEF RunFinish
    <2>. QED BY <1>2, <2>3, <2>4 DEF RunFinish
  <1>3. CASE RunCheck(t) \/ RunLock(t) \/ RunSetResultCode(t)
    BY <1>3 DEF RunCheck, RunLock, RunSetResultCode
  <1>6. CASE RunReturn(t)
    BY <1>6 DEF RunReturn
  <1>4. CASE RunSleep(t) \/ RunSleepThrows(t) \/ RunTimeout(t)
    BY <1>4 DEF RunSleep, RunSleepThrows, RunTimeout
  <1>5. CASE RunReacquire(t) \/ RunUnlock(t) \/ RunEnd(t)
    BY <1>5 DEF RunReacquire, RunUnlock, RunEnd
  <1>. QED BY <1>1, <1>2, <1>3, <1>4, <1>5, <1>6 DEF Run

\* No operation puts anything in front of a running task or takes it away.
LEMMA RunningActor ==
    ASSUME TypeOK, LocalsOK, RunningIsHead, ConstantsAssumption, NEW a \in Actors, Calling(a) \/ Operation(a)
    PROVE  RunningIsHead'
  <1>. USE DEF TypeOK, RunningIsHead, poolVars, threadVars, queueVars, runVars, historyVars
  <1>1. CASE AddGrow(a) \/ AddGrowThrows(a)
    <2>1. UNCHANGED <<m_TaskQueue, cur>> /\ \A t \in Threads : wpc'[t] # wpc[t] => wpc'[t] = "check"
      BY <1>1 DEF AddGrow, AddGrowThrows, AppendThreads, RunTypeOK
    <2>. QED BY <2>1
  <1>2. CASE AddAppend(a)
    <2>1. UNCHANGED <<wpc, cur>> /\ tgt[a] \in Threads /\ arg[a] \in Tasks
      BY <1>2 DEF AddAppend, Scanning, LocalsOK, HoldsTask, HoldsThread, JoinBody
    <2>2. \A t \in Threads : m_TaskQueue[t] # <<>> =>
             m_TaskQueue'[t] # <<>> /\ Head(m_TaskQueue'[t]) = Head(m_TaskQueue[t])
      <3>. SUFFICES ASSUME NEW t \in Threads, m_TaskQueue[t] # <<>>
                    PROVE  m_TaskQueue'[t] # <<>> /\ Head(m_TaskQueue'[t]) = Head(m_TaskQueue[t])
        OBVIOUS
      <3>1. m_TaskQueue'[t] = m_TaskQueue[t] \/ m_TaskQueue'[t] = Append(m_TaskQueue[t], arg[a])
        BY <1>2 DEF AddAppend, QueueTypeOK
      <3>. QED BY <2>1, <3>1, HeadTailAppend DEF QueueTypeOK
    <2>. QED BY <2>1, <2>2
  <1>3. CASE AddWake(a)
    <2>1. UNCHANGED <<m_TaskQueue, cur>> /\ \A t \in Threads : wpc'[t] # wpc[t] => wpc'[t] = "reacquire"
      BY <1>3 DEF AddWake, RunTypeOK
    <2>. QED BY <2>1
  <1>4. CASE GetScan(a)
    BY <1>4 DEF GetScan
  <1>. QED BY <1>1, <1>2, <1>3, <1>4, ActorFrame

\* A worker runs the head of its own queue and removes it only when it has run.
LEMMA RunningRun ==
    ASSUME TypeOK, RunningIsHead, NEW t \in Threads, Run(t)
    PROVE  RunningIsHead'
  <1>. USE DEF TypeOK, RunTypeOK, QueueTypeOK, RunningIsHead, queueVars, RunGoto
  <1>1. CASE RunInvoke(t) BY <1>1 DEF RunInvoke
  <1>2. CASE RunFinish(t) BY <1>2 DEF RunFinish
  <1>3. CASE RunCheck(t) \/ RunLock(t) \/ RunReturn(t) \/ RunSetResultCode(t)
    BY <1>3 DEF RunCheck, RunLock, RunReturn, RunSetResultCode
  <1>4. CASE RunSleep(t) \/ RunSleepThrows(t) \/ RunTimeout(t)
    BY <1>4 DEF RunSleep, RunSleepThrows, RunTimeout
  <1>5. CASE RunReacquire(t) \/ RunUnlock(t) \/ RunEnd(t)
    BY <1>5 DEF RunReacquire, RunUnlock, RunEnd
  <1>. QED BY <1>1, <1>2, <1>3, <1>4, <1>5 DEF Run

\* An operation has chosen its task and thread before it uses them.
LEMMA LocalsActor ==
    ASSUME TypeOK, LocalsOK, ConstantsAssumption, NEW a \in Actors, Calling(a) \/ Operation(a)
    PROVE  LocalsOK'
  <1>. USE DEF TypeOK, ActorTypeOK
  <1>1. \A t \in Threads : wpc'[t] = "relock" => wpc[t] = "relock" /\ ret'[t] = ret[t]
    <2>1. CASE AddGrow(a) \/ AddGrowThrows(a)
      BY <2>1 DEF AddGrow, AddGrowThrows, AppendThreads, RunTypeOK
    <2>2. CASE AddWake(a)
      BY <2>2 DEF AddWake, RunTypeOK
    <2>. QED BY <2>1, <2>2, ActorFrame DEF runVars
  <1>. USE DEF HoldsTask, HoldsThread, JoinBody
  <1>2. /\ pc'[a] \in HoldsTask => arg'[a] \in Tasks
        /\ pc'[a] \in HoldsThread => tgt'[a] \in Threads
    <2>. USE DEF LocalsOK, Goto, Enter, Begin, CallOp, SetStop, JoinGoto, Scanning, Advance, actorVars
    <2>1. CASE Leave(a)
      BY <2>1 DEF Leave
    <2>2. CASE Calling(a)
      <3>1. submitted \subseteq Tasks BY DEF HistoryTypeOK
      <3>. QED BY <2>2, <3>1 DEF Calling, CallAddTask, CallGetResult, CallWait, StopAll, ThreadStopAll, CallJoinAll, CallThreadJoinAll
    <2>3. CASE AddScan(a)
      <3>1. Here(a) \in Threads BY <2>3, HereType DEF AddScan
      <3>. QED BY <2>3, <3>1 DEF AddScan
    <2>4. CASE AddLeast(a) BY <2>4 DEF AddLeast
    <2>5. CASE AddLock(a) \/ AddGrow(a) \/ AddNoGrow(a)
      BY <2>5, ZenonT(60) DEF AddLock, AddGrow, AddNoGrow
    <2>6. CASE AddChosen(a) \/ AddAppend(a)
      BY <2>6 DEF AddChosen, AddAppend
    <2>7. CASE GetLock(a) \/ Waiting(a)
      BY <2>1, <2>7 DEF GetLock, Waiting, WaitLock, WaitScan, WaitSleep, WaitReturn
    <2>8. CASE GetScan(a) \/ GetNothing(a)
      BY <2>1, <2>8 DEF GetScan, GetNothing
    <2>9. CASE JoinNext(a)
      <3>1. JoinList(a)[it[a]] \in Threads BY <2>9 DEF JoinNext, JoinList, PoolTypeOK
      <3>. QED BY <2>9, <3>1 DEF JoinNext
    <2>10. CASE JoinLock(a) \/ JoinTest(a) \/ JoinSelect(a)
      BY <2>10 DEF JoinLock, JoinTest, JoinSelect
    <2>11. CASE PthreadJoin(a) \/ Unlist(a)
      BY <2>11 DEF PthreadJoin, Unlist
    <2>12. CASE JoinedBack(a) \/ TimedOutBack(a)
      BY <2>12 DEF JoinedBack, TimedOutBack
    <2>13. CASE AddGrowThrows(a) \/ AddRefused(a) \/ AddWake(a) \/ JoinReturn(a)
      BY <2>1, <2>13 DEF AddGrowThrows, AddRefused, AddWake, JoinReturn
    <2>. QED
      BY <2>2, <2>3, <2>4, <2>5, <2>6, <2>7, <2>8, <2>9, <2>10, <2>11, <2>12, <2>13
         DEF Operation, Adding, Getting, Joining
  <1>3. \A b \in Actors \ {a} : LocalsUnchanged(b)
    BY ActorTypeStep
  <1>. QED BY <1>1, <1>2, <1>3 DEF LocalsOK, LocalsUnchanged

\* A worker has a result before it stores one.
LEMMA LocalsRun ==
    ASSUME TypeOK, LocalsOK, RunningIsHead, NEW t \in Threads, Run(t)
    PROVE  LocalsOK'
  <1>1. \A a \in Actors : LocalsUnchanged(a)
    BY RunTypeStep
  <1>2. \A u \in Threads : wpc'[u] = "relock" => ret'[u] \in ResultCodes
    <2>. USE DEF TypeOK, RunTypeOK, LocalsOK, RunGoto
    <2>1. CASE RunReturn(t) BY <2>1 DEF RunReturn
    <2>2. CASE RunFinish(t) BY <2>2 DEF RunFinish
    <2>3. CASE RunCheck(t) \/ RunLock(t) \/ RunInvoke(t) \/ RunSetResultCode(t)
      BY <2>3 DEF RunCheck, RunLock, RunInvoke, RunSetResultCode
    <2>4. CASE RunSleep(t) \/ RunSleepThrows(t) \/ RunTimeout(t)
      BY <2>4 DEF RunSleep, RunSleepThrows, RunTimeout
    <2>5. CASE RunReacquire(t) \/ RunUnlock(t) \/ RunEnd(t)
      BY <2>5 DEF RunReacquire, RunUnlock, RunEnd
    <2>. QED BY <2>1, <2>2, <2>3, <2>4, <2>5 DEF Run
  <1>. QED BY <1>1, <1>2 DEF LocalsOK, LocalsUnchanged

\* Only the one joining actor shortens m_Threads; all others append to it.
LEMMA JoinActor ==
    ASSUME TypeOK, LocalsOK, JoinOK, ConstantsAssumption, NEW a \in Actors, Calling(a) \/ Operation(a)
    PROVE  JoinOK'
  <1>. USE DEF TypeOK, ActorTypeOK
  <1>1. \A b \in Actors \ {a} : LocalsUnchanged(b)
    BY ActorTypeStep
  <1>2. /\ op'[a] # "none" => op'[a] \in Allowed[a]
        /\ pc'[a] \in JoinPcs => op'[a] \in JoinOps
        /\ (op'[a] = "JoinAll" /\ pc'[a] \in JoinBody) => it'[a] <= Len(m_Threads')
    <2>. USE DEF JoinOK, JoinPcs, JoinOps, JoinBody, Goto, Enter, Begin, CallOp, SetStop, JoinGoto, Scanning, Advance, actorVars
    <2>1. CASE Leave(a)
      BY <2>1 DEF Leave
    <2>2. CASE Calling(a)
      BY <2>2 DEF Calling, CallAddTask, CallGetResult, CallWait, StopAll, ThreadStopAll, CallJoinAll, CallThreadJoinAll, poolVars
    <2>3. CASE AddScan(a) \/ AddLeast(a)
      BY <2>3 DEF AddScan, AddLeast
    <2>4. CASE AddLock(a)
      BY <2>4 DEF AddLock
    <2>13. CASE AddGrow(a)
      BY <2>13 DEF AddGrow
    <2>14. CASE AddNoGrow(a)
      BY <2>14 DEF AddNoGrow
    <2>5. CASE AddChosen(a) \/ AddAppend(a)
      BY <2>5 DEF AddChosen, AddAppend
    <2>6. CASE GetLock(a) \/ Waiting(a)
      BY <2>1, <2>6 DEF GetLock, Waiting, WaitLock, WaitScan, WaitSleep, WaitReturn
    <2>7. CASE GetScan(a) \/ GetNothing(a)
      BY <2>1, <2>7 DEF GetScan, GetNothing
    <2>8. CASE JoinNext(a)
      BY <2>8 DEF JoinNext, JoinList, poolVars
    <2>9. CASE JoinLock(a) \/ JoinTest(a) \/ JoinSelect(a)
      BY <2>9 DEF JoinLock, JoinTest, JoinSelect, poolVars
    <2>10. CASE PthreadJoin(a) \/ Unlist(a)
      BY <2>10 DEF PthreadJoin, Unlist, poolVars
    <2>11. CASE JoinedBack(a) \/ TimedOutBack(a)
      BY <2>11 DEF JoinedBack, TimedOutBack
    <2>12. CASE AddGrowThrows(a) \/ AddRefused(a) \/ AddWake(a) \/ JoinReturn(a)
      BY <2>1, <2>12 DEF AddGrowThrows, AddRefused, AddWake, JoinReturn
    <2>. QED
      BY <2>2, <2>3, <2>4, <2>5, <2>6, <2>7, <2>8, <2>9, <2>10, <2>11, <2>12, <2>13, <2>14
         DEF Operation, Adding, Getting, Joining
  <1>3. ASSUME NEW b \in Actors, b # a, op[b] = "JoinAll", pc[b] \in JoinBody
        PROVE  Len(m_Threads') >= Len(m_Threads)
    <2>1. op[a] # "JoinAll"
      BY <1>3 DEF JoinOK, JoinOps, ConstantsAssumption
    <2>2. UNCHANGED m_Threads \/ AddGrow(a) \/ AddGrowThrows(a)
      BY <2>1, ActorFrame DEF poolVars, StopAll, ThreadStopAll, SetStop, PthreadJoin, Unlist, JoinedBack
    <2>3. Len(m_Threads) \in Nat
      BY DEF PoolTypeOK
    <2>4. CASE AddGrow(a) \/ AddGrowThrows(a)
      <3>1. PICK n \in Nat : Len(m_Threads') = Len(m_Threads) + n
        BY <2>4, PoolGrows
      <3>. QED BY <2>3, <3>1
    <2>. QED BY <2>2, <2>3, <2>4
  <1>4. /\ Len(m_Threads) \in Nat /\ Len(m_Threads') \in Nat
        /\ \A b \in Actors : it[b] \in Nat
    BY SharedTypeStep DEF PoolTypeOK
  <1>. QED
    <2>. SUFFICES ASSUME NEW b \in Actors
         PROVE /\ op'[b] # "none" => op'[b] \in Allowed[b]
               /\ pc'[b] \in JoinPcs => op'[b] \in JoinOps
               /\ (op'[b] = "JoinAll" /\ pc'[b] \in JoinBody) => it'[b] <= Len(m_Threads')
      BY DEF JoinOK
    <2>1. CASE b = a BY <1>2, <2>1
    <2>2. CASE b # a BY <1>1, <1>3, <1>4, <2>2 DEF JoinOK, LocalsUnchanged
    <2>. QED BY <2>1, <2>2

\* A worker does not change m_Threads.
LEMMA JoinRun ==
    ASSUME TypeOK, LocalsOK, RunningIsHead, JoinOK, NEW t \in Threads, Run(t)
    PROVE  JoinOK'
  <1>1. \A a \in Actors : LocalsUnchanged(a)
    BY RunTypeStep
  <1>2. UNCHANGED m_Threads
    BY DEF Run, RunCheck, RunLock, RunInvoke, RunReturn, RunFinish, RunSleep, RunSleepThrows,
           RunTimeout, RunReacquire, RunUnlock, RunSetResultCode, RunEnd, poolVars
  <1>. QED BY <1>1, <1>2 DEF JoinOK, LocalsUnchanged

\* While one actor scans under the global lock no other one can add a task or
\* change the list it scans.
LEMMA HolderExcludes ==
    ASSUME TypeOK, LocalsOK, ConstantsAssumption, NEW a \in Actors, Calling(a) \/ Operation(a),
           NEW b \in Actors, b # a, gMutex = b
    PROVE  UNCHANGED <<gMutex, m_Threads, m_TaskQueue>>
  <1>. b # None
    BY DEF ConstantsAssumption, Actors, Threads
  <1>. USE DEF poolVars, queueVars, Scanning, Enter, Begin, CallOp, SetStop, JoinGoto
  <1>1. CASE Calling(a)
    BY <1>1 DEF Calling, CallAddTask, CallGetResult, CallWait, StopAll, ThreadStopAll, CallJoinAll, CallThreadJoinAll
  <1>2. CASE Adding(a)
    BY <1>2 DEF Adding, AddLock, AddScan, AddGrow, AddGrowThrows, AddNoGrow, AddLeast, AddChosen, AddRefused, AddAppend, AddWake
  <1>3. CASE Getting(a)
    BY <1>3 DEF Getting, GetLock, GetScan, GetNothing
  <1>4. CASE Waiting(a)
    BY <1>4 DEF Waiting, WaitLock, WaitScan, WaitSleep, WaitReturn
  <1>5. CASE Joining(a)
    BY <1>5 DEF Joining, JoinLock, JoinNext, JoinReturn, JoinTest, JoinSelect, PthreadJoin, Unlist, JoinedBack, TimedOutBack
  <1>. QED BY <1>1, <1>2, <1>3, <1>4, <1>5 DEF Operation

WaitOKOf(a) ==
    /\ op[a] = "Wait" => pc[a] \in {"waitLock", "waitScan", "waitSleep"}
    /\ pc[a] \in {"idle", "waitLock", "waitSleep"} => it[a] = 1
    /\ pc[a] = "waitScan" =>
         /\ gMutex = a
         /\ it[a] <= Len(m_Threads) + 1
         /\ \A i \in 1 .. (it[a] - 1) : m_TaskQueue[m_Threads[i]] = <<>>

\* A step of the waiting actor itself keeps what its scan has seen.
LEMMA WaitSelf ==
    ASSUME TypeOK, JoinOK, WaitOK, ConstantsAssumption, NEW a \in Actors, Calling(a) \/ Operation(a)
    PROVE  WaitOKOf(a)'
  <1>. USE DEF TypeOK, ActorTypeOK, WaitOK, WaitOKOf
  <1>0. Len(m_Threads) \in Nat /\ it[a] \in Nat \ {0}
    BY DEF PoolTypeOK
  <1>1. CASE Leave(a)
    BY <1>1 DEF Leave
  <1>. USE DEF Goto, Enter, Begin, CallOp, SetStop, JoinGoto, Scanning, Advance, actorVars
  <1>2. CASE Calling(a)
    BY <1>2 DEF Calling, CallAddTask, CallGetResult, CallWait, StopAll, ThreadStopAll, CallJoinAll, CallThreadJoinAll, poolVars, queueVars, MayCall
  <1>3. CASE AddScan(a) \/ AddLeast(a)
    BY <1>3 DEF AddScan, AddLeast
  <1>4. CASE AddLock(a) \/ GetLock(a) \/ JoinLock(a)
    BY <1>4 DEF AddLock, GetLock, JoinLock
  <1>5. CASE AddGrow(a)
    BY <1>5 DEF AddGrow
  <1>6. CASE AddNoGrow(a) \/ AddChosen(a) \/ AddAppend(a)
    BY <1>6, SMTT(40) DEF AddNoGrow, AddChosen, AddAppend
  <1>7. CASE GetScan(a)
    BY <1>1, <1>7 DEF GetScan
  <1>8. CASE WaitLock(a)
    BY <1>0, <1>8 DEF WaitLock
  <1>9. CASE WaitSleep(a)
    BY <1>9 DEF WaitSleep
  <1>10. CASE WaitScan(a)
    <2>1. CASE GetTaskCount(Here(a)) = 0 /\ Advance(a) /\ UNCHANGED <<gMutex, op, pc>>
      <3>1. UNCHANGED <<m_Threads, m_TaskQueue>>
        BY <1>10 DEF WaitScan, poolVars, queueVars
      <3>2. pc'[a] = "waitScan" /\ op'[a] = op[a] /\ gMutex' = a /\ it'[a] = it[a] + 1
        BY <1>10, <2>1 DEF WaitScan
      <3>3. it'[a] <= Len(m_Threads') + 1
        BY <1>0, <1>10, <3>1, <3>2 DEF WaitScan, AtEnd
      <3>4. Here(a) \in Threads
        BY <1>10, HereType DEF WaitScan
      <3>5. m_TaskQueue[Here(a)] = <<>>
        BY <2>1, <3>4 DEF GetTaskCount, QueueTypeOK
      <3>6. \A i \in 1 .. (it'[a] - 1) : m_TaskQueue'[m_Threads'[i]] = <<>>
        BY <1>0, <1>10, <3>1, <3>2, <3>5 DEF Here, WaitScan
      <3>. QED BY <1>10, <3>2, <3>3, <3>6 DEF WaitScan
    <2>2. CASE gMutex' = None /\ it' = [it EXCEPT ![a] = 1] /\ Goto(a, "waitSleep")
      BY <2>2
    <2>. QED BY <1>10, <2>1, <2>2 DEF WaitScan
  <1>11. CASE JoinNext(a)
    BY <1>11 DEF JoinNext
  <1>12. CASE JoinTest(a) \/ JoinSelect(a)
    BY <1>12 DEF JoinTest, JoinSelect
  <1>13. CASE PthreadJoin(a) \/ Unlist(a)
    BY <1>13 DEF PthreadJoin, Unlist
  <1>14. CASE JoinedBack(a) \/ TimedOutBack(a)
    BY <1>14 DEF JoinedBack, TimedOutBack
  <1>15. CASE AddGrowThrows(a) \/ AddRefused(a) \/ AddWake(a) \/ JoinReturn(a) \/ GetNothing(a) \/ WaitReturn(a)
    BY <1>1, <1>15 DEF AddGrowThrows, AddRefused, AddWake, JoinReturn, GetNothing, WaitReturn
  <1>. QED
    BY <1>2, <1>3, <1>4, <1>5, <1>6, <1>7, <1>8, <1>9, <1>10, <1>11, <1>12, <1>13, <1>14, <1>15
       DEF Operation, Adding, Getting, Waiting, Joining

\* A step of another actor keeps what the scan has seen.
LEMMA WaitActor ==
    ASSUME TypeOK, LocalsOK, JoinOK, WaitOK, ConstantsAssumption, NEW a \in Actors, Calling(a) \/ Operation(a)
    PROVE  WaitOK'
  <1>. SUFFICES ASSUME NEW b \in Actors PROVE WaitOKOf(b)'
    BY DEF WaitOK, WaitOKOf
  <1>1. CASE b = a
    BY <1>1, WaitSelf
  <1>2. CASE b # a
    <2>1. LocalsUnchanged(b)
      BY <1>2, ActorTypeStep
    <2>2. CASE pc[b] = "waitScan"
      <3>1. UNCHANGED <<gMutex, m_Threads, m_TaskQueue>>
        BY <1>2, <2>2, HolderExcludes DEF WaitOK
      <3>. QED BY <2>1, <3>1 DEF WaitOK, WaitOKOf, LocalsUnchanged
    <2>. QED BY <2>1, <2>2 DEF WaitOK, WaitOKOf, LocalsUnchanged
  <1>. QED BY <1>1, <1>2

\* A worker only takes tasks away, so an empty queue stays empty.
LEMMA WaitRun ==
    ASSUME TypeOK, LocalsOK, RunningIsHead, WaitOK, NEW t \in Threads, Run(t)
    PROVE  WaitOK'
  <1>1. \A a \in Actors : LocalsUnchanged(a)
    BY RunTypeStep
  <1>2. UNCHANGED <<gMutex, m_Threads>>
    BY DEF Run, RunCheck, RunLock, RunInvoke, RunReturn, RunFinish, RunSleep, RunSleepThrows,
           RunTimeout, RunReacquire, RunUnlock, RunSetResultCode, RunEnd, poolVars
  <1>3. \A u \in Threads : m_TaskQueue[u] = <<>> => m_TaskQueue'[u] = <<>>
    <2>1. CASE RunFinish(t)
      <3>1. m_TaskQueue[t] # <<>>
        BY <2>1 DEF RunFinish, RunGoto, RunningIsHead
      <3>. QED BY <2>1, <3>1 DEF RunFinish, TypeOK, QueueTypeOK
    <2>. QED BY <2>1 DEF Run, RunCheck, RunLock, RunInvoke, RunReturn, RunSleep, RunSleepThrows,
           RunTimeout, RunReacquire, RunUnlock, RunSetResultCode, RunEnd, queueVars
  <1>. SUFFICES ASSUME NEW a \in Actors PROVE WaitOKOf(a)'
    BY DEF WaitOK, WaitOKOf
  <1>4. ASSUME pc[a] = "waitScan", NEW i \in 1 .. (it[a] - 1)
        PROVE  m_TaskQueue'[m_Threads[i]] = <<>>
    <2>1. m_Threads[i] \in Threads /\ m_TaskQueue[m_Threads[i]] = <<>>
      BY <1>4 DEF WaitOK, TypeOK, PoolTypeOK, ActorTypeOK
    <2>. QED BY <1>3, <2>1
  <1>. QED BY <1>1, <1>2, <1>4 DEF WaitOK, WaitOKOf, LocalsUnchanged

-----------------------------------------------------------------------------
\* The initial state satisfies the inductive invariant.
LEMMA InitOK ==
    ASSUME Init, ConstantsAssumption
    PROVE  IInv
  <1>1. PoolTypeOK
    <2>1. m_Threads \in Seq(Threads)
      BY IsASeq DEF Init, ConstantsAssumption, Threads, StartSize, GrowTarget
    <2>. QED BY <2>1 DEF Init, PoolTypeOK, ConstantsAssumption, StartSize, GrowTarget
  <1>2. QueueTypeOK /\ RunTypeOK /\ HistoryTypeOK
    BY DEF Init, QueueTypeOK, RunTypeOK, HistoryTypeOK, WorkerPcs
  <1>3. ActorTypeOK
    BY DEF Init, ActorTypeOK, ActorPcs, PoolOps
  <1>4. RunningIsHead /\ LocalsOK
    BY DEF Init, RunningIsHead, LocalsOK, HoldsTask, HoldsThread, JoinBody
  <1>5. JoinOK /\ WaitOK
    BY DEF Init, JoinOK, WaitOK, JoinPcs, JoinBody
  <1>. QED BY <1>1, <1>2, <1>3, <1>4, <1>5 DEF IInv, TypeOK

\* Every step keeps the inductive invariant.
LEMMA StepOK ==
    ASSUME IInv, [Next]_vars, ConstantsAssumption
    PROVE  IInv'
  <1>1. ASSUME NEW a \in Actors, Calling(a) \/ Operation(a)
        PROVE  IInv'
    <2>. USE <1>1 DEF IInv
    <2>1. TypeOK'
      BY ActorTypeStep, SharedTypeStep DEF TypeOK
    <2>2. RunningIsHead' BY RunningActor
    <2>3. LocalsOK' BY LocalsActor
    <2>4. JoinOK' BY JoinActor
    <2>5. WaitOK' BY WaitActor
    <2>. QED BY <2>1, <2>2, <2>3, <2>4, <2>5
  <1>2. ASSUME NEW t \in Threads, Run(t)
        PROVE  IInv'
    BY <1>2, RunTypeStep, RunningRun, LocalsRun, JoinRun, WaitRun DEF IInv
  <1>3. CASE UNCHANGED vars
    BY <1>3 DEF IInv, TypeOK, PoolTypeOK, QueueTypeOK, RunTypeOK, ActorTypeOK, HistoryTypeOK,
       RunningIsHead, LocalsOK, JoinOK, WaitOK, vars, poolVars, threadVars, queueVars, runVars, actorVars, historyVars
  <1>. QED BY <1>1, <1>2, <1>3 DEF Next

\* The invariant holds in every reachable state, for any number of clients, tasks
\* and threads and any m_Min, m_Exp, m_Max.
THEOREM Invariance == Spec => []IInv
  <1>1. Init => IInv
    BY InitOK, ConstantsAssumption
  <1>2. IInv /\ [Next]_vars => IInv'
    BY StepOK, ConstantsAssumption
  <1>. QED BY <1>1, <1>2, PTL DEF Spec

\* Every variable keeps its type.
THEOREM TypeCorrect == Spec => []TypeOK
  <1>1. IInv => TypeOK
    BY DEF IInv
  <1>. QED BY <1>1, Invariance, PTL

\* The task a worker runs without the lock is the one it removes afterwards (525).
THEOREM RunningIsHeadAlways == Spec => []RunningIsHead
  <1>1. IInv => RunningIsHead
    BY DEF IInv
  <1>. QED BY <1>1, Invariance, PTL

\* The only step that ends a WaitForComplete is its return at the end of a scan.
LEMMA WaitEndsByReturn ==
    ASSUME IInv, [Next]_vars, ConstantsAssumption, NEW a \in Actors, op[a] = "Wait", op'[a] = "none"
    PROVE  WaitReturn(a)
  <1>1. ~UNCHANGED vars
    BY DEF vars, actorVars
  <1>2. ASSUME NEW t \in Threads, Run(t) PROVE FALSE
    <2>1. op'[a] = op[a]
      BY <1>2, RunTypeStep DEF IInv, LocalsUnchanged
    <2>. QED BY <2>1
  <1>3. ASSUME NEW b \in Actors, Calling(b) \/ Operation(b) PROVE b = a
    <2>1. b # a => op'[a] = op[a]
      BY <1>3, ActorTypeStep DEF IInv, LocalsUnchanged
    <2>. QED BY <2>1
  <1>4. Calling(a) \/ Operation(a)
    BY <1>1, <1>2, <1>3 DEF Next
  <1>5. pc[a] \in {"waitLock", "waitScan", "waitSleep"} /\ op \in [Actors -> PoolOps \cup {"none"}]
    BY DEF IInv, WaitOK, TypeOK, ActorTypeOK
  <1>. USE DEF Enter, Begin, CallOp, SetStop, JoinGoto, Scanning, MayCall, Goto
  <1>6. CASE Calling(a)
    BY <1>5, <1>6 DEF Calling, CallAddTask, CallGetResult, CallWait, StopAll, ThreadStopAll, CallJoinAll, CallThreadJoinAll
  <1>7. CASE Adding(a)
    BY <1>5, <1>7 DEF Adding, AddLock, AddScan, AddGrow, AddGrowThrows, AddNoGrow, AddLeast, AddChosen, AddRefused, AddAppend, AddWake
  <1>8. CASE Getting(a)
    BY <1>5, <1>8 DEF Getting, GetLock, GetScan, GetNothing
  <1>9. CASE Joining(a)
    BY <1>5, <1>9 DEF Joining, JoinLock, JoinNext, JoinReturn, JoinTest, JoinSelect, PthreadJoin, Unlist, JoinedBack, TimedOutBack
  <1>10. CASE Waiting(a)
    BY <1>5, <1>10 DEF Waiting, WaitLock, WaitScan, WaitSleep
  <1>. QED BY <1>4, <1>6, <1>7, <1>8, <1>9, <1>10 DEF Operation

\* When WaitForComplete (680) returns, no thread of the pool has a task queued or running.
THEOREM WaitForCompleteMeansIdle == Spec => WaitMeansIdle
  <1>1. ASSUME IInv, [Next]_vars, NEW a \in Actors, op[a] = "Wait", op'[a] = "none", NEW t \in PoolThreads
        PROVE  m_TaskQueue[t] = <<>> /\ wpc[t] # "invoke"
    <2>1. WaitReturn(a)
      BY <1>1, WaitEndsByReturn, ConstantsAssumption
    <2>2. m_Threads \in Seq(Threads) /\ it[a] \in Nat
      BY <1>1 DEF IInv, TypeOK, PoolTypeOK, ActorTypeOK
    <2>3. PICK i \in 1 .. Len(m_Threads) : t = m_Threads[i]
      BY <1>1 DEF PoolThreads, ToSet
    <2>4. i \in 1 .. (it[a] - 1)
      BY <2>1, <2>2, <2>3 DEF WaitReturn, AtEnd
    <2>5. m_TaskQueue[t] = <<>>
      BY <1>1, <2>1, <2>3, <2>4 DEF IInv, WaitOK, WaitReturn, Scanning
    <2>6. t \in Threads
      BY <2>2, <2>3
    <2>. QED BY <1>1, <2>5, <2>6 DEF IInv, RunningIsHead
  <1>2. IInv /\ [Next]_vars =>
          [\A a \in Actors : (op[a] = "Wait" /\ op'[a] = "none") =>
             \A t \in PoolThreads : m_TaskQueue[t] = <<>> /\ wpc[t] # "invoke"]_vars
    BY <1>1
  <1>. QED BY <1>2, Invariance, PTL DEF Spec, WaitMeansIdle

-----------------------------------------------------------------------------
(***************************************************************************)
(* What becomes of the tasks of ThreadPool.  JInv strengthens IInv by what *)
(* the lists of threads say about the threads (ListsOK), by what AddTask   *)
(* and JoinAll may rely on between two of their steps (AdderOK, JoinerOK), *)
(* and by the one place a task is at (OnePlace).                           *)
(***************************************************************************)

Ended(t) == wpc[t] \in {"none", "done"}
Full == ~(QuickResponse /\ CanGrow)

\* A thread that runs is in both lists and started; a thread not yet created is blank.
ListsOK ==
    /\ \A t \in Threads : t > created => wpc[t] = "none" /\ m_TaskQueue[t] = <<>> /\ m_ResultQueue[t] = {}
    /\ \A t \in PoolThreads : t <= created
    /\ \A t \in ToSet(gThreadList) : t <= created
    /\ \A t \in Threads : ~Ended(t) => t \in PoolThreads /\ t \in ToSet(gThreadList)
    /\ \A t \in Threads : ~m_bStarted[t] => Ended(t)

\* AddTask keeps the global lock from its first look at the pool to the signal, so
\* what it has found out still holds when it appends.
AdderOK(a) ==
    /\ pc[a] \in {"idle", "addLock", "addScan"} => tgt[a] = None
    /\ pc[a] \in {"addScan", "addLeast", "addAppend", "addWake"} => gMutex = a
    /\ pc[a] = "addLeast" => Full /\ (tgt[a] # None => tgt[a] \in PoolThreads)
    /\ pc[a] = "addAppend" => tgt[a] \in PoolThreads /\ (m_TaskQueue[tgt[a]] = <<>> \/ Full)

\* JoinAll gives the lock up, but the thread it waits for stays at its position, and
\* what it drops from a list has ended.
JoinerOK(a) ==
    /\ op[a] \in JoinOps => pc[a] \in JoinPcs
    /\ pc[a] \in JoinPcs /\ op[a] = "ThreadJoinAll" => it[a] = 1
    /\ pc[a] \in JoinBody => tgt[a] <= created
    /\ pc[a] \in JoinBody /\ op[a] = "JoinAll" => m_Threads[it[a]] = tgt[a]
    /\ pc[a] = "unlist" => wpc[tgt[a]] = "done"
    /\ pc[a] = "joinedBack" => Ended(tgt[a])

\* a task on its way into a queue, in a queue, or done with
Carries(a, k) == pc[a] \in {"addLock", "addScan", "addLeast", "addAppend"} /\ arg[a] = k
Waits(k) == \E t \in Threads : Queued(t, k)
Answered(k) == collected[k] # NoResult \/ \E t \in Threads : HasResult(t, k)

\* A task is at one place only, and nowhere before AddTask was called with it.
OnePlace ==
    /\ \A k \in Tasks \ submitted : ~Waits(k) /\ ~Answered(k) /\ \A a \in Actors : ~Carries(a, k)
    /\ \A k \in Tasks : Waits(k) => ~Answered(k)
    /\ \A k \in Tasks : \A a \in Actors : Carries(a, k) =>
          ~Waits(k) /\ ~Answered(k) /\ \A b \in Actors : Carries(b, k) => b = a
    /\ \A t, u \in Threads : \A i \in 1 .. Len(m_TaskQueue[t]), j \in 1 .. Len(m_TaskQueue[u]) :
          m_TaskQueue[t][i] = m_TaskQueue[u][j] => t = u /\ i = j

JInv ==
    /\ IInv /\ ListsOK /\ OnePlace /\ RunsOnce
    /\ \A a \in Actors : AdderOK(a) /\ JoinerOK(a)

-----------------------------------------------------------------------------
\* The elements of a sequence are those at its positions.
LEMMA Elements ==
    ASSUME NEW S, NEW s \in Seq(S)
    PROVE  /\ ToSet(s) = {s[i] : i \in 1 .. Len(s)}
           /\ \A i \in 1 .. Len(s) : s[i] \in ToSet(s)
           /\ \A x \in ToSet(s) : x \in S /\ \E i \in 1 .. Len(s) : x = s[i]
  BY DEF ToSet

\* An element put together with others, and one that is not removed, is still there.
LEMMA ConcatElements ==
    ASSUME NEW S, NEW u \in Seq(S), NEW v \in Seq(S)
    PROVE  /\ \A i \in 1 .. Len(u) : (u \o v)[i] = u[i]
           /\ ToSet(u \o v) = ToSet(u) \cup ToSet(v)
  <1>1. /\ Len(u \o v) = Len(u) + Len(v) /\ Len(u) \in Nat /\ Len(v) \in Nat
        /\ \A i \in 1 .. (Len(u) + Len(v)) : (u \o v)[i] = IF i <= Len(u) THEN u[i] ELSE v[i - Len(u)]
    BY ConcatProperties
  <1>2. \A i \in 1 .. Len(u) : (u \o v)[i] = u[i]
    BY <1>1
  <1>3. \A j \in 1 .. Len(v) : (u \o v)[Len(u) + j] = v[j] /\ Len(u) + j \in 1 .. Len(u \o v)
    BY <1>1
  <1>4. \A i \in 1 .. Len(u \o v) : (u \o v)[i] \in ToSet(u) \cup ToSet(v)
    BY <1>1 DEF ToSet
  <1>. DEFINE w == u \o v
  <1>5. w \in Seq(S)
    BY ConcatProperties
  <1>6. /\ \A i \in 1 .. Len(u) : i \in 1 .. Len(w) /\ w[i] = u[i]
        /\ \A j \in 1 .. Len(v) : w[Len(u) + j] = v[j] /\ Len(u) + j \in 1 .. Len(w)
        /\ \A i \in 1 .. Len(w) : w[i] \in ToSet(u) \cup ToSet(v)
    BY <1>1, <1>2, <1>3, <1>4
  <1>. HIDE DEF w
  <1>7. /\ ToSet(u) = {u[i] : i \in 1 .. Len(u)}
        /\ ToSet(v) = {v[i] : i \in 1 .. Len(v)}
        /\ ToSet(w) = {w[i] : i \in 1 .. Len(w)}
    BY <1>5, Elements
  <1>8. ToSet(w) = ToSet(u) \cup ToSet(v)
    <2>1. \A x \in ToSet(w) : x \in ToSet(u) \cup ToSet(v)
      BY <1>6, <1>7
    <2>2. \A x \in ToSet(u) : x \in ToSet(w)
      BY <1>6, <1>7
    <2>3. \A x \in ToSet(v) : x \in ToSet(w)
      BY <1>6, <1>7
    <2>. QED BY <2>1, <2>2, <2>3
  <1>. QED BY <1>2, <1>8 DEF w

LEMMA RemoveAtElements ==
    ASSUME NEW S, NEW s \in Seq(S), NEW i \in 1 .. Len(s)
    PROVE  /\ ToSet(RemoveAt(s, i)) \subseteq ToSet(s)
           /\ \A x \in ToSet(s) : x # s[i] => x \in ToSet(RemoveAt(s, i))
  <1>. DEFINE u == SubSeq(s, 1, i - 1)
              v == SubSeq(s, i + 1, Len(s))
  <1>1. /\ u \in Seq(S) /\ Len(u) = i - 1 /\ \A j \in 1 .. (i - 1) : u[j] = s[j]
        /\ v \in Seq(S) /\ Len(v) = Len(s) - i /\ \A j \in 1 .. (Len(s) - i) : v[j] = s[i + j]
    BY SubSeqProperties
  <1>2. ToSet(u) \subseteq ToSet(s) /\ ToSet(v) \subseteq ToSet(s)
    BY <1>1 DEF ToSet
  <1>3. ASSUME NEW j \in 1 .. Len(s), j # i PROVE s[j] \in ToSet(u) \cup ToSet(v)
    <2>. HIDE DEF u, v
    <2>1. CASE j < i
      <3>1. j \in 1 .. (i - 1)
        BY <2>1
      <3>. QED BY <3>1, <1>1, Elements
    <2>2. CASE j > i
      <3>1. (j - i) \in 1 .. (Len(s) - i) /\ i + (j - i) = j
        BY <2>2
      <3>2. v[j - i] = s[j]
        BY <3>1, <1>1
      <3>. QED BY <3>1, <3>2, <1>1, Elements
    <2>. QED BY <1>3, <2>1, <2>2
  <1>4. ToSet(RemoveAt(s, i)) = ToSet(u) \cup ToSet(v)
    <2>1. RemoveAt(s, i) = u \o v
      BY DEF RemoveAt
    <2>. HIDE DEF u, v
    <2>. QED BY <1>1, <2>1, ConcatElements
  <1>5. ToSet(s) = {s[j] : j \in 1 .. Len(s)}
    BY Elements
  <1>. HIDE DEF u, v
  <1>. QED BY <1>2, <1>3, <1>4, <1>5

\* The threads MoreThreads adds are the next ones; those it starts are in both lists.
LEMMA AppendedThreads ==
    ASSUME TypeOK, ConstantsAssumption, NEW n \in Nat, NEW b \in BOOLEAN, AppendThreads(n, b), b => n > 0
    PROVE  /\ created <= created'
           /\ \A i \in 1 .. Len(m_Threads) : m_Threads'[i] = m_Threads[i]
           /\ PoolThreads \subseteq PoolThreads' /\ ToSet(gThreadList) \subseteq ToSet(gThreadList')
           /\ \A t \in PoolThreads' : t \in PoolThreads \/ (created < t /\ t <= created')
           /\ \A t \in ToSet(gThreadList') : t \in ToSet(gThreadList) \/ (created < t /\ t <= created')
           /\ \A t \in Threads : wpc'[t] # wpc[t] \/ m_bStarted'[t] # m_bStarted[t] =>
                 /\ created < t /\ t <= created' /\ wpc'[t] = "check" /\ m_bStarted'[t]
                 /\ t \in PoolThreads' /\ t \in ToSet(gThreadList')
  <1>. DEFINE new == [i \in 1 .. n |-> created + i]
              ok == IF b THEN n - 1 ELSE n
              v == SubSeq(new, 1, ok)
  <1>1. /\ created \in Nat /\ created' = created + n /\ created + n <= MaxThreads
        /\ m_Threads \in Seq(Threads) /\ gThreadList \in Seq(Threads)
        /\ m_bStarted \in [Threads -> BOOLEAN] /\ wpc \in [Threads -> WorkerPcs]
    BY DEF AppendThreads, TypeOK, PoolTypeOK, RunTypeOK
  <1>2. new \in Seq(Threads) /\ Len(new) = n
    <2>1. \A i \in 1 .. n : created + i \in Threads
      BY <1>1 DEF ConstantsAssumption, Threads
    <2>. QED BY <2>1, IsASeq
  <1>3. ok \in 0 .. n
    OBVIOUS
  <1>4. v \in Seq(Threads) /\ Len(v) = ok /\ \A i \in 1 .. ok : v[i] = created + i
    <2>1. v \in Seq(Threads) /\ Len(v) = ok /\ \A i \in 1 .. ok : v[i] = new[i]
      <3>. HIDE DEF new, ok
      <3>. QED BY <1>2, <1>3, SubSeqProperties
    <2>2. \A i \in 1 .. ok : new[i] = created + i
      BY <1>3
    <2>. HIDE DEF v, ok, new
    <2>. QED BY <2>1, <2>2
  <1>5. m_Threads' = m_Threads \o new /\ gThreadList' = gThreadList \o v
    BY DEF AppendThreads
  <1>6. /\ \A t \in ToSet(new) : created < t /\ t <= created + n
        /\ \A t \in (created + 1) .. (created + n) : t \in ToSet(new)
    <2>1. ToSet(new) = {created + i : i \in 1 .. n}
      BY <1>2 DEF ToSet
    <2>2. \A i \in 1 .. n : created < created + i /\ created + i <= created + n
      BY <1>1
    <2>3. \A t \in (created + 1) .. (created + n) : t - created \in 1 .. n /\ created + (t - created) = t
      BY <1>1
    <2>. QED BY <2>1, <2>2, <2>3
  <1>7. /\ \A t \in ToSet(v) : created < t /\ t <= created + n
        /\ \A t \in (created + 1) .. (created + ok) : t \in ToSet(v)
    <2>1. ToSet(v) = {v[i] : i \in 1 .. ok}
      <3>. HIDE DEF v, ok
      <3>. QED BY <1>4, Elements
    <2>2. \A i \in 1 .. ok : created < created + i /\ created + i <= created + n
      BY <1>1, <1>3
    <2>3. \A t \in (created + 1) .. (created + ok) : t - created \in 1 .. ok /\ created + (t - created) = t
      BY <1>1, <1>3
    <2>. HIDE DEF v, ok
    <2>. QED BY <2>1, <2>2, <2>3, <1>4
  <1>8. ASSUME NEW t \in Threads, wpc'[t] # wpc[t] \/ m_bStarted'[t] # m_bStarted[t]
        PROVE  t \in (created + 1) .. (created + ok) /\ wpc'[t] = "check" /\ m_bStarted'[t]
    BY <1>1, <1>8 DEF AppendThreads
  <1>9. \A t \in (created + 1) .. (created + ok) :
           t \in (created + 1) .. (created + n) /\ created < t /\ t <= created + n
    BY <1>1, <1>3
  <1>. HIDE DEF new, ok, v
  <1>10. /\ \A i \in 1 .. Len(m_Threads) : m_Threads'[i] = m_Threads[i]
         /\ PoolThreads' = PoolThreads \cup ToSet(new)
         /\ ToSet(gThreadList') = ToSet(gThreadList) \cup ToSet(v)
    BY <1>1, <1>2, <1>4, <1>5, ConcatElements DEF PoolThreads
  <1>11. created <= created'
    BY <1>1
  <1>. QED BY <1>1, <1>6, <1>7, <1>8, <1>9, <1>10, <1>11

\* AddTask grows the pool while it holds the lock.
LEMMA PoolGrowth ==
    ASSUME TypeOK, ConstantsAssumption, NEW a \in Actors, AddGrow(a) \/ AddGrowThrows(a)
    PROVE  \E n \in Nat, b \in BOOLEAN : n > 0 /\ AppendThreads(n, b)
  BY PoolGrows

-----------------------------------------------------------------------------
\* A step of an operation keeps what the lists say about the threads.
LEMMA ListsActor ==
    ASSUME TypeOK, LocalsOK, JoinOK, ListsOK, ConstantsAssumption, NEW a \in Actors,
           AdderOK(a), JoinerOK(a), Calling(a) \/ Operation(a)
    PROVE  ListsOK'
  <1>. USE DEF poolVars, threadVars, queueVars, runVars, Ended
  <1>0. created \in Nat /\ \A t \in Threads : t \in Nat
    BY DEF TypeOK, PoolTypeOK, Threads, ConstantsAssumption
  <1>1. CASE AddGrow(a) \/ AddGrowThrows(a)
    <2>1. UNCHANGED queueVars
      BY <1>1 DEF AddGrow, AddGrowThrows
    <2>2. PICK n \in Nat, b \in BOOLEAN : n > 0 /\ AppendThreads(n, b)
      BY <1>1, PoolGrowth
    <2>3. /\ created <= created'
          /\ \A t \in PoolThreads' : t \in PoolThreads \/ (created < t /\ t <= created')
          /\ \A t \in ToSet(gThreadList') : t \in ToSet(gThreadList) \/ (created < t /\ t <= created')
          /\ PoolThreads \subseteq PoolThreads' /\ ToSet(gThreadList) \subseteq ToSet(gThreadList')
          /\ \A t \in Threads : wpc'[t] # wpc[t] \/ m_bStarted'[t] # m_bStarted[t] =>
                /\ created < t /\ t <= created' /\ wpc'[t] = "check" /\ m_bStarted'[t]
                /\ t \in PoolThreads' /\ t \in ToSet(gThreadList')
      BY <2>2, AppendedThreads
    <2>4. created' \in Nat
      BY SharedTypeStep DEF PoolTypeOK
    <2>5. /\ \A t \in PoolThreads : t \in Nat
          /\ \A t \in ToSet(gThreadList) : t \in Nat
      BY <1>0, Elements DEF TypeOK, PoolTypeOK, PoolThreads
    <2>6. \A t \in Threads : t > created' =>
             wpc'[t] = "none" /\ m_TaskQueue'[t] = <<>> /\ m_ResultQueue'[t] = {}
      BY <1>0, <2>1, <2>3, <2>4 DEF ListsOK
    <2>7. \A t \in PoolThreads' : t <= created'
      BY <1>0, <2>3, <2>4, <2>5 DEF ListsOK
    <2>8. \A t \in ToSet(gThreadList') : t <= created'
      BY <1>0, <2>3, <2>4, <2>5 DEF ListsOK
    <2>9. \A t \in Threads : wpc'[t] \notin {"none", "done"} => t \in PoolThreads' /\ t \in ToSet(gThreadList')
      BY <2>3 DEF ListsOK
    <2>10. \A t \in Threads : ~m_bStarted'[t] => wpc'[t] \in {"none", "done"}
      BY <2>3 DEF ListsOK
    <2>. QED BY <2>6, <2>7, <2>8, <2>9, <2>10 DEF ListsOK
  <1>2. CASE StopAll(a) \/ ThreadStopAll(a)
    BY <1>2 DEF StopAll, ThreadStopAll, SetStop, ListsOK, PoolThreads
  <1>3. CASE PthreadJoin(a)
    BY <1>3 DEF PthreadJoin, ListsOK, PoolThreads, TypeOK, PoolTypeOK
  <1>4. CASE Unlist(a)
    <2>1. wpc[tgt[a]] = "done" /\ UNCHANGED <<m_Threads, created, threadVars, queueVars, runVars>>
      BY <1>4 DEF Unlist, JoinerOK
    <2>2. /\ ToSet(gThreadList') \subseteq ToSet(gThreadList)
          /\ \A t \in ToSet(gThreadList) : t # tgt[a] => t \in ToSet(gThreadList')
      BY <1>4, RemoveAtElements DEF Unlist, TypeOK, PoolTypeOK
    <2>. QED BY <2>1, <2>2 DEF ListsOK, PoolThreads
  <1>5. CASE JoinedBack(a)
    <2>1. Ended(tgt[a]) /\ UNCHANGED <<gThreadList, created, threadVars, queueVars, runVars>>
      BY <1>5 DEF JoinedBack, JoinerOK
    <2>2. /\ PoolThreads' \subseteq PoolThreads
          /\ \A t \in PoolThreads : t # tgt[a] => t \in PoolThreads'
      <3>1. CASE op[a] = "JoinAll"
        <4>1. it[a] \in 1 .. Len(m_Threads) /\ m_Threads[it[a]] = tgt[a] /\ m_Threads \in Seq(Threads)
          BY <1>5, <3>1 DEF JoinedBack, JoinOK, JoinBody, JoinerOK, TypeOK, PoolTypeOK, ActorTypeOK
        <4>2. m_Threads' = RemoveAt(m_Threads, it[a])
          BY <1>5, <3>1 DEF JoinedBack
        <4>. QED BY <4>1, <4>2, RemoveAtElements DEF PoolThreads
      <3>2. CASE op[a] # "JoinAll"
        BY <1>5, <3>2 DEF JoinedBack, PoolThreads
      <3>. QED BY <3>1, <3>2
    <2>. QED BY <2>1, <2>2 DEF ListsOK
  <1>6. CASE AddAppend(a)
    <2>1. tgt[a] \in PoolThreads /\ UNCHANGED <<poolVars, threadVars, runVars, m_ResultQueue>>
      BY <1>6 DEF AddAppend, Scanning, AdderOK
    <2>2. \A t \in Threads : t # tgt[a] => m_TaskQueue'[t] = m_TaskQueue[t]
      BY <1>6 DEF AddAppend, TypeOK, QueueTypeOK
    <2>3. tgt[a] <= created
      BY <2>1 DEF ListsOK
    <2>. QED BY <1>0, <2>1, <2>2, <2>3 DEF ListsOK, PoolThreads
  <1>7. CASE GetScan(a)
    <2>1. UNCHANGED <<poolVars, threadVars, runVars, m_TaskQueue>>
      BY <1>7 DEF GetScan
    <2>2. \A t \in Threads : m_ResultQueue[t] = {} => m_ResultQueue'[t] = {}
      BY <1>7 DEF GetScan, TypeOK, QueueTypeOK
    <2>. QED BY <2>1, <2>2 DEF ListsOK, PoolThreads
  <1>8. CASE AddWake(a)
    <2>1. UNCHANGED <<poolVars, threadVars, queueVars>>
      BY <1>8 DEF AddWake
    <2>2. \A t \in Threads : wpc'[t] = wpc[t] \/ (wpc[t] = "asleep" /\ wpc'[t] = "reacquire")
      BY <1>8 DEF AddWake, TypeOK, RunTypeOK
    <2>. QED BY <2>1, <2>2 DEF ListsOK, PoolThreads
  <1>9. CASE UNCHANGED <<poolVars, threadVars, queueVars, runVars>>
    BY <1>9 DEF ListsOK, PoolThreads
  <1>. QED BY <1>1, <1>2, <1>3, <1>4, <1>5, <1>6, <1>7, <1>8, <1>9, ActorFrame

\* What a step of a worker may change at all: a thread that has ended stays so, a
\* queue only gets shorter.
LEMMA RunFrame ==
    ASSUME TypeOK, LocalsOK, RunningIsHead, NEW t \in Threads, Run(t)
    PROVE  /\ UNCHANGED <<gMutex, poolVars, m_bStarted, actorVars, submitted, collected>>
           /\ ~Ended(t) /\ \A u \in Threads \ {t} : wpc'[u] = wpc[u] /\ cur'[u] = cur[u]
           /\ \A u \in Threads \ {t} : m_TaskQueue'[u] = m_TaskQueue[u] /\ m_ResultQueue'[u] = m_ResultQueue[u]
           /\ m_TaskQueue'[t] = m_TaskQueue[t]
              \/ (m_TaskQueue[t] # <<>> /\ m_TaskQueue'[t] = Tail(m_TaskQueue[t]))
  <1>. USE DEF TypeOK, RunTypeOK, QueueTypeOK, Ended, RunGoto, queueVars, threadVars, runVars, historyVars
  <1>1. CASE RunInvoke(t) BY <1>1 DEF RunInvoke
  <1>2. CASE RunFinish(t) BY <1>2 DEF RunFinish, RunningIsHead
  <1>3. CASE RunCheck(t) \/ RunLock(t) \/ RunReturn(t) \/ RunSetResultCode(t)
    BY <1>3 DEF RunCheck, RunLock, RunReturn, RunSetResultCode
  <1>4. CASE RunSleep(t) \/ RunSleepThrows(t) \/ RunTimeout(t)
    BY <1>4 DEF RunSleep, RunSleepThrows, RunTimeout
  <1>5. CASE RunReacquire(t) \/ RunUnlock(t) \/ RunEnd(t)
    BY <1>5 DEF RunReacquire, RunUnlock, RunEnd
  <1>. QED BY <1>1, <1>2, <1>3, <1>4, <1>5 DEF Run

LEMMA ListsRun ==
    ASSUME TypeOK, LocalsOK, RunningIsHead, ListsOK, ConstantsAssumption, NEW t \in Threads, Run(t)
    PROVE  ListsOK'
  <1>1. /\ UNCHANGED <<m_Threads, gThreadList, created, m_bStarted>> /\ ~Ended(t)
        /\ \A u \in Threads \ {t} : wpc'[u] = wpc[u] /\ m_TaskQueue'[u] = m_TaskQueue[u] /\ m_ResultQueue'[u] = m_ResultQueue[u]
    BY RunFrame DEF poolVars
  <1>2. t \in PoolThreads /\ t \in ToSet(gThreadList) /\ t <= created /\ m_bStarted[t]
    BY <1>1 DEF ListsOK
  <1>3. created \in Nat /\ t \in Nat
    BY DEF TypeOK, PoolTypeOK, Threads, ConstantsAssumption
  <1>4. ~(t > created)
    BY <1>2, <1>3
  <1>. QED BY <1>1, <1>2, <1>4 DEF ListsOK, PoolThreads, Ended

-----------------------------------------------------------------------------
\* A step of the adding actor itself: what it has found out about the pool.
LEMMA AdderSelf ==
    ASSUME TypeOK, LocalsOK, JoinOK, WaitOK, ConstantsAssumption, NEW a \in Actors,
           AdderOK(a), Calling(a) \/ Operation(a)
    PROVE  AdderOK(a)'
  <1>. USE DEF TypeOK, ActorTypeOK, AdderOK
  <1>1. CASE Leave(a)
    BY <1>1 DEF Leave
  <1>. USE DEF Goto, Enter, Begin, CallOp, SetStop, JoinGoto, Scanning, Advance, actorVars
  <1>2. CASE Calling(a)
    BY <1>2 DEF Calling, CallAddTask, CallGetResult, CallWait, StopAll, ThreadStopAll, CallJoinAll, CallThreadJoinAll, MayCall
  <1>3. CASE AddLock(a) \/ GetLock(a) \/ WaitLock(a) \/ JoinLock(a)
    BY <1>3 DEF AddLock, GetLock, WaitLock, JoinLock
  <1>4. CASE AddScan(a)
    <2>1. UNCHANGED <<gMutex, m_Threads, m_TaskQueue>>
      BY <1>4 DEF AddScan, poolVars, queueVars
    <2>2. CASE GetTaskCount(Here(a)) = 0 /\ tgt' = [tgt EXCEPT ![a] = Here(a)] /\ Goto(a, "addAppend")
      <3>1. it[a] \in 1 .. Len(m_Threads)
        BY <1>4 DEF AddScan, AtEnd, PoolTypeOK
      <3>2. Here(a) \in PoolThreads /\ Here(a) \in Threads
        BY <3>1, Elements DEF Here, PoolThreads, PoolTypeOK
      <3>3. m_TaskQueue[Here(a)] = <<>>
        BY <2>2, <3>2 DEF GetTaskCount, QueueTypeOK
      <3>4. pc'[a] = "addAppend" /\ tgt'[a] = Here(a) /\ gMutex' = a
        BY <1>4, <2>1, <2>2 DEF AddScan
      <3>. QED BY <2>1, <3>2, <3>3, <3>4 DEF PoolThreads
    <2>3. CASE UNCHANGED <<op, pc, tgt>>
      BY <1>4, <2>1, <2>3 DEF AddScan
    <2>. QED BY <1>4, <2>2, <2>3 DEF AddScan
  <1>5. CASE AddGrow(a)
    BY <1>5 DEF AddGrow
  <1>6. CASE AddNoGrow(a)
    BY <1>6 DEF AddNoGrow, Full, poolVars, CanGrow, PoolThreads
  <1>7. CASE AddLeast(a)
    <2>1. it[a] \in 1 .. Len(m_Threads)
      BY <1>7 DEF AddLeast, AtEnd, PoolTypeOK
    <2>2. Here(a) \in PoolThreads
      BY <2>1, Elements DEF Here, PoolThreads, PoolTypeOK
    <2>. QED BY <1>7, <2>2 DEF AddLeast, Full, poolVars, CanGrow, PoolThreads
  <1>8. CASE AddChosen(a)
    BY <1>8 DEF AddChosen, Full, poolVars, CanGrow, PoolThreads
  <1>9. CASE AddAppend(a)
    BY <1>9 DEF AddAppend
  <1>10. CASE GetScan(a)
    BY <1>1, <1>10 DEF GetScan
  <1>11. CASE WaitScan(a) \/ WaitSleep(a)
    BY <1>11 DEF WaitScan, WaitSleep
  <1>12. CASE JoinNext(a)
    BY <1>12 DEF JoinNext
  <1>13. CASE JoinTest(a) \/ JoinSelect(a)
    BY <1>13 DEF JoinTest, JoinSelect
  <1>14. CASE PthreadJoin(a) \/ Unlist(a)
    BY <1>14 DEF PthreadJoin, Unlist
  <1>15. CASE JoinedBack(a) \/ TimedOutBack(a)
    BY <1>15 DEF JoinedBack, TimedOutBack
  <1>16. CASE AddGrowThrows(a) \/ AddRefused(a) \/ AddWake(a) \/ JoinReturn(a) \/ GetNothing(a) \/ WaitReturn(a)
    BY <1>1, <1>16 DEF AddGrowThrows, AddRefused, AddWake, JoinReturn, GetNothing, WaitReturn
  <1>. QED
    BY <1>2, <1>3, <1>4, <1>5, <1>6, <1>7, <1>8, <1>9, <1>10, <1>11, <1>12, <1>13, <1>14, <1>15, <1>16
       DEF Operation, Adding, Getting, Waiting, Joining

\* A step of another actor does not come between, for the lock is held.
LEMMA AdderActor ==
    ASSUME TypeOK, LocalsOK, JoinOK, WaitOK, ConstantsAssumption, NEW a \in Actors,
           Calling(a) \/ Operation(a), \A b \in Actors : AdderOK(b)
    PROVE  \A b \in Actors : AdderOK(b)'
  <1>. SUFFICES ASSUME NEW b \in Actors PROVE AdderOK(b)'
    OBVIOUS
  <1>1. CASE b = a
    BY <1>1, AdderSelf
  <1>2. CASE b # a
    <2>1. pc'[b] = pc[b] /\ tgt'[b] = tgt[b]
      BY <1>2, ActorTypeStep DEF LocalsUnchanged
    <2>2. CASE pc[b] \in {"addScan", "addLeast", "addAppend", "addWake"}
      <3>1. UNCHANGED <<gMutex, m_Threads, m_TaskQueue>>
        BY <1>2, <2>2, HolderExcludes DEF AdderOK
      <3>. QED BY <2>1, <3>1 DEF AdderOK, Full, CanGrow, PoolThreads
    <2>. QED BY <2>1, <2>2 DEF AdderOK
  <1>. QED BY <1>1, <1>2

LEMMA AdderRun ==
    ASSUME TypeOK, LocalsOK, RunningIsHead, NEW t \in Threads, Run(t), \A b \in Actors : AdderOK(b)
    PROVE  \A b \in Actors : AdderOK(b)'
  <1>1. UNCHANGED <<gMutex, m_Threads, pc, tgt>>
    BY RunFrame DEF poolVars, actorVars
  <1>2. \A u \in Threads : m_TaskQueue[u] = <<>> => m_TaskQueue'[u] = <<>>
    BY RunFrame
  <1>3. PoolThreads \subseteq Threads
    BY Elements DEF PoolThreads, TypeOK, PoolTypeOK
  <1>. QED BY <1>1, <1>2, <1>3 DEF AdderOK, Full, CanGrow, PoolThreads

\* A step of the joining actor itself.
LEMMA JoinerSelf ==
    ASSUME TypeOK, LocalsOK, JoinOK, WaitOK, ListsOK, ConstantsAssumption, NEW a \in Actors,
           JoinerOK(a), Calling(a) \/ Operation(a)
    PROVE  JoinerOK(a)'
  <1>. USE DEF TypeOK, ActorTypeOK, JoinerOK
  <1>1. CASE Leave(a)
    BY <1>1 DEF Leave, JoinOps, JoinPcs, JoinBody
  <1>. USE DEF Goto, Enter, Begin, CallOp, SetStop, JoinGoto, Scanning, Advance, actorVars, JoinOps, JoinPcs, JoinBody
  <1>2. CASE Calling(a)
    BY <1>2 DEF Calling, CallAddTask, CallGetResult, CallWait, StopAll, ThreadStopAll, CallJoinAll, CallThreadJoinAll, MayCall, WaitOK, poolVars, runVars
  <1>3. CASE AddLock(a) \/ GetLock(a) \/ WaitLock(a)
    BY <1>3 DEF AddLock, GetLock, WaitLock
  <1>4. CASE AddScan(a) \/ AddLeast(a)
    BY <1>4 DEF AddScan, AddLeast
  <1>5. CASE AddGrow(a)
    BY <1>5 DEF AddGrow
  <1>6. CASE AddNoGrow(a) \/ AddChosen(a) \/ AddAppend(a)
    BY <1>6 DEF AddNoGrow, AddChosen, AddAppend
  <1>7. CASE GetScan(a)
    BY <1>1, <1>7 DEF GetScan
  <1>8. CASE WaitScan(a) \/ WaitSleep(a)
    BY <1>8 DEF WaitScan, WaitSleep
  <1>9. CASE JoinLock(a)
    BY <1>9 DEF JoinLock
  <1>10. CASE JoinNext(a)
    <2>1. UNCHANGED <<m_Threads, created, wpc, op, it>> /\ pc'[a] = "joinTest" /\ tgt'[a] = JoinList(a)[it[a]]
      BY <1>10 DEF JoinNext, poolVars, runVars
    <2>2. it[a] \in 1 .. Len(JoinList(a))
      BY <1>10 DEF JoinNext
    <2>3. JoinList(a)[it[a]] <= created
      BY <2>2, Elements DEF JoinList, ListsOK, PoolThreads, PoolTypeOK
    <2>4. op[a] = "JoinAll" => JoinList(a) = m_Threads
      BY DEF JoinList
    <2>. QED BY <1>10, <2>1, <2>3, <2>4 DEF JoinNext
  <1>11. CASE JoinTest(a)
    <2>1. ~m_bStarted[tgt[a]] => Ended(tgt[a])
      BY <1>11 DEF JoinTest, LocalsOK, HoldsThread, ListsOK
    <2>. QED BY <1>11, <2>1 DEF JoinTest, poolVars, runVars, Ended
  <1>12. CASE JoinSelect(a)
    BY <1>12 DEF JoinSelect, poolVars, runVars
  <1>13. CASE PthreadJoin(a)
    BY <1>13 DEF PthreadJoin, poolVars, runVars
  <1>14. CASE Unlist(a)
    BY <1>14 DEF Unlist, runVars, Ended
  <1>15. CASE JoinedBack(a) \/ TimedOutBack(a)
    BY <1>15 DEF JoinedBack, TimedOutBack
  <1>16. CASE AddGrowThrows(a) \/ AddRefused(a) \/ AddWake(a) \/ JoinReturn(a) \/ GetNothing(a) \/ WaitReturn(a)
    BY <1>1, <1>16 DEF AddGrowThrows, AddRefused, AddWake, JoinReturn, GetNothing, WaitReturn
  <1>. QED
    BY <1>2, <1>3, <1>4, <1>5, <1>6, <1>7, <1>8, <1>9, <1>10, <1>11, <1>12, <1>13, <1>14, <1>15, <1>16
       DEF Operation, Adding, Getting, Waiting, Joining

\* What no actor's step does: start a thread that has ended, or shorten m_Threads
\* unless it is the JoinAll of the pool.
LEMMA EndedStays ==
    ASSUME TypeOK, LocalsOK, JoinOK, ListsOK, ConstantsAssumption, NEW a \in Actors, Calling(a) \/ Operation(a)
    PROVE  /\ created <= created'
           /\ \A t \in Threads : t <= created /\ Ended(t) => wpc'[t] = wpc[t]
           /\ op[a] # "JoinAll" => \A i \in 1 .. Len(m_Threads) : m_Threads'[i] = m_Threads[i]
  <1>0. created \in Nat /\ \A t \in Threads : t \in Nat
    BY DEF TypeOK, PoolTypeOK, Threads, ConstantsAssumption
  <1>1. CASE AddGrow(a) \/ AddGrowThrows(a)
    <2>1. PICK n \in Nat, b \in BOOLEAN : n > 0 /\ AppendThreads(n, b)
      BY <1>1, PoolGrowth
    <2>2. /\ created <= created'
          /\ \A i \in 1 .. Len(m_Threads) : m_Threads'[i] = m_Threads[i]
          /\ \A t \in Threads : wpc'[t] # wpc[t] => created < t
      BY <2>1, AppendedThreads
    <2>3. \A t \in Threads : t <= created => ~(created < t)
      BY <1>0
    <2>. QED BY <2>2, <2>3
  <1>2. CASE AddWake(a)
    BY <1>0, <1>2 DEF AddWake, poolVars, Ended, TypeOK, RunTypeOK
  <1>3. CASE UNCHANGED <<poolVars, runVars>>
    BY <1>0, <1>3 DEF poolVars, runVars
  <1>4. CASE Unlist(a) \/ JoinedBack(a) \/ StopAll(a) \/ ThreadStopAll(a) \/ PthreadJoin(a)
    BY <1>0, <1>4 DEF Unlist, JoinedBack, StopAll, ThreadStopAll, SetStop, PthreadJoin, poolVars, runVars
  <1>. QED BY <1>1, <1>2, <1>3, <1>4, ActorFrame

\* Another actor neither moves the thread JoinAll waits for nor starts it again.
LEMMA JoinerActor ==
    ASSUME TypeOK, LocalsOK, JoinOK, WaitOK, ListsOK, ConstantsAssumption, NEW a \in Actors,
           Calling(a) \/ Operation(a), \A b \in Actors : JoinerOK(b)
    PROVE  \A b \in Actors : JoinerOK(b)'
  <1>. SUFFICES ASSUME NEW b \in Actors PROVE JoinerOK(b)'
    OBVIOUS
  <1>1. CASE b = a
    BY <1>1, JoinerSelf
  <1>2. CASE b # a
    <2>1. pc'[b] = pc[b] /\ tgt'[b] = tgt[b] /\ op'[b] = op[b] /\ it'[b] = it[b]
      BY <1>2, ActorTypeStep DEF LocalsUnchanged
    <2>2. CASE pc[b] \in JoinBody
      <3>1. tgt[b] \in Threads /\ tgt[b] <= created
        BY <2>2 DEF LocalsOK, HoldsThread, JoinerOK
      <3>2. tgt[b] <= created'
        <4>1. created \in Nat /\ tgt[b] \in Nat
          BY <3>1 DEF TypeOK, PoolTypeOK, Threads, ConstantsAssumption
        <4>2. created' \in Nat
          BY SharedTypeStep DEF PoolTypeOK
        <4>3. created <= created'
          BY EndedStays
        <4>. QED BY <3>1, <4>1, <4>2, <4>3
      <3>3. Ended(tgt[b]) => wpc'[tgt[b]] = wpc[tgt[b]]
        BY <3>1, EndedStays
      <3>4. op[b] = "JoinAll" => m_Threads'[it[b]] = m_Threads[it[b]]
        <4>1. SUFFICES ASSUME op[b] = "JoinAll" PROVE m_Threads'[it[b]] = m_Threads[it[b]]
          OBVIOUS
        <4>2. it[b] \in 1 .. Len(m_Threads)
          BY <2>2, <4>1 DEF JoinOK, TypeOK, PoolTypeOK, ActorTypeOK
        <4>3. op[a] # "JoinAll"
          BY <1>2, <4>1 DEF JoinOK, JoinOps, ConstantsAssumption
        <4>. QED BY <4>2, <4>3, EndedStays
      <3>. QED BY <2>1, <2>2, <3>2, <3>3, <3>4 DEF JoinerOK, Ended
    <2>. QED BY <2>1, <2>2 DEF JoinerOK, JoinBody
  <1>. QED BY <1>1, <1>2

LEMMA JoinerRun ==
    ASSUME TypeOK, LocalsOK, RunningIsHead, NEW t \in Threads, Run(t), \A b \in Actors : JoinerOK(b)
    PROVE  \A b \in Actors : JoinerOK(b)'
  <1>1. UNCHANGED <<m_Threads, created, pc, tgt, op, it>>
    BY RunFrame DEF poolVars, actorVars
  <1>2. \A b \in Actors : pc[b] \in JoinBody => tgt[b] \in Threads
    BY DEF LocalsOK, HoldsThread
  <1>3. \A u \in Threads : Ended(u) => wpc'[u] = wpc[u]
    BY RunFrame
  <1>. QED BY <1>1, <1>2, <1>3 DEF JoinerOK, Ended, JoinBody

-----------------------------------------------------------------------------
\* The places in a queue after an append and after the removal of the head.
LEMMA AppendPlaces ==
    ASSUME NEW S, NEW s \in Seq(S), NEW x \in S
    PROVE  /\ Append(s, x) \in Seq(S) /\ Len(Append(s, x)) = Len(s) + 1
           /\ \A i \in 1 .. Len(Append(s, x)) :
                 \/ i \in 1 .. Len(s) /\ Append(s, x)[i] = s[i]
                 \/ i = Len(s) + 1 /\ Append(s, x)[i] = x
           /\ ToSet(Append(s, x)) = ToSet(s) \cup {x}
  <1>. DEFINE w == Append(s, x)
  <1>1. w \in Seq(S) /\ Len(w) = Len(s) + 1 /\ w[Len(s) + 1] = x /\ \A i \in 1 .. Len(s) : w[i] = s[i]
    BY AppendProperties
  <1>2. Len(s) \in Nat
    OBVIOUS
  <1>. HIDE DEF w
  <1>3. /\ \A i \in 1 .. Len(w) : (i \in 1 .. Len(s) /\ w[i] = s[i]) \/ (i = Len(s) + 1 /\ w[i] = x)
        /\ \A i \in 1 .. Len(s) : i \in 1 .. Len(w)
        /\ Len(s) + 1 \in 1 .. Len(w)
    BY <1>1, <1>2
  <1>4. ToSet(w) = {w[i] : i \in 1 .. Len(w)} /\ ToSet(s) = {s[i] : i \in 1 .. Len(s)}
    BY <1>1, Elements
  <1>5. ToSet(w) = ToSet(s) \cup {x}
    <2>1. \A y \in ToSet(w) : y \in ToSet(s) \cup {x}
      BY <1>3, <1>4
    <2>2. \A y \in ToSet(s) : y \in ToSet(w)
      BY <1>1, <1>3, <1>4
    <2>3. x \in ToSet(w)
      BY <1>1, <1>3, <1>4
    <2>. QED BY <2>1, <2>2, <2>3
  <1>. QED BY <1>1, <1>3, <1>5 DEF w

LEMMA TailPlaces ==
    ASSUME NEW S, NEW s \in Seq(S), s # <<>>
    PROVE  /\ Tail(s) \in Seq(S) /\ Len(Tail(s)) = Len(s) - 1
           /\ \A i \in 1 .. Len(Tail(s)) : i + 1 \in 1 .. Len(s) /\ Tail(s)[i] = s[i + 1]
           /\ 1 \in 1 .. Len(s) /\ Head(s) = s[1] /\ Head(s) \in ToSet(s)
           /\ \A x \in ToSet(Tail(s)) : x \in ToSet(s)
           /\ \A x \in ToSet(s) : x # Head(s) => x \in ToSet(Tail(s))
  <1>. DEFINE w == Tail(s)
  <1>1. w \in Seq(S) /\ Len(w) = Len(s) - 1 /\ Len(s) \in Nat \ {0} /\ Head(s) = s[1]
    BY EmptySeq
  <1>2. \A i \in 1 .. Len(w) : w[i] = s[i + 1]
    OBVIOUS
  <1>. HIDE DEF w
  <1>3. \A i \in 1 .. Len(w) : i + 1 \in 1 .. Len(s) /\ w[i] = s[i + 1]
    BY <1>1, <1>2
  <1>4. ToSet(w) = {w[i] : i \in 1 .. Len(w)} /\ ToSet(s) = {s[i] : i \in 1 .. Len(s)}
    BY <1>1, Elements
  <1>5. 1 \in 1 .. Len(s) /\ Head(s) \in ToSet(s)
    BY <1>1, <1>4
  <1>6. \A x \in ToSet(w) : x \in ToSet(s)
    BY <1>3, <1>4
  <1>7. ASSUME NEW i \in 1 .. Len(s), s[i] # Head(s) PROVE s[i] \in ToSet(w)
    <2>1. i # 1
      BY <1>1, <1>7
    <2>2. i - 1 \in 1 .. Len(w) /\ (i - 1) + 1 = i
      BY <1>1, <2>1
    <2>3. w[i - 1] = s[i]
      BY <1>3, <2>2
    <2>. QED BY <1>4, <2>2, <2>3
  <1>. QED BY <1>1, <1>3, <1>4, <1>5, <1>6, <1>7 DEF w

\* Only a call of AddTask makes an actor carry a task.
LEMMA CarriesSelf ==
    ASSUME TypeOK, ConstantsAssumption, NEW a \in Actors, Calling(a) \/ Operation(a), ~CallAddTask(a),
           pc'[a] \in {"addLock", "addScan", "addLeast", "addAppend"}
    PROVE  pc[a] \in {"addLock", "addScan", "addLeast", "addAppend"} /\ arg'[a] = arg[a]
  <1>. USE DEF TypeOK, ActorTypeOK
  <1>1. ~Leave(a)
    BY DEF Leave
  <1>. USE DEF Goto, Enter, Begin, CallOp, SetStop, JoinGoto, Scanning, Advance, actorVars
  <1>2. CASE Calling(a)
    BY <1>2 DEF Calling, CallGetResult, CallWait, StopAll, ThreadStopAll, CallJoinAll, CallThreadJoinAll, MayCall
  <1>3. CASE AddLock(a) \/ GetLock(a) \/ WaitLock(a) \/ JoinLock(a)
    BY <1>3 DEF AddLock, GetLock, WaitLock, JoinLock
  <1>4. CASE AddScan(a) \/ AddLeast(a)
    BY <1>4 DEF AddScan, AddLeast
  <1>5. CASE AddGrow(a)
    BY <1>5 DEF AddGrow
  <1>6. CASE AddNoGrow(a) \/ AddChosen(a)
    BY <1>6 DEF AddNoGrow, AddChosen
  <1>7. CASE AddAppend(a)
    BY <1>7 DEF AddAppend
  <1>8. CASE GetScan(a)
    BY <1>1, <1>8 DEF GetScan
  <1>9. CASE WaitScan(a) \/ WaitSleep(a)
    BY <1>9 DEF WaitScan, WaitSleep
  <1>10. CASE JoinNext(a)
    BY <1>10 DEF JoinNext
  <1>11. CASE JoinTest(a) \/ JoinSelect(a)
    BY <1>11 DEF JoinTest, JoinSelect
  <1>12. CASE PthreadJoin(a) \/ Unlist(a)
    BY <1>12 DEF PthreadJoin, Unlist
  <1>13. CASE JoinedBack(a) \/ TimedOutBack(a)
    BY <1>13 DEF JoinedBack, TimedOutBack
  <1>14. CASE AddGrowThrows(a) \/ AddRefused(a) \/ AddWake(a) \/ JoinReturn(a) \/ GetNothing(a) \/ WaitReturn(a)
    BY <1>1, <1>14 DEF AddGrowThrows, AddRefused, AddWake, JoinReturn, GetNothing, WaitReturn
  <1>. QED
    BY <1>2, <1>3, <1>4, <1>5, <1>6, <1>7, <1>8, <1>9, <1>10, <1>11, <1>12, <1>13, <1>14
       DEF Operation, Adding, Getting, Waiting, Joining

LEMMA CarriesStep ==
    ASSUME TypeOK, ConstantsAssumption, NEW a \in Actors, Calling(a) \/ Operation(a), ~CallAddTask(a)
    PROVE  \A b \in Actors : \A k \in Tasks : Carries(b, k)' => Carries(b, k)
  <1>. SUFFICES ASSUME NEW b \in Actors, NEW k \in Tasks, Carries(b, k)' PROVE Carries(b, k)
    OBVIOUS
  <1>1. CASE b = a
    BY <1>1, CarriesSelf DEF Carries
  <1>2. CASE b # a
    BY <1>2, ActorTypeStep DEF Carries, LocalsUnchanged
  <1>. QED BY <1>1, <1>2

\* What GetTaskResultAndRemove does to the answers: it hands one out, or nothing.
LEMMA GetScanAnswers ==
    ASSUME TypeOK, ConstantsAssumption, NEW a \in Actors, GetScan(a)
    PROVE  \/ /\ arg[a] \in Tasks /\ Here(a) \in PoolThreads /\ Here(a) \in Threads
              /\ HasResult(Here(a), arg[a])
              /\ collected'[arg[a]] # NoResult
              /\ \A k \in Tasks \ {arg[a]} : collected'[k] = collected[k]
              /\ \A t \in Threads : \A k \in Tasks \ {arg[a]} : HasResult(t, k)' <=> HasResult(t, k)
           \/ UNCHANGED <<m_ResultQueue, collected>>
  <1>1. Here(a) \in Threads /\ Here(a) \in PoolThreads
    <2>1. it[a] \in 1 .. Len(m_Threads)
      BY DEF GetScan, AtEnd, TypeOK, PoolTypeOK, ActorTypeOK
    <2>. QED BY <2>1, Elements DEF Here, PoolThreads, TypeOK, PoolTypeOK
  <1>2. \A r \in m_ResultQueue[Here(a)] : r[1] \in Tasks /\ r[2] \in ResultCodes /\ r[2] # NoResult
    BY <1>1 DEF TypeOK, QueueTypeOK, ConstantsAssumption
  <1>3. /\ m_ResultQueue' = [m_ResultQueue EXCEPT ![Here(a)] = {r \in @ : r[1] # arg[a]}]
        /\ m_ResultQueue \in [Threads -> SUBSET (Tasks \X ResultCodes)]
        /\ collected \in [Tasks -> ResultCodes \cup {NoResult}]
    BY DEF GetScan, TypeOK, QueueTypeOK, HistoryTypeOK
  <1>4. CASE \E r \in m_ResultQueue[Here(a)] : r[1] = arg[a]
    <2>1. PICK r \in m_ResultQueue[Here(a)] : r[1] = arg[a] /\ collected' = [collected EXCEPT ![arg[a]] = r[2]]
      BY <1>2, <1>4 DEF GetScan
    <2>2. arg[a] \in Tasks /\ r[2] # NoResult
      BY <1>2, <2>1
    <2>3. collected'[arg[a]] # NoResult /\ \A k \in Tasks \ {arg[a]} : collected'[k] = collected[k]
      BY <1>3, <2>1, <2>2
    <2>4. \A t \in Threads : m_ResultQueue'[t] =
             IF t = Here(a) THEN {q \in m_ResultQueue[t] : q[1] # arg[a]} ELSE m_ResultQueue[t]
      BY <1>3
    <2>5. \A t \in Threads : \A k \in Tasks \ {arg[a]} : HasResult(t, k)' <=> HasResult(t, k)
      BY <2>4 DEF HasResult
    <2>6. HasResult(Here(a), arg[a])
      BY <1>4 DEF HasResult
    <2>. QED BY <1>1, <2>2, <2>3, <2>5, <2>6
  <1>5. CASE \A r \in m_ResultQueue[Here(a)] : r[1] # arg[a]
    <2>1. {r \in m_ResultQueue[Here(a)] : r[1] # arg[a]} = m_ResultQueue[Here(a)]
      BY <1>5
    <2>2. m_ResultQueue' = m_ResultQueue
      BY <1>1, <1>3, <2>1
    <2>3. collected' = collected
      BY <1>5 DEF GetScan
    <2>. QED BY <2>2, <2>3
  <1>. QED BY <1>4, <1>5

-----------------------------------------------------------------------------
\* An operation takes a task only from where it was to the next place.
LEMMA PlaceActor ==
    ASSUME TypeOK, LocalsOK, JoinOK, OnePlace, ConstantsAssumption, NEW a \in Actors, Calling(a) \/ Operation(a)
    PROVE  OnePlace'
  <1>. USE DEF queueVars, historyVars
  <1>0. \A b \in Actors \ {a} : \A k \in Tasks : Carries(b, k)' <=> Carries(b, k)
    BY ActorTypeStep DEF Carries, LocalsUnchanged
  <1>1. CASE CallAddTask(a)
    <2>1. PICK k \in Tasks \ submitted :
             submitted' = submitted \cup {k} /\ arg'[a] = k /\ UNCHANGED <<queueVars, collected>>
      BY <1>1 DEF CallAddTask, TypeOK, ActorTypeOK
    <2>2. \A j \in Tasks : (Waits(j)' <=> Waits(j)) /\ (Answered(j)' <=> Answered(j))
      BY <2>1 DEF Waits, Queued, Answered, HasResult
    <2>3. ~Waits(k) /\ ~Answered(k) /\ \A b \in Actors : ~Carries(b, k)
      BY <2>1 DEF OnePlace
    <2>4. \A j \in Tasks : Carries(a, j)' => j = k
      BY <2>1 DEF Carries
    <2>5. ASSUME NEW j \in Tasks \ submitted'
          PROVE  ~Waits(j)' /\ ~Answered(j)' /\ \A b \in Actors : ~Carries(b, j)'
      BY <1>0, <2>1, <2>2, <2>4 DEF OnePlace
    <2>6. ASSUME NEW j \in Tasks, NEW b \in Actors, Carries(b, j)'
          PROVE  ~Waits(j)' /\ ~Answered(j)' /\ \A c \in Actors : Carries(c, j)' => c = b
      <3>1. CASE j = k
        BY <1>0, <2>2, <2>3, <2>6, <3>1
      <3>2. CASE j # k
        BY <1>0, <2>2, <2>4, <2>6, <3>2 DEF OnePlace
      <3>. QED BY <3>1, <3>2
    <2>. QED BY <2>1, <2>2, <2>5, <2>6 DEF OnePlace
  <1>2. CASE AddAppend(a)
    <2>0. arg[a] \in Tasks /\ tgt[a] \in Threads
      BY <1>2 DEF AddAppend, Scanning, LocalsOK, HoldsTask, HoldsThread
    <2>1. PICK k \in Tasks, t \in Threads :
          /\ Carries(a, k)
          /\ \A u \in Threads : m_TaskQueue'[u] = IF u = t THEN Append(m_TaskQueue[u], k) ELSE m_TaskQueue[u]
          /\ UNCHANGED <<m_ResultQueue, historyVars>> /\ pc'[a] = "addWake"
      BY <1>2, <2>0 DEF AddAppend, Scanning, Goto, Carries, TypeOK, QueueTypeOK, ActorTypeOK
    <2>2. m_TaskQueue \in [Threads -> Seq(Tasks)]
      BY DEF TypeOK, QueueTypeOK
    <2>3. ~Waits(k) /\ ~Answered(k) /\ k \in submitted /\ \A b \in Actors : Carries(b, k) => b = a
      BY <2>1 DEF OnePlace
    <2>4. \A u \in Threads : ToSet(m_TaskQueue'[u]) = IF u = t THEN ToSet(m_TaskQueue[u]) \cup {k} ELSE ToSet(m_TaskQueue[u])
      <3>1. ToSet(Append(m_TaskQueue[t], k)) = ToSet(m_TaskQueue[t]) \cup {k}
        BY <2>2, AppendPlaces
      <3>. QED BY <2>1, <3>1
    <2>5. \A j \in Tasks : (Waits(j)' <=> Waits(j) \/ j = k) /\ (Answered(j)' <=> Answered(j))
      <3>1. \A j \in Tasks : \A u \in Threads : Queued(u, j)' <=> Queued(u, j) \/ (u = t /\ j = k)
        BY <2>4 DEF Queued
      <3>2. \A j \in Tasks : Waits(j)' <=> Waits(j) \/ j = k
        BY <3>1 DEF Waits
      <3>3. \A j \in Tasks : Answered(j)' <=> Answered(j)
        BY <2>1 DEF Answered, HasResult, historyVars
      <3>. QED BY <3>2, <3>3
    <2>6. ~Carries(a, k)' /\ \A j \in Tasks : Carries(a, j)' => FALSE
      BY <2>1 DEF Carries
    <2>7. /\ \A u \in Threads : \A i \in 1 .. Len(m_TaskQueue'[u]) :
                \/ i \in 1 .. Len(m_TaskQueue[u]) /\ m_TaskQueue'[u][i] = m_TaskQueue[u][i]
                \/ u = t /\ i = Len(m_TaskQueue[u]) + 1 /\ m_TaskQueue'[u][i] = k
          /\ \A u \in Threads : \A i \in 1 .. Len(m_TaskQueue[u]) : m_TaskQueue[u][i] # k
      <3>1. \A u \in Threads : \A i \in 1 .. Len(m_TaskQueue[u]) : m_TaskQueue[u][i] # k
        BY <2>2, <2>3, Elements DEF Waits, Queued
      <3>2. ASSUME NEW u \in Threads, NEW i \in 1 .. Len(m_TaskQueue'[u])
            PROVE  \/ i \in 1 .. Len(m_TaskQueue[u]) /\ m_TaskQueue'[u][i] = m_TaskQueue[u][i]
                   \/ u = t /\ i = Len(m_TaskQueue[u]) + 1 /\ m_TaskQueue'[u][i] = k
        <4>1. CASE u = t
          <5>1. m_TaskQueue'[u] = Append(m_TaskQueue[t], k)
            BY <2>1, <4>1
          <5>2. \A n \in 1 .. Len(Append(m_TaskQueue[t], k)) :
                   \/ n \in 1 .. Len(m_TaskQueue[t]) /\ Append(m_TaskQueue[t], k)[n] = m_TaskQueue[t][n]
                   \/ n = Len(m_TaskQueue[t]) + 1 /\ Append(m_TaskQueue[t], k)[n] = k
            BY <2>2, AppendPlaces
          <5>. QED BY <3>2, <4>1, <5>1, <5>2
        <4>2. CASE u # t
          BY <2>1, <3>2, <4>2
        <4>. QED BY <4>1, <4>2
      <3>. QED BY <3>1, <3>2
    <2>8. ASSUME NEW u \in Threads, NEW v \in Threads,
                 NEW i \in 1 .. Len(m_TaskQueue'[u]), NEW j \in 1 .. Len(m_TaskQueue'[v]),
                 m_TaskQueue'[u][i] = m_TaskQueue'[v][j]
          PROVE  u = v /\ i = j
      <3>1. CASE i \in 1 .. Len(m_TaskQueue[u]) /\ m_TaskQueue'[u][i] = m_TaskQueue[u][i]
        <4>1. m_TaskQueue'[v][j] # k
          BY <2>7, <2>8, <3>1
        <4>2. j \in 1 .. Len(m_TaskQueue[v]) /\ m_TaskQueue'[v][j] = m_TaskQueue[v][j]
          BY <2>7, <4>1
        <4>3. m_TaskQueue[u][i] = m_TaskQueue[v][j]
          BY <2>8, <3>1, <4>2
        <4>4. \A r, w \in Threads : \A m \in 1 .. Len(m_TaskQueue[r]), n \in 1 .. Len(m_TaskQueue[w]) :
                 m_TaskQueue[r][m] = m_TaskQueue[w][n] => r = w /\ m = n
          BY DEF OnePlace
        <4>. QED BY <3>1, <4>2, <4>3, <4>4
      <3>2. CASE u = t /\ i = Len(m_TaskQueue[u]) + 1 /\ m_TaskQueue'[u][i] = k
        <4>1. v = t /\ j = Len(m_TaskQueue[v]) + 1
          BY <2>7, <2>8, <3>2
        <4>. QED BY <3>2, <4>1
      <3>. QED BY <2>7, <3>1, <3>2
    <2>9. \A j \in Tasks \ submitted' : ~Waits(j)' /\ ~Answered(j)' /\ \A b \in Actors : ~Carries(b, j)'
      BY <1>0, <2>1, <2>3, <2>5, <2>6 DEF OnePlace
    <2>10. \A j \in Tasks : Waits(j)' => ~Answered(j)'
      BY <2>3, <2>5 DEF OnePlace
    <2>11. ASSUME NEW j \in Tasks, NEW b \in Actors, Carries(b, j)'
          PROVE  ~Waits(j)' /\ ~Answered(j)' /\ \A c \in Actors : Carries(c, j)' => c = b
      <3>1. b # a /\ Carries(b, j)
        BY <1>0, <2>6, <2>11
      <3>2. j # k
        BY <2>3, <3>1
      <3>. QED BY <1>0, <2>5, <2>6, <3>1, <3>2 DEF OnePlace
    <2>. QED BY <2>8, <2>9, <2>10, <2>11 DEF OnePlace
  <1>3. CASE ~CallAddTask(a) /\ ~AddAppend(a)
    <2>1. \A b \in Actors : \A k \in Tasks : Carries(b, k)' => Carries(b, k)
      BY <1>3, CarriesStep
    <2>2. UNCHANGED <<m_TaskQueue, submitted>>
      BY <1>3, ActorFrame DEF GetScan
    <2>3. \A k \in Tasks : Answered(k)' => Answered(k)
      <3>1. CASE GetScan(a)
        <4>1. CASE UNCHANGED <<m_ResultQueue, collected>>
          BY <4>1 DEF Answered, HasResult
        <4>2. CASE ~UNCHANGED <<m_ResultQueue, collected>>
          BY <3>1, <4>2, GetScanAnswers DEF Answered
        <4>. QED BY <4>1, <4>2
      <3>2. CASE ~GetScan(a)
        BY <1>3, <3>2, ActorFrame DEF Answered, HasResult
      <3>. QED BY <3>1, <3>2
    <2>4. \A k \in Tasks : Waits(k)' <=> Waits(k)
      BY <2>2 DEF Waits, Queued
    <2>. QED BY <2>1, <2>2, <2>3, <2>4 DEF OnePlace
  <1>. QED BY <1>1, <1>2, <1>3

\* A worker that has finished takes its task out of the one queue it is in.
LEMMA PlaceRun ==
    ASSUME TypeOK, LocalsOK, RunningIsHead, OnePlace, NEW t \in Threads, Run(t)
    PROVE  OnePlace'
  <1>1. UNCHANGED <<pc, arg, submitted, collected>>
    BY RunFrame DEF actorVars
  <1>2. \A b \in Actors : \A k \in Tasks : Carries(b, k)' <=> Carries(b, k)
    BY <1>1 DEF Carries
  <1>3. m_TaskQueue \in [Threads -> Seq(Tasks)]
    BY DEF TypeOK, QueueTypeOK
  <1>4. CASE RunFinish(t)
    <2>0. m_TaskQueue[t] # <<>> /\ Head(m_TaskQueue[t]) = cur[t]
      BY <1>4 DEF RunFinish, RunGoto, RunningIsHead
    <2>1. PICK k \in Tasks : k = cur[t] /\ m_TaskQueue[t] # <<>> /\ Head(m_TaskQueue[t]) = k
      BY <1>3, <2>0
    <2>2. /\ \A u \in Threads : m_TaskQueue'[u] = IF u = t THEN Tail(m_TaskQueue[u]) ELSE m_TaskQueue[u]
          /\ \A u \in Threads : m_ResultQueue'[u] = IF u = t THEN m_ResultQueue[u] \cup {<<k, ret[t]>>} ELSE m_ResultQueue[u]
      BY <1>4, <2>1 DEF RunFinish, TypeOK, QueueTypeOK
    <2>3. \A j \in Tasks : Answered(j)' => Answered(j) \/ j = k
      <3>1. ASSUME NEW j \in Tasks, j # k, NEW u \in Threads, HasResult(u, j)' PROVE HasResult(u, j)
        <4>1. PICK r \in m_ResultQueue'[u] : r[1] = j
          BY <3>1 DEF HasResult
        <4>2. r # <<k, ret[t]>>
          BY <3>1, <4>1
        <4>3. r \in m_ResultQueue[u]
          BY <2>2, <4>1, <4>2
        <4>. QED BY <4>1, <4>3 DEF HasResult
      <3>. QED BY <1>1, <3>1 DEF Answered
    <2>4. /\ \A i \in 1 .. Len(m_TaskQueue'[t]) : i + 1 \in 1 .. Len(m_TaskQueue[t]) /\ m_TaskQueue'[t][i] = m_TaskQueue[t][i + 1]
          /\ 1 \in 1 .. Len(m_TaskQueue[t]) /\ m_TaskQueue[t][1] = k
          /\ \A x \in ToSet(m_TaskQueue'[t]) : x \in ToSet(m_TaskQueue[t])
          /\ m_TaskQueue'[t] \in Seq(Tasks) /\ k \in ToSet(m_TaskQueue[t])
      <3>. DEFINE s == m_TaskQueue[t]
      <3>1. s \in Seq(Tasks) /\ s # <<>> /\ Head(s) = k /\ m_TaskQueue'[t] = Tail(s)
        BY <1>3, <2>1, <2>2
      <3>. HIDE DEF s
      <3>2. /\ Tail(s) \in Seq(Tasks)
            /\ \A i \in 1 .. Len(Tail(s)) : i + 1 \in 1 .. Len(s) /\ Tail(s)[i] = s[i + 1]
            /\ 1 \in 1 .. Len(s) /\ Head(s) = s[1] /\ Head(s) \in ToSet(s)
            /\ \A x \in ToSet(Tail(s)) : x \in ToSet(s)
        BY <3>1, TailPlaces
      <3>. QED BY <3>1, <3>2 DEF s
    <2>5. \A j \in Tasks : Waits(j)' => Waits(j)
      BY <2>2, <2>4 DEF Waits, Queued
    <2>6. Waits(k)
      BY <2>4 DEF Waits, Queued
    <2>7. ASSUME NEW u \in Threads, NEW v \in Threads,
                 NEW i \in 1 .. Len(m_TaskQueue'[u]), NEW j \in 1 .. Len(m_TaskQueue'[v]),
                 m_TaskQueue'[u][i] = m_TaskQueue'[v][j]
          PROVE  u = v /\ i = j
      <3>. DEFINE p == IF u = t THEN i + 1 ELSE i
                  q == IF v = t THEN j + 1 ELSE j
      <3>1. p \in 1 .. Len(m_TaskQueue[u]) /\ m_TaskQueue[u][p] = m_TaskQueue'[u][i]
        BY <2>2, <2>4
      <3>2. q \in 1 .. Len(m_TaskQueue[v]) /\ m_TaskQueue[v][q] = m_TaskQueue'[v][j]
        BY <2>2, <2>4
      <3>3. u = v /\ p = q
        <4>. HIDE DEF p, q
        <4>. QED BY <2>7, <3>1, <3>2 DEF OnePlace
      <3>. QED BY <3>3
    <2>8. ~Waits(k)'
      <3>1. SUFFICES ASSUME NEW u \in Threads, k \in ToSet(m_TaskQueue'[u]) PROVE FALSE
        BY DEF Waits, Queued
      <3>2. m_TaskQueue'[u] \in Seq(Tasks)
        BY <1>3, <2>2, <2>4
      <3>3. PICK i \in 1 .. Len(m_TaskQueue'[u]) : m_TaskQueue'[u][i] = k
        BY <3>1, <3>2, Elements
      <3>4. CASE u = t
        <4>1. i + 1 \in 1 .. Len(m_TaskQueue[t]) /\ m_TaskQueue[t][i + 1] = m_TaskQueue[t][1]
          BY <2>4, <3>3, <3>4
        <4>2. i + 1 = 1
          BY <2>4, <4>1 DEF OnePlace
        <4>. QED BY <4>2
      <3>5. CASE u # t
        <4>1. i \in 1 .. Len(m_TaskQueue[u]) /\ m_TaskQueue[u][i] = m_TaskQueue[t][1] /\ 1 \in 1 .. Len(m_TaskQueue[t])
          BY <2>2, <2>4, <3>3, <3>5
        <4>2. u = t
          BY <4>1 DEF OnePlace
        <4>. QED BY <3>5, <4>2
      <3>. QED BY <3>4, <3>5
    <2>9. k \in submitted
      BY <2>6 DEF OnePlace
    <2>10. \A j \in Tasks \ submitted' : ~Waits(j)' /\ ~Answered(j)' /\ \A b \in Actors : ~Carries(b, j)'
      BY <1>1, <1>2, <2>3, <2>5, <2>9 DEF OnePlace
    <2>11. \A j \in Tasks : Waits(j)' => ~Answered(j)'
      BY <2>3, <2>5, <2>8 DEF OnePlace
    <2>12. ASSUME NEW j \in Tasks, NEW b \in Actors, Carries(b, j)'
          PROVE  ~Waits(j)' /\ ~Answered(j)' /\ \A c \in Actors : Carries(c, j)' => c = b
      <3>1. Carries(b, j) /\ j # k
        BY <1>2, <2>6, <2>12 DEF OnePlace
      <3>. QED BY <1>2, <2>3, <2>5, <3>1 DEF OnePlace
    <2>. QED BY <2>7, <2>10, <2>11, <2>12 DEF OnePlace
  <1>5. CASE ~RunFinish(t)
    <2>1. UNCHANGED queueVars
      BY <1>5 DEF Run, RunCheck, RunLock, RunInvoke, RunReturn, RunSleep, RunSleepThrows,
         RunTimeout, RunReacquire, RunUnlock, RunSetResultCode, RunEnd
    <2>2. \A k \in Tasks : (Waits(k)' <=> Waits(k)) /\ (Answered(k)' <=> Answered(k))
      BY <1>1, <2>1 DEF queueVars, Waits, Queued, Answered, HasResult
    <2>. QED BY <1>1, <1>2, <2>1, <2>2 DEF OnePlace, queueVars
  <1>. QED BY <1>4, <1>5

-----------------------------------------------------------------------------
Once(k) ==
    runs[k] = IF collected[k] # NoResult \/ \E t \in Threads : Running(t, k) \/ HasResult(t, k)
              THEN 1 ELSE 0

\* No operation runs a task, and GetTaskResultAndRemove only moves its answer.
LEMMA OnceActor ==
    ASSUME TypeOK, LocalsOK, JoinOK, ListsOK, RunsOnce, ConstantsAssumption, NEW a \in Actors, Calling(a) \/ Operation(a)
    PROVE  /\ RunsOnce'
           /\ \A t \in Threads : \A k \in Tasks : Running(t, k)' <=> Running(t, k)
  <1>. USE DEF queueVars, historyVars, runVars
  <1>1. \A t \in Threads : \A k \in Tasks : Running(t, k)' <=> Running(t, k)
    <2>1. CASE AddGrow(a) \/ AddGrowThrows(a)
      <3>1. PICK n \in Nat, b \in BOOLEAN : n > 0 /\ AppendThreads(n, b)
        BY <2>1, PoolGrowth
      <3>2. \A t \in Threads : wpc'[t] # wpc[t] => created < t /\ wpc'[t] = "check"
        BY <3>1, AppendedThreads
      <3>3. cur' = cur
        BY <3>1 DEF AppendThreads
      <3>4. \A t \in Threads : created < t => t > created
        OBVIOUS
      <3>5. \A t \in Threads : wpc'[t] # wpc[t] => wpc[t] = "none" /\ wpc'[t] = "check"
        BY <3>2, <3>4 DEF ListsOK
      <3>. QED BY <3>3, <3>5 DEF Running
    <2>2. CASE AddWake(a)
      <3>1. cur' = cur /\ \A t \in Threads : wpc'[t] = wpc[t] \/ (wpc[t] = "asleep" /\ wpc'[t] = "reacquire")
        BY <2>2 DEF AddWake, TypeOK, RunTypeOK
      <3>. QED BY <3>1 DEF Running
    <2>. QED BY <2>1, <2>2, ActorFrame DEF Running
  <1>2. CASE GetScan(a)
    <2>1. runs' = runs
      BY <1>2 DEF GetScan
    <2>2. CASE UNCHANGED <<m_ResultQueue, collected>>
      BY <1>1, <2>1, <2>2 DEF RunsOnce, HasResult
    <2>3. CASE ~UNCHANGED <<m_ResultQueue, collected>>
      <3>1. PICK t \in Threads, k \in Tasks :
              /\ HasResult(t, k) /\ collected'[k] # NoResult
              /\ \A j \in Tasks \ {k} : collected'[j] = collected[j]
              /\ \A u \in Threads : \A j \in Tasks \ {k} : HasResult(u, j)' <=> HasResult(u, j)
        BY <1>2, <2>3, GetScanAnswers
      <3>2. runs[k] = 1
        BY <3>1 DEF RunsOnce
      <3>3. \A j \in Tasks \ {k} :
               (collected'[j] # NoResult \/ \E u \in Threads : Running(u, j)' \/ HasResult(u, j)')
               <=> (collected[j] # NoResult \/ \E u \in Threads : Running(u, j) \/ HasResult(u, j))
        BY <1>1, <3>1
      <3>4. runs[k] = 1 /\ collected'[k] # NoResult
        BY <3>1, <3>2
      <3>5. \A j \in Tasks \ {k} : Once(j)'
        BY <2>1, <3>3 DEF RunsOnce, Once
      <3>6. Once(k)'
        BY <2>1, <3>4 DEF Once
      <3>7. \A j \in Tasks : Once(j)'
        BY <3>5, <3>6
      <3>8. RunsOnce'
        BY <3>7 DEF RunsOnce, Once
      <3>. QED BY <1>1, <3>8
    <2>. QED BY <2>2, <2>3
  <1>3. CASE ~GetScan(a)
    <2>1. UNCHANGED <<runs, collected, m_ResultQueue>>
      BY <1>3, ActorFrame DEF CallAddTask, AddAppend
    <2>. QED BY <1>1, <2>1 DEF RunsOnce, HasResult
  <1>. QED BY <1>1, <1>2, <1>3

\* A worker runs a task that waits, so it has not run before; and what has run
\* has its answer kept.
LEMMA OnceRun ==
    ASSUME TypeOK, LocalsOK, RunningIsHead, OnePlace, RunsOnce, NEW t \in Threads, Run(t)
    PROVE  RunsOnce'
  <1>0. m_TaskQueue \in [Threads -> Seq(Tasks)] /\ runs \in [Tasks -> Nat] /\ cur \in [Threads -> Tasks \cup {None}]
        /\ wpc \in [Threads -> WorkerPcs]
    BY DEF TypeOK, QueueTypeOK, RunTypeOK, HistoryTypeOK
  <1>1. /\ collected' = collected
        /\ \A u \in Threads \ {t} : \A k \in Tasks : (Running(u, k)' <=> Running(u, k)) /\ (HasResult(u, k)' <=> HasResult(u, k))
    BY RunFrame DEF Running, HasResult
  <1>2. CASE RunInvoke(t)
    <2>1. m_TaskQueue[t] # <<>> /\ wpc[t] = "drain" /\ runs' = [runs EXCEPT ![Head(m_TaskQueue[t])] = @ + 1]
          /\ cur'[t] = Head(m_TaskQueue[t]) /\ wpc'[t] = "invoke" /\ m_ResultQueue' = m_ResultQueue
      BY <1>0, <1>2 DEF RunInvoke, RunGoto, queueVars
    <2>2. PICK k \in Tasks : k = Head(m_TaskQueue[t])
      BY <1>0, <2>1
    <2>3. Queued(t, k) /\ m_TaskQueue[t][1] = k /\ 1 \in 1 .. Len(m_TaskQueue[t])
      BY <1>0, <2>1, <2>2, TailPlaces DEF Queued
    <2>4. ~Answered(k)
      BY <2>3 DEF OnePlace, Waits
    <2>5. \A u \in Threads : ~Running(u, k)
      <3>1. SUFFICES ASSUME NEW u \in Threads, Running(u, k) PROVE FALSE
        OBVIOUS
      <3>2. u # t
        BY <2>1, <3>1 DEF Running
      <3>3. m_TaskQueue[u] # <<>> /\ Head(m_TaskQueue[u]) = k
        BY <3>1 DEF Running, RunningIsHead
      <3>4. 1 \in 1 .. Len(m_TaskQueue[u]) /\ m_TaskQueue[u][1] = k
        BY <1>0, <3>3, TailPlaces
      <3>. QED BY <2>3, <3>2, <3>4 DEF OnePlace
    <2>6. runs[k] = 0
      BY <2>4, <2>5 DEF RunsOnce, Answered
    <2>7. runs'[k] = 1 /\ \A j \in Tasks \ {k} : runs'[j] = runs[j]
      BY <1>0, <2>1, <2>2, <2>6
    <2>8. Running(t, k)' /\ \A j \in Tasks \ {k} : (Running(t, j)' <=> Running(t, j)) /\ (HasResult(t, j)' <=> HasResult(t, j))
      BY <2>1, <2>2 DEF Running, HasResult
    <2>9. \A j \in Tasks \ {k} :
             (collected'[j] # NoResult \/ \E u \in Threads : Running(u, j)' \/ HasResult(u, j)')
             <=> (collected[j] # NoResult \/ \E u \in Threads : Running(u, j) \/ HasResult(u, j))
      BY <1>1, <2>8
    <2>. QED BY <2>7, <2>8, <2>9 DEF RunsOnce
  <1>3. CASE RunFinish(t)
    <2>1. /\ wpc[t] = "relock" /\ wpc'[t] = "drain" /\ runs' = runs
          /\ m_ResultQueue'[t] = m_ResultQueue[t] \cup {<<cur[t], ret[t]>>}
          /\ m_TaskQueue[t] # <<>> /\ Head(m_TaskQueue[t]) = cur[t]
      BY <1>0, <1>3 DEF RunFinish, RunGoto, historyVars, RunningIsHead, TypeOK, QueueTypeOK
    <2>2. PICK k \in Tasks : k = cur[t]
      BY <1>0, <2>1
    <2>3. Running(t, k) /\ runs[k] = 1
      <3>1. Running(t, k)
        BY <2>1, <2>2 DEF Running
      <3>. QED BY <3>1 DEF RunsOnce
    <2>4. HasResult(t, k)'
      <3>1. <<k, ret[t]>> \in m_ResultQueue'[t] /\ <<k, ret[t]>>[1] = k
        BY <2>1, <2>2
      <3>. QED BY <3>1 DEF HasResult
    <2>5. \A j \in Tasks \ {k} : ~Running(t, j)' /\ ~Running(t, j)
      BY <2>1, <2>2 DEF Running
    <2>6. \A j \in Tasks \ {k} : HasResult(t, j)' <=> HasResult(t, j)
      <3>1. ASSUME NEW j \in Tasks \ {k}, NEW r \in m_ResultQueue'[t], r[1] = j PROVE r \in m_ResultQueue[t]
        <4>1. r # <<k, ret[t]>>
          BY <3>1
        <4>. QED BY <2>1, <2>2, <4>1
      <3>2. m_ResultQueue[t] \subseteq m_ResultQueue'[t]
        BY <2>1
      <3>. QED BY <3>1, <3>2 DEF HasResult
    <2>7. \A j \in Tasks \ {k} :
             (collected'[j] # NoResult \/ \E u \in Threads : Running(u, j)' \/ HasResult(u, j)')
             <=> (collected[j] # NoResult \/ \E u \in Threads : Running(u, j) \/ HasResult(u, j))
      BY <1>1, <2>5, <2>6
    <2>. QED BY <2>1, <2>3, <2>4, <2>7 DEF RunsOnce
  <1>4. CASE ~RunInvoke(t) /\ ~RunFinish(t)
    <2>1. UNCHANGED <<runs, m_ResultQueue, cur>> /\ (wpc'[t] \in {"invoke", "relock"} <=> wpc[t] \in {"invoke", "relock"})
      <3>. USE <1>0 DEF RunGoto, queueVars, historyVars
      <3>1. CASE RunCheck(t) \/ RunLock(t) \/ RunReturn(t) \/ RunSetResultCode(t)
        BY <3>1 DEF RunCheck, RunLock, RunReturn, RunSetResultCode
      <3>2. CASE RunSleep(t) \/ RunSleepThrows(t) \/ RunTimeout(t)
        BY <3>2 DEF RunSleep, RunSleepThrows, RunTimeout
      <3>3. CASE RunReacquire(t) \/ RunUnlock(t) \/ RunEnd(t)
        BY <3>3 DEF RunReacquire, RunUnlock, RunEnd
      <3>. QED BY <1>4, <3>1, <3>2, <3>3 DEF Run
    <2>2. \A k \in Tasks : (Running(t, k)' <=> Running(t, k)) /\ (HasResult(t, k)' <=> HasResult(t, k))
      BY <2>1 DEF Running, HasResult
    <2>3. \A k \in Tasks :
             (collected'[k] # NoResult \/ \E u \in Threads : Running(u, k)' \/ HasResult(u, k)')
             <=> (collected[k] # NoResult \/ \E u \in Threads : Running(u, k) \/ HasResult(u, k))
      BY <1>1, <2>2
    <2>. QED BY <2>1, <2>3 DEF RunsOnce
  <1>. QED BY <1>2, <1>3, <1>4

-----------------------------------------------------------------------------
\* The initial state satisfies the stronger invariant.
LEMMA JInitOK ==
    ASSUME Init, ConstantsAssumption
    PROVE  JInv
  <1>1. IInv
    BY InitOK
  <1>2. StartSize \in Nat /\ ToSet(m_Threads) = 1 .. StartSize /\ gThreadList = m_Threads
    <2>1. StartSize \in Nat
      BY DEF StartSize, GrowTarget, ConstantsAssumption
    <2>2. m_Threads = [i \in 1 .. StartSize |-> i] /\ gThreadList = m_Threads
      BY DEF Init
    <2>3. m_Threads \in Seq(Threads) /\ Len(m_Threads) = StartSize
      BY <1>1, <2>1, <2>2 DEF IInv, TypeOK, PoolTypeOK
    <2>4. ToSet(m_Threads) = {m_Threads[i] : i \in 1 .. StartSize}
      BY <2>3, Elements
    <2>. QED BY <2>1, <2>2, <2>4
  <1>3. ListsOK
    <2>1. \A t \in Threads : t \in Nat /\ t >= 1
      BY DEF Threads, ConstantsAssumption
    <2>2. \A t \in Threads : (t > created => ~(t <= StartSize)) /\ (t <= StartSize <=> t \in 1 .. StartSize)
      BY <1>2, <2>1 DEF Init
    <2>3. \A t \in ToSet(m_Threads) : t <= created
      BY <1>2 DEF Init
    <2>. QED BY <1>2, <2>2, <2>3 DEF Init, ListsOK, PoolThreads, Ended
  <1>4. OnePlace /\ RunsOnce
    <2>1. /\ \A t \in Threads : m_TaskQueue[t] = <<>> /\ m_ResultQueue[t] = {} /\ wpc[t] \in {"none", "check"}
          /\ \A k \in Tasks : collected[k] = NoResult /\ runs[k] = 0
          /\ \A a \in Actors : pc[a] = "idle"
      BY DEF Init
    <2>2. \A t \in Threads : Len(m_TaskQueue[t]) = 0 /\ ToSet(m_TaskQueue[t]) = {}
      BY <2>1 DEF ToSet
    <2>3. \A k \in Tasks : ~Waits(k) /\ ~Answered(k) /\ (\A a \in Actors : ~Carries(a, k)) /\ \A t \in Threads : ~Running(t, k) /\ ~HasResult(t, k)
      BY <2>1, <2>2 DEF Waits, Queued, Answered, HasResult, Carries, Running
    <2>4. OnePlace
      BY <2>2, <2>3 DEF OnePlace
    <2>5. RunsOnce
      BY <2>1, <2>3 DEF RunsOnce
    <2>. QED BY <2>4, <2>5
  <1>5. \A a \in Actors : AdderOK(a) /\ JoinerOK(a)
    BY DEF Init, AdderOK, JoinerOK, JoinOps, JoinPcs, JoinBody
  <1>. QED BY <1>1, <1>3, <1>4, <1>5 DEF JInv

\* Every step keeps it.
LEMMA JStepOK ==
    ASSUME JInv, [Next]_vars, ConstantsAssumption
    PROVE  JInv'
  <1>0. IInv'
    BY StepOK DEF JInv
  <1>1. ASSUME NEW a \in Actors, Calling(a) \/ Operation(a)
        PROVE  JInv'
    <2>. USE <1>1 DEF JInv, IInv
    <2>1. ListsOK' BY ListsActor
    <2>2. OnePlace' BY PlaceActor
    <2>3. RunsOnce' BY OnceActor
    <2>4. \A b \in Actors : AdderOK(b)' BY AdderActor
    <2>5. \A b \in Actors : JoinerOK(b)' BY JoinerActor
    <2>. QED BY <1>0, <2>1, <2>2, <2>3, <2>4, <2>5
  <1>2. ASSUME NEW t \in Threads, Run(t)
        PROVE  JInv'
    <2>. USE <1>2 DEF JInv, IInv
    <2>1. ListsOK' BY ListsRun
    <2>2. OnePlace' BY PlaceRun
    <2>3. RunsOnce' BY OnceRun
    <2>4. \A b \in Actors : AdderOK(b)' BY AdderRun
    <2>5. \A b \in Actors : JoinerOK(b)' BY JoinerRun
    <2>. QED BY <1>0, <2>1, <2>2, <2>3, <2>4, <2>5
  <1>3. CASE UNCHANGED vars
    <2>. USE <1>3 DEF vars, poolVars, threadVars, queueVars, runVars, actorVars, historyVars
    <2>1. ListsOK' BY DEF JInv, ListsOK, PoolThreads, Ended
    <2>2. OnePlace' BY DEF JInv, OnePlace, Waits, Queued, Answered, HasResult, Carries
    <2>3. RunsOnce' BY DEF JInv, RunsOnce, Running, HasResult
    <2>4. \A b \in Actors : AdderOK(b)' /\ JoinerOK(b)'
      BY DEF JInv, AdderOK, JoinerOK, Full, CanGrow, PoolThreads, Ended
    <2>. QED BY <1>0, <2>1, <2>2, <2>3, <2>4 DEF JInv
  <1>. QED BY <1>1, <1>2, <1>3 DEF Next

\* The stronger invariant holds in every reachable state.
THEOREM TaskInvariance == Spec => []JInv
  <1>1. Init => JInv
    BY JInitOK, ConstantsAssumption
  <1>2. JInv /\ [Next]_vars => JInv'
    BY JStepOK, ConstantsAssumption
  <1>. QED BY <1>1, <1>2, PTL DEF Spec

\* A task is invoked once: exactly when it runs, has run, or its result was fetched
\* (Thread.cpp 505-531, 645).
THEOREM EveryTaskRunsOnce == Spec => []RunsOnce
  <1>1. JInv => RunsOnce
    BY DEF JInv
  <1>. QED BY <1>1, TaskInvariance, PTL

-----------------------------------------------------------------------------
\* A thread leaves the pool by JoinedBack only, which releases one that has ended.
LEMMA LeavesPool ==
    ASSUME JInv, ConstantsAssumption, NEW a \in Actors, Calling(a) \/ Operation(a)
    PROVE  \/ PoolThreads \subseteq PoolThreads'
           \/ JoinedBack(a) /\ \A t \in PoolThreads : t # tgt[a] => t \in PoolThreads'
  <1>. USE DEF JInv, IInv
  <1>1. CASE AddGrow(a) \/ AddGrowThrows(a)
    <2>1. PICK n \in Nat, b \in BOOLEAN : n > 0 /\ AppendThreads(n, b)
      BY <1>1, PoolGrowth
    <2>. QED BY <2>1, AppendedThreads
  <1>2. CASE JoinedBack(a)
    <2>1. CASE op[a] = "JoinAll"
      <3>1. it[a] \in 1 .. Len(m_Threads) /\ m_Threads[it[a]] = tgt[a] /\ m_Threads \in Seq(Threads)
        BY <1>2, <2>1 DEF JoinedBack, JoinOK, JoinBody, JoinerOK, TypeOK, PoolTypeOK, ActorTypeOK
      <3>2. m_Threads' = RemoveAt(m_Threads, it[a])
        BY <1>2, <2>1 DEF JoinedBack
      <3>. QED BY <1>2, <3>1, <3>2, RemoveAtElements DEF PoolThreads
    <2>2. CASE op[a] # "JoinAll"
      BY <1>2, <2>2 DEF JoinedBack, PoolThreads
    <2>. QED BY <2>1, <2>2
  <1>3. CASE StopAll(a) \/ ThreadStopAll(a) \/ PthreadJoin(a) \/ Unlist(a)
    BY <1>3 DEF StopAll, ThreadStopAll, SetStop, PthreadJoin, Unlist, poolVars, PoolThreads
  <1>4. CASE UNCHANGED <<poolVars, threadVars>>
    BY <1>4 DEF poolVars, PoolThreads
  <1>. QED BY <1>1, <1>2, <1>3, <1>4, ActorFrame

\* JoinAll releases a thread of the pool only once it has ended or was never started
\* (Thread.cpp 754-772).
THEOREM PoolReleasesEnded == Spec => ReleasedHasEnded
  <1>1. ASSUME JInv, [Next]_vars, NEW t \in PoolThreads, t \notin PoolThreads'
        PROVE  wpc[t] \in {"none", "done"}
    <2>1. CASE UNCHANGED vars
      BY <1>1, <2>1 DEF vars, poolVars, PoolThreads
    <2>2. ASSUME NEW u \in Threads, Run(u) PROVE FALSE
      BY <1>1, <2>2, RunFrame DEF JInv, IInv, poolVars, PoolThreads
    <2>3. ASSUME NEW a \in Actors, Calling(a) \/ Operation(a) PROVE wpc[t] \in {"none", "done"}
      <3>1. JoinedBack(a) /\ t = tgt[a]
        BY <1>1, <2>3, LeavesPool, ConstantsAssumption
      <3>. QED BY <1>1, <3>1 DEF JoinedBack, JInv, JoinerOK, Ended
    <2>. QED BY <1>1, <2>1, <2>2, <2>3 DEF Next
  <1>2. JInv /\ [Next]_vars =>
          [\A t \in PoolThreads : t \notin PoolThreads' => wpc[t] \in {"none", "done"}]_vars
    BY <1>1
  <1>. QED BY <1>2, TaskInvariance, PTL DEF Spec, ReleasedHasEnded

\* The only step that ends CThread::JoinAll is its return at the end of the list.
LEMMA JoinEndsByReturn ==
    ASSUME JInv, [Next]_vars, ConstantsAssumption, NEW a \in Actors, op[a] = "ThreadJoinAll", op'[a] = "none"
    PROVE  JoinReturn(a)
  <1>1. ~UNCHANGED vars
    BY DEF vars, actorVars
  <1>2. ASSUME NEW t \in Threads, Run(t) PROVE FALSE
    BY <1>2, RunTypeStep DEF JInv, IInv, LocalsUnchanged
  <1>3. ASSUME NEW b \in Actors, Calling(b) \/ Operation(b) PROVE b = a
    <2>1. b # a => op'[a] = op[a]
      BY <1>3, ActorTypeStep DEF JInv, IInv, LocalsUnchanged
    <2>. QED BY <2>1
  <1>4. Calling(a) \/ Operation(a)
    BY <1>1, <1>2, <1>3 DEF Next
  <1>5. pc[a] \in JoinPcs /\ op \in [Actors -> PoolOps \cup {"none"}]
    BY DEF JInv, IInv, JoinerOK, JoinOps, TypeOK, ActorTypeOK
  <1>. USE DEF Enter, Begin, CallOp, SetStop, JoinGoto, Scanning, MayCall, Goto, JoinPcs, JoinBody
  <1>6. CASE Calling(a)
    BY <1>5, <1>6 DEF Calling, CallAddTask, CallGetResult, CallWait, StopAll, ThreadStopAll, CallJoinAll, CallThreadJoinAll
  <1>7. CASE Adding(a)
    BY <1>5, <1>7 DEF Adding, AddLock, AddScan, AddGrow, AddGrowThrows, AddNoGrow, AddLeast, AddChosen, AddRefused, AddAppend, AddWake
  <1>8. CASE Getting(a)
    BY <1>5, <1>8 DEF Getting, GetLock, GetScan, GetNothing
  <1>9. CASE Waiting(a)
    BY <1>5, <1>9 DEF Waiting, WaitLock, WaitScan, WaitSleep, WaitReturn
  <1>10. CASE Joining(a)
    BY <1>5, <1>10 DEF Joining, JoinLock, JoinNext, JoinTest, JoinSelect, PthreadJoin, Unlist, JoinedBack, TimedOutBack
  <1>. QED BY <1>4, <1>6, <1>7, <1>8, <1>9, <1>10 DEF Operation

\* When CThread::JoinAll (Thread.cpp 347) returns, no thread is left that runs.
THEOREM ThreadJoinAllEndsAll == Spec => ThreadJoinAllMeansEnded
  <1>1. ASSUME JInv, [Next]_vars, NEW a \in Actors, op[a] = "ThreadJoinAll", op'[a] = "none", NEW t \in Threads
        PROVE  wpc[t] \in {"none", "done"}
    <2>1. JoinReturn(a)
      BY <1>1, JoinEndsByReturn, ConstantsAssumption
    <2>2. it[a] = 1 /\ 1 > Len(gThreadList) /\ gThreadList \in Seq(Threads)
      BY <1>1, <2>1 DEF JInv, IInv, JoinerOK, JoinReturn, JoinList, Scanning, JoinPcs, TypeOK, PoolTypeOK
    <2>3. ToSet(gThreadList) = {}
      BY <2>2 DEF ToSet
    <2>. QED BY <1>1, <2>3 DEF JInv, ListsOK, Ended
  <1>2. JInv /\ [Next]_vars =>
          [\A a \in Actors : (op[a] = "ThreadJoinAll" /\ op'[a] = "none") =>
             \A t \in Threads : wpc[t] \in {"none", "done"}]_vars
    BY <1>1
  <1>. QED BY <1>2, TaskInvariance, PTL DEF Spec, ThreadJoinAllMeansEnded

\* With QuickResponse a task is queued behind another one only in a pool that is full
\* (Thread.cpp 594-636).
THEOREM QueuesBehindOnlyWhenFull == Spec => BehindOnlyWhenFull
  <1>1. ASSUME JInv, [Next]_vars, NEW a \in Actors, pc[a] = "addAppend", pc'[a] = "addWake",
               NEW t \in Threads, m_TaskQueue[t] # <<>>, m_TaskQueue'[t] # m_TaskQueue[t]
        PROVE  ~(QuickResponse /\ CanGrow)
    <2>1. ~UNCHANGED vars
      BY <1>1 DEF vars, actorVars
    <2>2. ASSUME NEW u \in Threads, Run(u) PROVE FALSE
      BY <1>1, <2>2, RunFrame DEF JInv, IInv, actorVars
    <2>3. ASSUME NEW b \in Actors, Calling(b) \/ Operation(b) PROVE b = a
      <3>1. b # a => pc'[a] = pc[a]
        BY <1>1, <2>3, ActorTypeStep, ConstantsAssumption DEF JInv, IInv, LocalsUnchanged
      <3>. QED BY <1>1, <3>1
    <2>4. Calling(a) \/ Operation(a)
      BY <1>1, <2>1, <2>2, <2>3 DEF Next
    <2>5. AddAppend(a)
      BY <1>1, <2>4, ActorFrame DEF GetScan, queueVars
    <2>6. t = tgt[a]
      BY <1>1, <2>5 DEF AddAppend, JInv, IInv, TypeOK, QueueTypeOK
    <2>. QED BY <1>1, <2>6 DEF JInv, AdderOK, Full
  <1>2. JInv /\ [Next]_vars =>
          [\A a \in Actors :
             (pc[a] = "addAppend" /\ pc'[a] = "addWake" /\ op[a] = "AddTask"
                /\ \E t \in Threads : m_TaskQueue[t] # <<>> /\ m_TaskQueue'[t] # m_TaskQueue[t])
             => ~(QuickResponse /\ CanGrow)]_vars
    BY <1>1
  <1>. QED BY <1>2, TaskInvariance, PTL DEF Spec, BehindOnlyWhenFull

-----------------------------------------------------------------------------
(* The pool implements TaskBoard: every step moves the status of at most   *)
(* one task, and a thread that leaves the pool only loses tasks.           *)

\* What StatusOf depends on, for one task.
SameTask(k) ==
    /\ collected'[k] # NoResult <=> collected[k] # NoResult
    /\ \A t \in Threads : /\ HasResult(t, k)' <=> HasResult(t, k)
                          /\ Running(t, k)' <=> Running(t, k)
                          /\ Queued(t, k)' <=> Queued(t, k)

LEMMA PoolThreadsType ==
    ASSUME TypeOK
    PROVE  PoolThreads \subseteq Threads
  BY Elements DEF TypeOK, PoolTypeOK, PoolThreads

LEMMA SameStatus ==
    ASSUME NEW k \in Tasks, SameTask(k), PoolThreads \subseteq Threads, PoolThreads' \subseteq Threads,
           \A t \in Threads : HasResult(t, k) \/ Queued(t, k) => (t \in PoolThreads' <=> t \in PoolThreads)
    PROVE  StatusOf(k)' = StatusOf(k)
  <1>1. (\E t \in PoolThreads' : HasResult(t, k)') <=> \E t \in PoolThreads : HasResult(t, k)
    BY DEF SameTask
  <1>2. (\E t \in Threads : Running(t, k)') <=> \E t \in Threads : Running(t, k)
    BY DEF SameTask
  <1>3. (\E t \in PoolThreads' : Queued(t, k)') <=> \E t \in PoolThreads : Queued(t, k)
    BY DEF SameTask
  <1>4. (\E t \in Threads \ PoolThreads' : HasResult(t, k)' \/ Queued(t, k)')
        <=> \E t \in Threads \ PoolThreads : HasResult(t, k) \/ Queued(t, k)
    BY DEF SameTask
  <1>. QED BY <1>1, <1>2, <1>3, <1>4 DEF StatusOf, SameTask

\* A task that runs is in the queue of a thread of the pool, and has no answer.
LEMMA RunsInPool ==
    ASSUME JInv, NEW t \in Threads, NEW k \in Tasks, Running(t, k)
    PROVE  Queued(t, k) /\ t \in PoolThreads /\ ~Answered(k)
  <1>1. m_TaskQueue[t] # <<>> /\ Head(m_TaskQueue[t]) = k /\ m_TaskQueue \in [Threads -> Seq(Tasks)]
    BY DEF JInv, IInv, RunningIsHead, Running, TypeOK, QueueTypeOK
  <1>2. Queued(t, k)
    BY <1>1, TailPlaces DEF Queued
  <1>3. t \in PoolThreads
    BY DEF JInv, ListsOK, Ended, Running
  <1>. QED BY <1>2, <1>3 DEF JInv, OnePlace, Waits

\* One task has moved, all the others are where they were.
LEMMA BoardMoves ==
    ASSUME NEW k \in Tasks, NEW from, NEW to, StatusOf(k) = from, StatusOf(k)' = to,
           \A j \in Tasks \ {k} : StatusOf(j)' = StatusOf(j)
    PROVE  Board!Move(k, from, to)
  <1>. DEFINE s == [j \in Tasks |-> StatusOf(j)]
              u == [j \in Tasks |-> StatusOf(j)']
  <1>1. s[k] = from
    OBVIOUS
  <1>2. u = [s EXCEPT ![k] = to]
    OBVIOUS
  <1>. QED BY <1>1, <1>2 DEF Board!Move

LEMMA BoardStutters ==
    ASSUME \A k \in Tasks : StatusOf(k)' = StatusOf(k)
    PROVE  UNCHANGED [k \in Tasks |-> StatusOf(k)]
  OBVIOUS

-----------------------------------------------------------------------------
\* AddTask puts a new task into a queue of the pool.
LEMMA AppendQueues ==
    ASSUME JInv, JInv', ConstantsAssumption, NEW a \in Actors, AddAppend(a)
    PROVE  \E k \in Tasks : Board!Queue(k)
  <1>. USE DEF JInv, IInv
  <1>1. /\ pc[a] = "addAppend" /\ tgt[a] \in PoolThreads /\ tgt[a] \in Threads /\ arg[a] \in Tasks
        /\ UNCHANGED <<m_Threads, m_ResultQueue, wpc, cur, collected>>
    BY PoolThreadsType DEF AddAppend, Scanning, AdderOK, LocalsOK, HoldsTask, HoldsThread, poolVars, runVars, historyVars
  <1>0. PICK k \in Tasks, q \in Threads : k = arg[a] /\ q = tgt[a]
    BY <1>1
  <1>2. Carries(a, k)
    BY <1>1, <1>0 DEF Carries
  <1>3. ~Waits(k) /\ ~Answered(k)
    BY <1>1, <1>2 DEF OnePlace
  <1>4. PoolThreads' = PoolThreads /\ PoolThreads \subseteq Threads
    BY <1>1, PoolThreadsType DEF PoolThreads
  <1>5. StatusOf(k) = "new"
    <2>1. \A t \in Threads : ~Running(t, k) /\ ~HasResult(t, k) /\ ~Queued(t, k)
      BY <1>1, <1>3, RunsInPool DEF Waits, Answered
    <2>. QED BY <1>3, <1>4, <2>1 DEF StatusOf, Answered
  <1>6. /\ ToSet(m_TaskQueue'[q]) = ToSet(m_TaskQueue[q]) \cup {k}
        /\ \A t \in Threads \ {q} : m_TaskQueue'[t] = m_TaskQueue[t]
    <2>1. m_TaskQueue \in [Threads -> Seq(Tasks)] /\ m_TaskQueue' = [m_TaskQueue EXCEPT ![q] = Append(@, k)]
      BY <1>0 DEF AddAppend, TypeOK, QueueTypeOK
    <2>2. m_TaskQueue'[q] = Append(m_TaskQueue[q], k) /\ m_TaskQueue[q] \in Seq(Tasks)
      BY <1>1, <2>1
    <2>. QED BY <1>1, <2>1, <2>2, AppendPlaces
  <1>7. \A j \in Tasks : \A t \in Threads : (Running(t, j)' <=> Running(t, j)) /\ (HasResult(t, j)' <=> HasResult(t, j))
    BY <1>1 DEF Running, HasResult
  <1>8. Queued(q, k)'
    BY <1>6 DEF Queued
  <1>9. StatusOf(k)' = "queued"
    <2>1. \A t \in Threads : ~Running(t, k)' /\ ~HasResult(t, k)'
      BY <1>1, <1>3, <1>7, RunsInPool DEF Waits, Answered
    <2>2. collected'[k] = NoResult
      BY <1>1, <1>3 DEF Answered
    <2>3. q \in PoolThreads'
      BY <1>1, <1>4, <1>0
    <2>. QED BY <1>4, <1>8, <2>1, <2>2, <2>3 DEF StatusOf
  <1>10. ASSUME NEW j \in Tasks \ {k} PROVE StatusOf(j)' = StatusOf(j)
    <2>1. SameTask(j)
      BY <1>1, <1>6, <1>7 DEF SameTask, Queued
    <2>. QED BY <1>4, <2>1, SameStatus
  <1>. QED BY <1>5, <1>9, <1>10, BoardMoves DEF Board!Queue

\* A worker takes a task that is queued in the pool.
LEMMA InvokeStarts ==
    ASSUME JInv, JInv', ConstantsAssumption, NEW t \in Threads, RunInvoke(t)
    PROVE  \E k \in Tasks : Board!Start(k)
  <1>. USE DEF JInv, IInv
  <1>0. m_TaskQueue \in [Threads -> Seq(Tasks)] /\ cur \in [Threads -> Tasks \cup {None}] /\ wpc \in [Threads -> WorkerPcs]
    BY DEF TypeOK, QueueTypeOK, RunTypeOK
  <1>1. /\ m_TaskQueue[t] # <<>> /\ wpc[t] = "drain" /\ wpc'[t] = "invoke" /\ cur'[t] = Head(m_TaskQueue[t])
        /\ UNCHANGED <<m_Threads, m_TaskQueue, m_ResultQueue, collected>>
        /\ \A u \in Threads \ {t} : wpc'[u] = wpc[u] /\ cur'[u] = cur[u]
    BY <1>0 DEF RunInvoke, RunGoto, poolVars, queueVars
  <1>2. PICK k \in Tasks : k = Head(m_TaskQueue[t])
    BY <1>0, <1>1
  <1>3. Queued(t, k) /\ 1 \in 1 .. Len(m_TaskQueue[t]) /\ m_TaskQueue[t][1] = k
    BY <1>0, <1>1, <1>2, TailPlaces DEF Queued
  <1>4. ~Answered(k)
    BY <1>3 DEF OnePlace, Waits
  <1>5. t \in PoolThreads /\ PoolThreads' = PoolThreads /\ PoolThreads \subseteq Threads
    BY <1>1, PoolThreadsType DEF PoolThreads, ListsOK, Ended
  <1>6. ASSUME NEW u \in Threads, Running(u, k) PROVE FALSE
    <2>1. u # t
      BY <1>1, <1>6 DEF Running
    <2>2. m_TaskQueue[u] # <<>> /\ Head(m_TaskQueue[u]) = k
      BY <1>6 DEF Running, RunningIsHead
    <2>3. 1 \in 1 .. Len(m_TaskQueue[u]) /\ m_TaskQueue[u][1] = k
      BY <1>0, <2>2, TailPlaces
    <2>. QED BY <1>3, <2>1, <2>3 DEF OnePlace
  <1>7. StatusOf(k) = "queued"
    BY <1>3, <1>4, <1>5, <1>6 DEF StatusOf, Answered
  <1>8. StatusOf(k)' = "running"
    <2>1. Running(t, k)'
      BY <1>1, <1>2 DEF Running
    <2>2. collected'[k] = NoResult /\ \A u \in Threads : ~HasResult(u, k)'
      BY <1>1, <1>4 DEF Answered, HasResult
    <2>. QED BY <1>5, <2>1, <2>2 DEF StatusOf
  <1>9. ASSUME NEW j \in Tasks \ {k} PROVE StatusOf(j)' = StatusOf(j)
    <2>1. SameTask(j)
      BY <1>1, <1>2 DEF SameTask, Running, Queued, HasResult
    <2>. QED BY <1>5, <2>1, SameStatus
  <1>. QED BY <1>7, <1>8, <1>9, BoardMoves DEF Board!Start

\* It keeps the result of the task it has run, which was the head.
LEMMA FinishFinishes ==
    ASSUME JInv, JInv', ConstantsAssumption, NEW t \in Threads, RunFinish(t)
    PROVE  \E k \in Tasks : Board!Finish(k)
  <1>. USE DEF JInv, IInv
  <1>0. m_TaskQueue \in [Threads -> Seq(Tasks)] /\ cur \in [Threads -> Tasks \cup {None}] /\ wpc \in [Threads -> WorkerPcs]
        /\ m_ResultQueue \in [Threads -> SUBSET (Tasks \X ResultCodes)]
    BY DEF TypeOK, QueueTypeOK, RunTypeOK
  <1>1. /\ wpc[t] = "relock" /\ wpc'[t] = "drain"
        /\ m_ResultQueue'[t] = m_ResultQueue[t] \cup {<<cur[t], ret[t]>>}
        /\ m_TaskQueue[t] # <<>> /\ Head(m_TaskQueue[t]) = cur[t] /\ m_TaskQueue'[t] = Tail(m_TaskQueue[t])
    BY <1>0 DEF RunFinish, RunGoto, RunningIsHead
  <1>2. /\ UNCHANGED <<m_Threads, collected>>
        /\ \A u \in Threads \ {t} : /\ wpc'[u] = wpc[u] /\ cur'[u] = cur[u]
                                    /\ m_TaskQueue'[u] = m_TaskQueue[u] /\ m_ResultQueue'[u] = m_ResultQueue[u]
    BY RunFrame DEF Run, poolVars
  <1>3. PICK k \in Tasks : k = cur[t]
    BY <1>0, <1>1
  <1>4. Running(t, k)
    BY <1>1, <1>3 DEF Running
  <1>5. t \in PoolThreads /\ ~Answered(k) /\ PoolThreads' = PoolThreads /\ PoolThreads \subseteq Threads
    BY <1>2, <1>4, RunsInPool, PoolThreadsType DEF PoolThreads
  <1>6. StatusOf(k) = "running"
    BY <1>4, <1>5 DEF StatusOf, Answered
  <1>7. StatusOf(k)' = "finished"
    <2>1. <<k, ret[t]>> \in m_ResultQueue'[t] /\ <<k, ret[t]>>[1] = k
      BY <1>1, <1>3
    <2>2. HasResult(t, k)'
      BY <2>1 DEF HasResult
    <2>3. collected'[k] = NoResult
      BY <1>2, <1>5 DEF Answered
    <2>. QED BY <1>5, <2>2, <2>3 DEF StatusOf
  <1>8. ASSUME NEW j \in Tasks \ {k} PROVE StatusOf(j)' = StatusOf(j)
    <2>1. ~Running(t, j)' /\ ~Running(t, j)
      BY <1>1, <1>3 DEF Running
    <2>2. HasResult(t, j)' <=> HasResult(t, j)
      <3>1. ASSUME NEW r \in m_ResultQueue'[t], r[1] = j PROVE r \in m_ResultQueue[t]
        <4>1. r # <<k, ret[t]>>
          BY <3>1
        <4>. QED BY <1>1, <1>3, <4>1
      <3>2. m_ResultQueue[t] \subseteq m_ResultQueue'[t]
        BY <1>1
      <3>. QED BY <3>1, <3>2 DEF HasResult
    <2>3. Queued(t, j)' <=> Queued(t, j)
      <3>1. /\ \A x \in ToSet(Tail(m_TaskQueue[t])) : x \in ToSet(m_TaskQueue[t])
            /\ \A x \in ToSet(m_TaskQueue[t]) : x # Head(m_TaskQueue[t]) => x \in ToSet(Tail(m_TaskQueue[t]))
        BY <1>0, <1>1, TailPlaces
      <3>. QED BY <1>1, <1>3, <3>1 DEF Queued
    <2>4. SameTask(j)
      BY <1>2, <2>1, <2>2, <2>3 DEF SameTask, Running, Queued, HasResult
    <2>. QED BY <1>5, <2>4, SameStatus
  <1>. QED BY <1>6, <1>7, <1>8, BoardMoves DEF Board!Finish

\* GetTaskResultAndRemove hands out the result of a task of the pool that has finished.
LEMMA ScanCollects ==
    ASSUME JInv, JInv', ConstantsAssumption, NEW a \in Actors, GetScan(a)
    PROVE  (\E k \in Tasks : Board!Collect(k)) \/ UNCHANGED [k \in Tasks |-> StatusOf(k)]
  <1>. USE DEF JInv, IInv
  <1>1. UNCHANGED <<m_Threads, m_TaskQueue, wpc, cur>>
    BY DEF GetScan, poolVars, runVars
  <1>2. PoolThreads' = PoolThreads /\ PoolThreads \subseteq Threads
    BY <1>1, PoolThreadsType DEF PoolThreads
  <1>3. CASE UNCHANGED <<m_ResultQueue, collected>>
    <2>1. \A k \in Tasks : SameTask(k)
      BY <1>1, <1>3 DEF SameTask, Running, Queued, HasResult
    <2>2. \A k \in Tasks : StatusOf(k)' = StatusOf(k)
      BY <1>2, <2>1, SameStatus
    <2>. QED BY <2>2, BoardStutters
  <1>4. CASE ~UNCHANGED <<m_ResultQueue, collected>>
    <2>1. PICK k \in Tasks, u \in Threads :
            /\ u \in PoolThreads /\ HasResult(u, k) /\ collected'[k] # NoResult
            /\ \A j \in Tasks \ {k} : collected'[j] = collected[j]
            /\ \A t \in Threads : \A j \in Tasks \ {k} : HasResult(t, j)' <=> HasResult(t, j)
      BY <1>4, GetScanAnswers
    <2>2. ASSUME NEW j \in Tasks \ {k} PROVE StatusOf(j)' = StatusOf(j)
      <3>1. SameTask(j)
        BY <1>1, <2>1 DEF SameTask, Running, Queued
      <3>. QED BY <1>2, <3>1, SameStatus
    <2>3. StatusOf(k)' = "collected"
      BY <2>1 DEF StatusOf
    <2>4. CASE collected[k] = NoResult
      <3>1. StatusOf(k) = "finished"
        BY <2>1, <2>4 DEF StatusOf
      <3>. QED BY <2>2, <2>3, <3>1, BoardMoves DEF Board!Collect
    <2>5. CASE collected[k] # NoResult
      <3>1. StatusOf(k)' = StatusOf(k)
        BY <2>3, <2>5 DEF StatusOf
      <3>2. \A j \in Tasks : StatusOf(j)' = StatusOf(j)
        BY <2>2, <3>1
      <3>. QED BY <3>2, BoardStutters
    <2>. QED BY <2>4, <2>5
  <1>. QED BY <1>3, <1>4

\* A thread released takes with it what waits for it and what nobody asked for.
LEMMA ReleaseLoses ==
    ASSUME JInv, JInv', ConstantsAssumption, NEW a \in Actors, JoinedBack(a)
    PROVE  Board!Lose
  <1>. USE DEF JInv, IInv
  <1>1. UNCHANGED <<queueVars, wpc, cur, collected>>
    BY DEF JoinedBack, runVars, historyVars
  <1>2. \A k \in Tasks : SameTask(k)
    BY <1>1 DEF SameTask, Running, Queued, HasResult, queueVars
  <1>3. PoolThreads \subseteq Threads /\ PoolThreads' \subseteq PoolThreads
    <2>1. CASE op[a] = "JoinAll"
      <3>1. it[a] \in 1 .. Len(m_Threads) /\ m_Threads \in Seq(Threads)
        BY <2>1 DEF JoinedBack, JoinOK, JoinBody, TypeOK, PoolTypeOK, ActorTypeOK
      <3>2. m_Threads' = RemoveAt(m_Threads, it[a])
        BY <2>1 DEF JoinedBack
      <3>. QED BY <3>1, <3>2, RemoveAtElements, PoolThreadsType DEF PoolThreads
    <2>2. CASE op[a] # "JoinAll"
      BY <2>2, PoolThreadsType DEF JoinedBack, PoolThreads
    <2>. QED BY <2>1, <2>2
  <1>4. ASSUME NEW k \in Tasks, StatusOf(k)' # StatusOf(k)
        PROVE  StatusOf(k) \in {"queued", "finished"} /\ StatusOf(k)' = "lost"
    <2>1. /\ collected'[k] # NoResult <=> collected[k] # NoResult
          /\ \A t \in Threads : /\ HasResult(t, k)' <=> HasResult(t, k)
                                /\ Running(t, k)' <=> Running(t, k)
                                /\ Queued(t, k)' <=> Queued(t, k)
      BY <1>2 DEF SameTask
    <2>2. collected[k] = NoResult
      BY <1>4, <2>1 DEF StatusOf
    <2>3. CASE \E t \in PoolThreads : HasResult(t, k)
      <3>1. PICK t \in PoolThreads : HasResult(t, k)
        BY <2>3
      <3>2. StatusOf(k) = "finished"
        BY <2>2, <3>1 DEF StatusOf
      <3>3. Answered(k)
        BY <1>3, <3>1 DEF Answered
      <3>4. \A u \in Threads : ~Queued(u, k)' /\ ~Running(u, k)'
        BY <2>1, <3>3, RunsInPool DEF OnePlace, Waits
      <3>5. ~\E u \in PoolThreads' : HasResult(u, k)'
        BY <1>4, <2>1, <2>2, <3>2 DEF StatusOf
      <3>6. t \in Threads \ PoolThreads' /\ HasResult(t, k)'
        BY <1>3, <2>1, <3>1, <3>5
      <3>. QED BY <1>3, <2>1, <2>2, <3>2, <3>4, <3>5, <3>6 DEF StatusOf
    <2>4. CASE ~\E t \in PoolThreads : HasResult(t, k)
      <3>1. ~\E t \in PoolThreads' : HasResult(t, k)'
        BY <1>3, <2>1, <2>4
      <3>2. \A t \in Threads : ~Running(t, k) /\ ~Running(t, k)'
        BY <1>4, <2>1, <2>2, <2>4, <3>1 DEF StatusOf
      <3>3. CASE \E t \in PoolThreads : Queued(t, k)
        <4>1. PICK t \in PoolThreads : Queued(t, k)
          BY <3>3
        <4>2. StatusOf(k) = "queued"
          BY <2>2, <2>4, <3>2, <3>3 DEF StatusOf
        <4>3. ~\E u \in PoolThreads' : Queued(u, k)'
          BY <1>4, <2>1, <2>2, <3>1, <3>2, <4>2 DEF StatusOf
        <4>4. t \in Threads \ PoolThreads' /\ Queued(t, k)'
          BY <1>3, <2>1, <4>1, <4>3
        <4>. QED BY <2>1, <2>2, <3>1, <3>2, <4>2, <4>3, <4>4 DEF StatusOf
      <3>4. CASE ~\E t \in PoolThreads : Queued(t, k)
        <4>1. ~\E t \in PoolThreads' : Queued(t, k)'
          BY <1>3, <2>1, <3>4
        <4>2. (\E t \in Threads \ PoolThreads' : HasResult(t, k)' \/ Queued(t, k)')
              <=> \E t \in Threads \ PoolThreads : HasResult(t, k) \/ Queued(t, k)
          BY <1>3, <2>1, <2>4, <3>4
        <4>. QED BY <1>4, <2>1, <2>2, <2>4, <3>1, <3>2, <3>4, <4>1, <4>2 DEF StatusOf
      <3>. QED BY <3>3, <3>4
    <2>. QED BY <2>3, <2>4
  <1>. DEFINE s == [k \in Tasks |-> StatusOf(k)]
              u == [k \in Tasks |-> StatusOf(k)']
              gone == {k \in Tasks : StatusOf(k)' # StatusOf(k)}
  <1>5. gone \in SUBSET {k \in Tasks : s[k] \in {"queued", "finished"}}
    BY <1>4
  <1>6. u = [k \in Tasks |-> IF k \in gone THEN "lost" ELSE s[k]]
    BY <1>4
  <1>. QED BY <1>5, <1>6 DEF Board!Lose

-----------------------------------------------------------------------------
\* All the other steps of the operations leave every task where it is.
LEMMA OthersStutter ==
    ASSUME JInv, JInv', ConstantsAssumption, NEW a \in Actors, Calling(a) \/ Operation(a),
           ~AddAppend(a), ~GetScan(a), ~JoinedBack(a)
    PROVE  UNCHANGED [k \in Tasks |-> StatusOf(k)]
  <1>. USE DEF JInv, IInv
  <1>1. UNCHANGED queueVars /\ UNCHANGED collected
    BY ActorFrame DEF CallAddTask, historyVars
  <1>2. \A t \in Threads : \A k \in Tasks : Running(t, k)' <=> Running(t, k)
    BY OnceActor
  <1>3. \A k \in Tasks : SameTask(k)
    BY <1>1, <1>2 DEF SameTask, Queued, HasResult, queueVars
  <1>4. PoolThreads \subseteq Threads /\ PoolThreads' \subseteq Threads
    <2>1. m_Threads \in Seq(Threads) /\ m_Threads' \in Seq(Threads)
      BY DEF TypeOK, PoolTypeOK
    <2>. QED BY <2>1, Elements DEF PoolThreads
  <1>5. CASE AddGrow(a) \/ AddGrowThrows(a)
    <2>1. PICK n \in Nat, b \in BOOLEAN : n > 0 /\ AppendThreads(n, b)
      BY <1>5, PoolGrowth
    <2>2. /\ PoolThreads \subseteq PoolThreads'
          /\ \A t \in PoolThreads' : t \in PoolThreads \/ created < t
      BY <2>1, AppendedThreads
    <2>3. ASSUME NEW k \in Tasks, NEW t \in Threads, HasResult(t, k) \/ Queued(t, k)
          PROVE  ~(created < t)
      <3>1. SUFFICES ASSUME t > created PROVE FALSE
        BY DEF TypeOK, PoolTypeOK, Threads, ConstantsAssumption
      <3>2. m_TaskQueue[t] = <<>> /\ m_ResultQueue[t] = {}
        BY <3>1 DEF ListsOK
      <3>3. ToSet(m_TaskQueue[t]) = {}
        BY <3>2 DEF ToSet
      <3>. QED BY <2>3, <3>2, <3>3 DEF HasResult, Queued
    <2>4. \A k \in Tasks : StatusOf(k)' = StatusOf(k)
      BY <1>3, <1>4, <2>2, <2>3, SameStatus
    <2>. QED BY <2>4, BoardStutters
  <1>6. CASE ~AddGrow(a) /\ ~AddGrowThrows(a)
    <2>1. PoolThreads' = PoolThreads
      BY <1>6, ActorFrame DEF StopAll, ThreadStopAll, SetStop, PthreadJoin, Unlist, poolVars, PoolThreads
    <2>2. \A k \in Tasks : StatusOf(k)' = StatusOf(k)
      BY <1>3, <1>4, <2>1, SameStatus
    <2>. QED BY <2>2, BoardStutters
  <1>. QED BY <1>5, <1>6

LEMMA WorkersStutter ==
    ASSUME JInv, JInv', ConstantsAssumption, NEW t \in Threads, Run(t), ~RunInvoke(t), ~RunFinish(t)
    PROVE  UNCHANGED [k \in Tasks |-> StatusOf(k)]
  <1>. USE DEF JInv, IInv
  <1>1. UNCHANGED <<m_Threads, collected>> /\ \A u \in Threads \ {t} : wpc'[u] = wpc[u]
    BY RunFrame DEF poolVars
  <1>2. UNCHANGED <<m_TaskQueue, m_ResultQueue, cur>> /\ (wpc'[t] \in {"invoke", "relock"} <=> wpc[t] \in {"invoke", "relock"})
    <2>. USE DEF RunGoto, queueVars, TypeOK, RunTypeOK
    <2>1. CASE RunCheck(t) \/ RunLock(t) \/ RunReturn(t) \/ RunSetResultCode(t)
      BY <2>1 DEF RunCheck, RunLock, RunReturn, RunSetResultCode
    <2>2. CASE RunSleep(t) \/ RunSleepThrows(t) \/ RunTimeout(t)
      BY <2>2 DEF RunSleep, RunSleepThrows, RunTimeout
    <2>3. CASE RunReacquire(t) \/ RunUnlock(t) \/ RunEnd(t)
      BY <2>3 DEF RunReacquire, RunUnlock, RunEnd
    <2>. QED BY <2>1, <2>2, <2>3 DEF Run
  <1>3. \A k \in Tasks : SameTask(k)
    BY <1>1, <1>2 DEF SameTask, Running, Queued, HasResult
  <1>4. PoolThreads' = PoolThreads /\ PoolThreads \subseteq Threads
    BY <1>1, PoolThreadsType DEF PoolThreads
  <1>5. \A k \in Tasks : StatusOf(k)' = StatusOf(k)
    BY <1>3, <1>4, SameStatus
  <1>. QED BY <1>5, BoardStutters

LEMMA BoardStep ==
    ASSUME JInv, JInv', [Next]_vars, ConstantsAssumption
    PROVE  Board!BoardNext \/ UNCHANGED [k \in Tasks |-> StatusOf(k)]
  <1>1. ASSUME NEW a \in Actors, Calling(a) \/ Operation(a)
        PROVE  Board!BoardNext \/ UNCHANGED [k \in Tasks |-> StatusOf(k)]
    <2>1. CASE AddAppend(a) BY <2>1, AppendQueues, ConstantsAssumption DEF Board!BoardNext
    <2>2. CASE GetScan(a) BY <2>2, ScanCollects, ConstantsAssumption DEF Board!BoardNext
    <2>3. CASE JoinedBack(a) BY <2>3, ReleaseLoses, ConstantsAssumption DEF Board!BoardNext
    <2>. QED BY <1>1, <2>1, <2>2, <2>3, OthersStutter
  <1>2. ASSUME NEW t \in Threads, Run(t)
        PROVE  Board!BoardNext \/ UNCHANGED [k \in Tasks |-> StatusOf(k)]
    <2>1. CASE RunInvoke(t) BY <2>1, InvokeStarts, ConstantsAssumption DEF Board!BoardNext
    <2>2. CASE RunFinish(t) BY <2>2, FinishFinishes, ConstantsAssumption DEF Board!BoardNext
    <2>. QED BY <1>2, <2>1, <2>2, WorkersStutter
  <1>3. CASE UNCHANGED vars
    BY <1>3 DEF vars, poolVars, queueVars, runVars, historyVars, StatusOf, PoolThreads, HasResult, Running, Queued
  <1>. QED BY <1>1, <1>2, <1>3 DEF Next

\* CThreadPool implements the board: a task given to it is queued, runs once, and its
\* result is handed out once; only a thread that leaves the pool loses tasks.
THEOREM PoolKeepsPromise == Spec => KeepsPromise
  <1>1. Init => Board!BoardInit
    <2>1. ASSUME Init, NEW k \in Tasks PROVE StatusOf(k) = "new"
      <3>1. \A t \in Threads : m_TaskQueue[t] = <<>> /\ m_ResultQueue[t] = {} /\ wpc[t] \in {"none", "check"}
        BY <2>1 DEF Init
      <3>2. \A t \in Threads : ToSet(m_TaskQueue[t]) = {}
        BY <3>1 DEF ToSet
      <3>3. \A t \in Threads : ~HasResult(t, k) /\ ~Running(t, k) /\ ~Queued(t, k)
        BY <3>1, <3>2 DEF HasResult, Running, Queued
      <3>4. PoolThreads \subseteq Threads
        BY <2>1, InitOK, PoolThreadsType, ConstantsAssumption DEF IInv
      <3>5. collected[k] = NoResult
        BY <2>1 DEF Init
      <3>. QED BY <3>3, <3>4, <3>5 DEF StatusOf
    <2>. QED BY <2>1 DEF Board!BoardInit
  <1>2. JInv /\ JInv' /\ [Next]_vars => [Board!BoardNext]_([k \in Tasks |-> StatusOf(k)])
    BY BoardStep, ConstantsAssumption
  <1>. QED BY <1>1, <1>2, TaskInvariance, PTL DEF Spec, KeepsPromise, Board!BoardSpec
=============================================================================
