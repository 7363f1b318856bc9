----------------------------- MODULE ThreadPool -----------------------------
(***************************************************************************)
(* CThreadPool, CPooledThread and the part of CThread they use             *)
(* (WinSources/Thread.cpp, OK_SYS_UNIX branches) on top of CScopedLock and *)
(* CConditionVariable.  One action per step between two points at which    *)
(* another thread can get in: a lock is taken, a lock is given back, or    *)
(* the thread blocks.                                                      *)
(*                                                                         *)
(* gMutex is the process-wide recursive lock CThread::locker() that every  *)
(* CScopedLock takes.  A pool operation keeps it from entry to exit, so    *)
(* the nested CScopedLocks of Start, Stop and MoreThreads never block and  *)
(* are part of the step that runs them.                                    *)
(***************************************************************************)
EXTENDS Naturals, Sequences, FiniteSets, SequencesExt

CONSTANTS
    Clients,         \* threads of the program that use the pool
    Tasks,           \* CAbstractThreadCallback objects; each is added at most once
    ResultCodes,     \* what invoke() may return
    NoResult,        \* E_NORESULT
    None,            \* no thread, no task
    MaxThreads,      \* bound: CPooledThread objects ever created
    MaxStartFailures,\* bound: failing pthread_create calls
    m_Min, m_Exp, m_Max,
    QuickResponse,   \* m_Strategy # 0
    Allowed,         \* Allowed[a]: the pool operations actor a may call
    NanosPerSecond,  \* scaled down from 1000000000
    SleepNanos,      \* the 100 ms of sleep(100) on the same scale
    ClockReadings    \* the tv_nsec values clock_gettime may deliver

Threads == 1 .. MaxThreads
\* a running task is an actor too: the thread that runs it may add a task
Actors == Clients \cup Threads

PoolOps == {"AddTask", "GetResult", "Wait", "StopAll", "JoinAll", "ThreadStopAll", "ThreadJoinAll"}
JoinOps == {"JoinAll", "ThreadJoinAll"}

\* MoreThreads: the size the pool should have; 0 where it returns false at once
GrowTarget(cnt) ==
    IF cnt < m_Min THEN m_Min
    ELSE IF m_Exp = 0 THEN m_Max
    ELSE IF m_Max # 0 /\ cnt + m_Exp > m_Max THEN m_Max
    ELSE cnt + m_Exp

\* the constructor calls MoreThreads once
StartSize == GrowTarget(0)

ASSUME ConstantsAssumption ==
    /\ Clients \cap Nat = {}
    /\ None \notin Clients \cup Nat \cup Tasks
    /\ NoResult \notin ResultCodes
    /\ MaxThreads \in Nat
    /\ MaxStartFailures \in Nat
    /\ m_Min \in Nat
    /\ m_Exp \in Nat
    /\ m_Max \in Nat
    /\ StartSize <= MaxThreads
    /\ QuickResponse \in BOOLEAN
    /\ NanosPerSecond \in Nat
    /\ SleepNanos \in Nat
    /\ ClockReadings \subseteq 0 .. (NanosPerSecond - 1)
    /\ Allowed \in [Actors -> SUBSET PoolOps]
    \* a task only adds tasks; the pool is shut down from one place
    /\ \A t \in Threads : Allowed[t] \subseteq {"AddTask"}
    /\ \A a, b \in Actors : (Allowed[a] \cap JoinOps # {} /\ Allowed[b] \cap JoinOps # {}) => a = b

VARIABLES
    gMutex,      \* the actor inside a CScopedLock, or None
    m_Threads,   \* the pool's list of threads
    gThreadList, \* every thread started and not yet joined
    created,     \* threads 1 .. created exist
    failures,    \* failed starts so far
    m_bStarted, m_bStop, m_bResultCode,   \* per thread
    m_TaskQueue, \* per thread: callbacks, the running one at the head
    m_ResultQueue,\* per thread: finished callbacks with their result
    m_lock,      \* per thread: TRUE while the thread itself holds m_condition
    wpc,         \* per thread: where Run is
    cur, ret,    \* per thread: pCallback and result.result of Run
    op, pc,      \* per actor: the pool operation it is in and where
    it, tgt, arg,\* per actor: loop position, the chosen thread, the callback
    minCnt,      \* per actor: AddTask's minCnt; UINT_MAX while tgt is None
    submitted,   \* tasks an actor has called AddTask with
    runs,        \* per task: invocations so far
    collected    \* per task: the result a caller of GetTaskResultAndRemove got

poolVars == <<m_Threads, gThreadList, created, failures>>
threadVars == <<m_bStarted, m_bStop, m_bResultCode>>
queueVars == <<m_TaskQueue, m_ResultQueue>>
runVars == <<m_lock, wpc, cur, ret>>
actorVars == <<op, pc, it, tgt, arg, minCnt>>
historyVars == <<submitted, runs, collected>>
vars == <<gMutex, poolVars, threadVars, queueVars, runVars, actorVars, historyVars>>

WorkerPcs == {"none", "check", "lock", "drain", "invoke", "relock", "asleep",
              "reacquire", "awake", "exit", "leaving", "done"}
ActorPcs == {"idle", "addLock", "addScan", "addLeast", "addAppend", "addWake",
             "getLock", "getScan", "waitLock", "waitScan", "waitSleep",
             "joinLock", "joinNext", "joinTest", "joinSelect", "pthreadJoin",
             "unlist", "joinedBack", "timedOutBack"}

-----------------------------------------------------------------------------
(* MoreThreads starts the missing threads.                                 *)

CanGrow == GrowTarget(Len(m_Threads)) > Len(m_Threads)

\* n new threads are appended to m_Threads and started; started ones run
\* from "check" and are entered into gThreadList.  When the last start fails
\* its thread stays in the pool without ever running.
AppendThreads(n, lastFails) ==
    LET new == [i \in 1 .. n |-> created + i]
        ok == IF lastFails THEN n - 1 ELSE n
        running == (created + 1) .. (created + ok)
    IN  /\ created + n <= MaxThreads
        /\ created' = created + n
        /\ m_Threads' = m_Threads \o new
        /\ gThreadList' = gThreadList \o SubSeq(new, 1, ok)
        /\ m_bStarted' = [t \in Threads |-> m_bStarted[t] \/ t \in running]
        /\ wpc' = [t \in Threads |-> IF t \in running THEN "check" ELSE wpc[t]]
        /\ UNCHANGED <<m_bStop, m_bResultCode, m_lock, cur, ret>>

Init ==
    /\ gMutex = None
    /\ created = StartSize /\ failures = 0
    /\ m_Threads = [i \in 1 .. StartSize |-> i]
    /\ gThreadList = m_Threads
    /\ m_bStarted = [t \in Threads |-> t <= StartSize]
    /\ m_bStop = [t \in Threads |-> FALSE]
    /\ m_bResultCode = [t \in Threads |-> FALSE]
    /\ m_TaskQueue = [t \in Threads |-> <<>>]
    /\ m_ResultQueue = [t \in Threads |-> {}]
    /\ m_lock = [t \in Threads |-> FALSE]
    /\ wpc = [t \in Threads |-> IF t <= StartSize THEN "check" ELSE "none"]
    /\ cur = [t \in Threads |-> None]
    /\ ret = [t \in Threads |-> NoResult]
    /\ op = [a \in Actors |-> "none"]
    /\ pc = [a \in Actors |-> "idle"]
    /\ it = [a \in Actors |-> 1]
    /\ tgt = [a \in Actors |-> None]
    /\ arg = [a \in Actors |-> None]
    /\ minCnt = [a \in Actors |-> 0]
    /\ submitted = {}
    /\ runs = [k \in Tasks |-> 0]
    /\ collected = [k \in Tasks |-> NoResult]

-----------------------------------------------------------------------------
(* CThreadPool operations, as seen by the actor a that calls them.         *)

\* a task may call the pool only while the worker is inside invoke()
MayCall(a) == pc[a] = "idle" /\ (a \in Threads => wpc[a] = "invoke")

Begin(a, o, first) ==
    /\ MayCall(a) /\ o \in Allowed[a]
    /\ op' = [op EXCEPT ![a] = o]
    /\ pc' = [pc EXCEPT ![a] = first]

Goto(a, label) == pc' = [pc EXCEPT ![a] = label] /\ UNCHANGED op

\* the operation returns or throws: gMutex is given back, the locals are gone
Leave(a) ==
    /\ gMutex' = None
    /\ pc' = [pc EXCEPT ![a] = "idle"]
    /\ op' = [op EXCEPT ![a] = "none"]
    /\ it' = [it EXCEPT ![a] = 1]
    /\ tgt' = [tgt EXCEPT ![a] = None]
    /\ arg' = [arg EXCEPT ![a] = None]
    /\ minCnt' = [minCnt EXCEPT ![a] = 0]

\* CScopedLock at the start of an operation
Enter(a, from, to) ==
    /\ pc[a] = from /\ gMutex = None
    /\ gMutex' = a
    /\ Goto(a, to)
    /\ UNCHANGED <<poolVars, threadVars, queueVars, runVars, it, tgt, arg, minCnt, historyVars>>

Scanning(a, label) == pc[a] = label /\ gMutex = a
AtEnd(a) == it[a] > Len(m_Threads)
Here(a) == m_Threads[it[a]]
Advance(a) == it' = [it EXCEPT ![a] = it[a] + 1]
\* another thread reaches the queues of t only while t is not in its own
\* critical section
Reachable(t) == ~m_lock[t]
GetTaskCount(t) == Len(m_TaskQueue[t])

CallAddTask(a) ==
    \E k \in Tasks \ submitted :
        /\ Begin(a, "AddTask", "addLock")
        /\ arg' = [arg EXCEPT ![a] = k]
        /\ submitted' = submitted \cup {k}
        /\ UNCHANGED <<gMutex, poolVars, threadVars, queueVars, runVars, it, tgt, minCnt, runs, collected>>

AddLock(a) == Enter(a, "addLock", "addScan")

\* first loop of AddTask: GetTaskCount of one thread after the other
AddScan(a) ==
    /\ Scanning(a, "addScan") /\ ~AtEnd(a) /\ Reachable(Here(a))
    /\ \/ /\ GetTaskCount(Here(a)) = 0
          /\ tgt' = [tgt EXCEPT ![a] = Here(a)]
          /\ Goto(a, "addAppend") /\ UNCHANGED it
       \/ /\ GetTaskCount(Here(a)) # 0
          /\ Advance(a) /\ UNCHANGED <<op, pc, tgt>>
    /\ UNCHANGED <<gMutex, poolVars, threadVars, queueVars, runVars, arg, minCnt, historyVars>>

\* every thread has work and the pool grows: look again from the start
AddGrow(a) ==
    /\ Scanning(a, "addScan") /\ AtEnd(a) /\ QuickResponse /\ CanGrow
    /\ AppendThreads(GrowTarget(Len(m_Threads)) - Len(m_Threads), FALSE)
    /\ it' = [it EXCEPT ![a] = 1]
    /\ UNCHANGED <<gMutex, failures, queueVars, op, pc, tgt, arg, minCnt, historyVars>>

\* pthread_create fails for one of them: CThreadException leaves AddTask
AddGrowThrows(a) ==
    /\ Scanning(a, "addScan") /\ AtEnd(a) /\ QuickResponse /\ CanGrow
    /\ failures < MaxStartFailures
    /\ failures' = failures + 1
    /\ \E n \in 1 .. (GrowTarget(Len(m_Threads)) - Len(m_Threads)) : AppendThreads(n, TRUE)
    /\ Leave(a)
    /\ UNCHANGED <<queueVars, historyVars>>

\* fault: second loop without asking for more threads
AddNoGrow_Early(a) ==
    /\ Scanning(a, "addScan") /\ AtEnd(a)
    /\ it' = [it EXCEPT ![a] = 1]
    /\ Goto(a, "addLeast")
    /\ UNCHANGED <<gMutex, poolVars, threadVars, queueVars, runVars, tgt, arg, minCnt, historyVars>>

\* the pool does not grow: second loop, from the start
AddNoGrow(a) ==
    /\ Scanning(a, "addScan") /\ AtEnd(a) /\ ~(QuickResponse /\ CanGrow)
    /\ it' = [it EXCEPT ![a] = 1]
    /\ Goto(a, "addLeast")
    /\ UNCHANGED <<gMutex, poolVars, threadVars, queueVars, runVars, tgt, arg, minCnt, historyVars>>

\* cnt < minCnt, where minCnt is UINT_MAX while no thread is chosen
AddLeast(a) ==
    /\ Scanning(a, "addLeast") /\ ~AtEnd(a) /\ Reachable(Here(a))
    /\ \/ /\ tgt[a] = None \/ GetTaskCount(Here(a)) < minCnt[a]
          /\ tgt' = [tgt EXCEPT ![a] = Here(a)]
          /\ minCnt' = [minCnt EXCEPT ![a] = GetTaskCount(Here(a))]
       \/ /\ tgt[a] # None /\ GetTaskCount(Here(a)) >= minCnt[a]
          /\ UNCHANGED <<tgt, minCnt>>
    /\ Advance(a)
    /\ UNCHANGED <<gMutex, poolVars, threadVars, queueVars, runVars, op, pc, arg, historyVars>>

AddChosen(a) ==
    /\ Scanning(a, "addLeast") /\ AtEnd(a) /\ tgt[a] # None
    /\ Goto(a, "addAppend")
    /\ UNCHANGED <<gMutex, poolVars, threadVars, queueVars, runVars, it, tgt, arg, minCnt, historyVars>>

\* an empty pool: AddTask returns false, the callback stays the caller's
AddRefused(a) ==
    /\ Scanning(a, "addLeast") /\ AtEnd(a) /\ tgt[a] = None
    /\ Leave(a)
    /\ UNCHANGED <<poolVars, threadVars, queueVars, runVars, historyVars>>

\* fault: the callback is put in front
AddAppend_Front(a) ==
    /\ Scanning(a, "addAppend") /\ Reachable(tgt[a])
    /\ m_TaskQueue' = [m_TaskQueue EXCEPT ![tgt[a]] = <<arg[a]>> \o @]
    /\ Goto(a, "addWake")
    /\ UNCHANGED <<gMutex, poolVars, threadVars, m_ResultQueue, runVars, it, tgt, arg, minCnt, historyVars>>

\* CPooledThread::AddTask: the append under m_condition ...
AddAppend(a) ==
    /\ Scanning(a, "addAppend") /\ Reachable(tgt[a])
    /\ m_TaskQueue' = [m_TaskQueue EXCEPT ![tgt[a]] = Append(@, arg[a])]
    /\ Goto(a, "addWake")
    /\ UNCHANGED <<gMutex, poolVars, threadVars, m_ResultQueue, runVars, it, tgt, arg, minCnt, historyVars>>

\* fault: no signal
AddWake_NoSignal(a) ==
    /\ Scanning(a, "addWake")
    /\ Leave(a)
    /\ UNCHANGED <<poolVars, threadVars, queueVars, runVars, historyVars>>

\* ... and after the unlock the signal, which reaches a thread that sleeps
\* and is lost on any other; then AddTask returns true
AddWake(a) ==
    /\ Scanning(a, "addWake")
    /\ wpc' = IF wpc[tgt[a]] = "asleep" THEN [wpc EXCEPT ![tgt[a]] = "reacquire"] ELSE wpc
    /\ Leave(a)
    /\ UNCHANGED <<poolVars, threadVars, queueVars, m_lock, cur, ret, historyVars>>

CallGetResult(a) ==
    \E k \in submitted :
        /\ Begin(a, "GetResult", "getLock")
        /\ arg' = [arg EXCEPT ![a] = k]
        /\ UNCHANGED <<gMutex, poolVars, threadVars, queueVars, runVars, it, tgt, minCnt, historyVars>>

GetLock(a) == Enter(a, "getLock", "getScan")

\* the first thread with a result for the callback gives it up; a result
\* code equal to E_NORESULT is removed, yet the scan goes on
GetScan(a) ==
    /\ Scanning(a, "getScan") /\ ~AtEnd(a) /\ Reachable(Here(a))
    /\ m_ResultQueue' = [m_ResultQueue EXCEPT ![Here(a)] = {r \in @ : r[1] # arg[a]}]
    /\ \/ \E r \in m_ResultQueue[Here(a)] :
             /\ r[1] = arg[a] /\ r[2] # NoResult
             /\ collected' = [collected EXCEPT ![arg[a]] = r[2]]
             /\ Leave(a)
       \/ /\ \A r \in m_ResultQueue[Here(a)] : r[1] = arg[a] => r[2] = NoResult
          /\ Advance(a) /\ UNCHANGED <<gMutex, op, pc, tgt, arg, minCnt, collected>>
    /\ UNCHANGED <<poolVars, threadVars, m_TaskQueue, runVars, submitted, runs>>

GetNothing(a) ==
    /\ Scanning(a, "getScan") /\ AtEnd(a)
    /\ Leave(a)
    /\ UNCHANGED <<poolVars, threadVars, queueVars, runVars, historyVars>>

\* calls without an argument
CallOp(a, o, first) ==
    /\ Begin(a, o, first)
    /\ UNCHANGED <<gMutex, poolVars, threadVars, queueVars, runVars, it, tgt, arg, minCnt, historyVars>>

CallWait(a) == CallOp(a, "Wait", "waitLock")

WaitLock(a) == Enter(a, "waitLock", "waitScan")

\* one round of WaitForComplete keeps gMutex over the whole scan
WaitScan(a) ==
    /\ Scanning(a, "waitScan") /\ ~AtEnd(a) /\ Reachable(Here(a))
    /\ \/ /\ GetTaskCount(Here(a)) = 0
          /\ Advance(a) /\ UNCHANGED <<gMutex, op, pc>>
       \/ /\ GetTaskCount(Here(a)) # 0
          /\ gMutex' = None
          /\ it' = [it EXCEPT ![a] = 1]
          /\ Goto(a, "waitSleep")
    /\ UNCHANGED <<poolVars, threadVars, queueVars, runVars, tgt, arg, minCnt, historyVars>>

WaitSleep(a) ==
    /\ pc[a] = "waitSleep"
    /\ Goto(a, "waitLock")
    /\ UNCHANGED <<gMutex, poolVars, threadVars, queueVars, runVars, it, tgt, arg, minCnt, historyVars>>

\* fault: the last thread is not looked at
WaitReturn_OneShort(a) ==
    /\ Scanning(a, "waitScan") /\ it[a] >= Len(m_Threads)
    /\ Leave(a)
    /\ UNCHANGED <<poolVars, threadVars, queueVars, runVars, historyVars>>

WaitReturn(a) ==
    /\ Scanning(a, "waitScan") /\ AtEnd(a)
    /\ Leave(a)
    /\ UNCHANGED <<poolVars, threadVars, queueVars, runVars, historyVars>>

\* StopAll of the pool sets m_bStop of its threads, CThread::StopAll of all
\* started threads; neither wakes a sleeping one
SetStop(a, o, stopped) ==
    /\ MayCall(a) /\ o \in Allowed[a] /\ gMutex = None
    /\ m_bStop' = [t \in Threads |-> m_bStop[t] \/ t \in stopped]
    /\ UNCHANGED <<gMutex, poolVars, m_bStarted, m_bResultCode, queueVars, runVars, actorVars, historyVars>>

StopAll(a) == SetStop(a, "StopAll", ToSet(m_Threads))
ThreadStopAll(a) == SetStop(a, "ThreadStopAll", ToSet(gThreadList))

CallJoinAll(a) == CallOp(a, "JoinAll", "joinLock")
CallThreadJoinAll(a) == CallOp(a, "ThreadJoinAll", "joinLock")

JoinLock(a) == Enter(a, "joinLock", "joinNext")

\* the list the loop walks: the pool's from it, or always the first started
JoinList(a) == IF op[a] = "JoinAll" THEN m_Threads ELSE gThreadList

\* gMutex is given back around Join(100)
JoinNext(a) ==
    /\ Scanning(a, "joinNext") /\ it[a] <= Len(JoinList(a))
    /\ tgt' = [tgt EXCEPT ![a] = JoinList(a)[it[a]]]
    /\ gMutex' = None
    /\ Goto(a, "joinTest")
    /\ UNCHANGED <<poolVars, threadVars, queueVars, runVars, it, arg, minCnt, historyVars>>

JoinReturn(a) ==
    /\ Scanning(a, "joinNext") /\ it[a] > Len(JoinList(a))
    /\ Leave(a)
    /\ UNCHANGED <<poolVars, threadVars, queueVars, runVars, historyVars>>

JoinGoto(a, label) ==
    /\ Goto(a, label)
    /\ UNCHANGED <<gMutex, poolVars, threadVars, queueVars, runVars, it, tgt, arg, minCnt, historyVars>>

\* Join(100): a thread never started is at once done with; otherwise
\* m_bResultCode is read under the lock, now ...
JoinTest(a) ==
    /\ pc[a] = "joinTest"
    /\ \/ ~m_bStarted[tgt[a]] /\ JoinGoto(a, "joinedBack")
       \/ /\ m_bStarted[tgt[a]] /\ gMutex = None
          /\ JoinGoto(a, IF m_bResultCode[tgt[a]] THEN "pthreadJoin" ELSE "joinSelect")

\* fault: result keeps the value read before the wait
JoinSelect_OldResult(a) ==
    /\ pc[a] = "joinSelect" /\ gMutex = None
    /\ JoinGoto(a, IF m_bResultCode[tgt[a]] THEN "pthreadJoin" ELSE "unlist")

\* ... and once more after 100 ms in select
JoinSelect(a) ==
    /\ pc[a] = "joinSelect" /\ gMutex = None
    /\ JoinGoto(a, IF m_bResultCode[tgt[a]] THEN "pthreadJoin" ELSE "timedOutBack")

PthreadJoin(a) ==
    /\ pc[a] = "pthreadJoin" /\ wpc[tgt[a]] = "done"
    /\ m_bStarted' = [m_bStarted EXCEPT ![tgt[a]] = FALSE]
    /\ Goto(a, "unlist")
    /\ UNCHANGED <<gMutex, poolVars, m_bStop, m_bResultCode, queueVars, runVars, it, tgt, arg, minCnt, historyVars>>

\* fault: a joined thread stays in gThreadList
Unlist_Nothing(a) == pc[a] = "unlist" /\ gMutex = None /\ JoinGoto(a, "joinedBack")

\* _removeFromThreadGlobalList
Unlist(a) ==
    /\ pc[a] = "unlist" /\ gMutex = None
    /\ \/ \E i \in 1 .. Len(gThreadList) :
              gThreadList[i] = tgt[a] /\ gThreadList' = RemoveAt(gThreadList, i)
       \/ tgt[a] \notin ToSet(gThreadList) /\ UNCHANGED gThreadList
    /\ Goto(a, "joinedBack")
    /\ UNCHANGED <<gMutex, m_Threads, created, failures, threadVars, queueVars, runVars, it, tgt, arg, minCnt, historyVars>>

\* back in the loop: the pool drops a joined thread and starts over
JoinedBack(a) ==
    /\ pc[a] = "joinedBack" /\ gMutex = None
    /\ gMutex' = a
    /\ \/ op[a] = "JoinAll" /\ m_Threads' = RemoveAt(m_Threads, it[a])
       \/ op[a] = "ThreadJoinAll" /\ UNCHANGED m_Threads
    /\ it' = [it EXCEPT ![a] = 1]
    /\ tgt' = [tgt EXCEPT ![a] = None]
    /\ Goto(a, "joinNext")
    /\ UNCHANGED <<gThreadList, created, failures, threadVars, queueVars, runVars, arg, minCnt, historyVars>>

\* fault: CThread::JoinAll too passes over a thread that timed out
TimedOutBack_Skip(a) ==
    /\ pc[a] = "timedOutBack" /\ gMutex = None
    /\ gMutex' = a
    /\ it' = [it EXCEPT ![a] = @ + 1]
    /\ tgt' = [tgt EXCEPT ![a] = None]
    /\ Goto(a, "joinNext")
    /\ UNCHANGED <<poolVars, threadVars, queueVars, runVars, arg, minCnt, historyVars>>

\* the pool goes on to the next thread, CThread::JoinAll back to the first
TimedOutBack(a) ==
    /\ pc[a] = "timedOutBack" /\ gMutex = None
    /\ gMutex' = a
    /\ \/ op[a] = "JoinAll" /\ Advance(a)
       \/ op[a] = "ThreadJoinAll" /\ it' = [it EXCEPT ![a] = 1]
    /\ tgt' = [tgt EXCEPT ![a] = None]
    /\ Goto(a, "joinNext")
    /\ UNCHANGED <<poolVars, threadVars, queueVars, runVars, arg, minCnt, historyVars>>

-----------------------------------------------------------------------------
(* CPooledThread::Run                                                      *)

RunGoto(t, from, to) ==
    /\ wpc[t] = from
    /\ wpc' = [wpc EXCEPT ![t] = to]

\* _checkForStop
RunCheck(t) ==
    /\ gMutex = None
    /\ RunGoto(t, "check", IF m_bStop[t] THEN "exit" ELSE "lock")
    /\ UNCHANGED <<gMutex, poolVars, threadVars, queueVars, m_lock, cur, ret, actorVars, historyVars>>

RunLock(t) ==
    /\ ~m_lock[t]
    /\ RunGoto(t, "lock", "drain")
    /\ m_lock' = [m_lock EXCEPT ![t] = TRUE]
    /\ UNCHANGED <<gMutex, poolVars, threadVars, queueVars, cur, ret, actorVars, historyVars>>

\* the head is invoked without the lock and stays in the queue meanwhile
RunInvoke(t) ==
    /\ m_TaskQueue[t] # <<>>
    /\ RunGoto(t, "drain", "invoke")
    /\ cur' = [cur EXCEPT ![t] = Head(m_TaskQueue[t])]
    /\ runs' = [runs EXCEPT ![Head(m_TaskQueue[t])] = @ + 1]
    /\ m_lock' = [m_lock EXCEPT ![t] = FALSE]
    /\ UNCHANGED <<gMutex, poolVars, threadVars, queueVars, ret, actorVars, submitted, collected>>

\* fault: the catch block leaves result.result as it was
RunReturn_NoCode(t) ==
    /\ pc[t] = "idle"
    /\ RunGoto(t, "invoke", "relock")
    /\ UNCHANGED <<gMutex, poolVars, threadVars, queueVars, m_lock, cur, ret, actorVars, historyVars>>

\* invoke() returns, or throws and is given the code -4
RunReturn(t) ==
    /\ pc[t] = "idle"
    /\ RunGoto(t, "invoke", "relock")
    /\ \E r \in ResultCodes : ret' = [ret EXCEPT ![t] = r]
    /\ UNCHANGED <<gMutex, poolVars, threadVars, queueVars, m_lock, cur, actorVars, historyVars>>

\* fault: the finished callback stays at the head
RunFinish_Keeps(t) ==
    /\ ~m_lock[t]
    /\ RunGoto(t, "relock", "drain")
    /\ m_lock' = [m_lock EXCEPT ![t] = TRUE]
    /\ m_ResultQueue' = [m_ResultQueue EXCEPT ![t] = @ \cup {<<cur[t], ret[t]>>}]
    /\ cur' = [cur EXCEPT ![t] = None]
    /\ ret' = [ret EXCEPT ![t] = NoResult]
    /\ UNCHANGED <<gMutex, poolVars, threadVars, m_TaskQueue, actorVars, historyVars>>

RunFinish(t) ==
    /\ ~m_lock[t]
    /\ RunGoto(t, "relock", "drain")
    /\ m_lock' = [m_lock EXCEPT ![t] = TRUE]
    /\ m_TaskQueue' = [m_TaskQueue EXCEPT ![t] = Tail(@)]
    /\ m_ResultQueue' = [m_ResultQueue EXCEPT ![t] = @ \cup {<<cur[t], ret[t]>>}]
    /\ cur' = [cur EXCEPT ![t] = None]
    /\ ret' = [ret EXCEPT ![t] = NoResult]
    /\ UNCHANGED <<gMutex, poolVars, threadVars, actorVars, historyVars>>

\* CConditionVariable::sleep(100): the nanoseconds of the deadline, carried
\* into the seconds only when they exceed one second
DeadlineNanos(now) ==
    IF now + SleepNanos > NanosPerSecond THEN now + SleepNanos - NanosPerSecond
    ELSE now + SleepNanos

\* pthread_cond_timedwait accepts 0 .. 999999999 and gives the lock back
RunSleep(t) ==
    /\ m_TaskQueue[t] = <<>>
    /\ \E now \in ClockReadings : DeadlineNanos(now) < NanosPerSecond
    /\ RunGoto(t, "drain", "asleep")
    /\ m_lock' = [m_lock EXCEPT ![t] = FALSE]
    /\ UNCHANGED <<gMutex, poolVars, threadVars, queueVars, cur, ret, actorVars, historyVars>>

\* EINVAL: CConditionVariableException leaves Run, the lock is never given back
RunSleepThrows(t) ==
    /\ m_TaskQueue[t] = <<>>
    /\ \E now \in ClockReadings : DeadlineNanos(now) >= NanosPerSecond
    /\ RunGoto(t, "drain", "exit")
    /\ UNCHANGED <<gMutex, poolVars, threadVars, queueVars, m_lock, cur, ret, actorVars, historyVars>>

\* fault: sleep(INFINITE)
RunTimeout_Infinite(t) ==
    /\ m_TaskQueue[t] # <<>>
    /\ RunGoto(t, "asleep", "reacquire")
    /\ UNCHANGED <<gMutex, poolVars, threadVars, queueVars, m_lock, cur, ret, actorVars, historyVars>>

\* ETIMEDOUT
RunTimeout(t) ==
    /\ RunGoto(t, "asleep", "reacquire")
    /\ UNCHANGED <<gMutex, poolVars, threadVars, queueVars, m_lock, cur, ret, actorVars, historyVars>>

RunReacquire(t) ==
    /\ ~m_lock[t]
    /\ RunGoto(t, "reacquire", "awake")
    /\ m_lock' = [m_lock EXCEPT ![t] = TRUE]
    /\ UNCHANGED <<gMutex, poolVars, threadVars, queueVars, cur, ret, actorVars, historyVars>>

RunUnlock(t) ==
    /\ RunGoto(t, "awake", "check")
    /\ m_lock' = [m_lock EXCEPT ![t] = FALSE]
    /\ UNCHANGED <<gMutex, poolVars, threadVars, queueVars, cur, ret, actorVars, historyVars>>

\* CThreadMain: SetResultCode, then pthread_exit
RunSetResultCode(t) ==
    /\ gMutex = None
    /\ RunGoto(t, "exit", "leaving")
    /\ m_bResultCode' = [m_bResultCode EXCEPT ![t] = TRUE]
    /\ UNCHANGED <<gMutex, poolVars, m_bStarted, m_bStop, queueVars, m_lock, cur, ret, actorVars, historyVars>>

RunEnd(t) ==
    /\ RunGoto(t, "leaving", "done")
    /\ UNCHANGED <<gMutex, poolVars, threadVars, queueVars, m_lock, cur, ret, actorVars, historyVars>>

-----------------------------------------------------------------------------
Calling(a) == CallAddTask(a) \/ CallGetResult(a) \/ CallWait(a) \/ StopAll(a)
              \/ ThreadStopAll(a) \/ CallJoinAll(a) \/ CallThreadJoinAll(a)

Adding(a) == AddLock(a) \/ AddScan(a) \/ AddGrow(a) \/ AddGrowThrows(a) \/ AddNoGrow(a)
             \/ AddLeast(a) \/ AddChosen(a) \/ AddRefused(a) \/ AddAppend(a) \/ AddWake(a)

Getting(a) == GetLock(a) \/ GetScan(a) \/ GetNothing(a)

Waiting(a) == WaitLock(a) \/ WaitScan(a) \/ WaitSleep(a) \/ WaitReturn(a)

Joining(a) == JoinLock(a) \/ JoinNext(a) \/ JoinReturn(a) \/ JoinTest(a) \/ JoinSelect(a)
              \/ PthreadJoin(a) \/ Unlist(a) \/ JoinedBack(a) \/ TimedOutBack(a)

\* an operation once called is carried through
Operation(a) == Adding(a) \/ Getting(a) \/ Waiting(a) \/ Joining(a)

Run(t) == RunCheck(t) \/ RunLock(t) \/ RunInvoke(t) \/ RunReturn(t) \/ RunFinish(t)
          \/ RunSleep(t) \/ RunSleepThrows(t) \/ RunTimeout(t) \/ RunReacquire(t)
          \/ RunUnlock(t) \/ RunSetResultCode(t) \/ RunEnd(t)

Next == \/ \E a \in Actors : Calling(a) \/ Operation(a)
        \/ \E t \in Threads : Run(t)

Spec == Init /\ [][Next]_vars

\* Every thread is scheduled, and one that blocks on a lock gets it if the
\* lock keeps coming free: contenders sleep 100 ms between two acquisitions
\* (sleep(100), WaitForComplete, Join(100)).  invoke() returns.
Fairness ==
    /\ \A a \in Actors : SF_vars(Operation(a))
    /\ \A t \in Threads : SF_vars(~(wpc[t] = "asleep") /\ Run(t))

\* sleep(100) also ends by itself
Timeouts == \A t \in Threads : WF_vars(RunTimeout(t))

SignalSpec == Spec /\ Fairness
FairSpec == SignalSpec /\ Timeouts

-----------------------------------------------------------------------------
PoolThreads == ToSet(m_Threads)
HasResult(t, k) == \E r \in m_ResultQueue[t] : r[1] = k
Running(t, k) == wpc[t] \in {"invoke", "relock"} /\ cur[t] = k
Queued(t, k) == k \in ToSet(m_TaskQueue[t])

\* The types of the variables, one part for each group of them.
PoolTypeOK ==
    /\ m_Threads \in Seq(Threads)
    /\ gThreadList \in Seq(Threads)
    /\ created \in 0 .. MaxThreads
    /\ failures \in Nat
    /\ m_bStarted \in [Threads -> BOOLEAN]
    /\ m_bStop \in [Threads -> BOOLEAN]
    /\ m_bResultCode \in [Threads -> BOOLEAN]

QueueTypeOK ==
    /\ m_TaskQueue \in [Threads -> Seq(Tasks)]
    /\ m_ResultQueue \in [Threads -> SUBSET (Tasks \X ResultCodes)]

RunTypeOK ==
    /\ m_lock \in [Threads -> BOOLEAN]
    /\ wpc \in [Threads -> WorkerPcs]
    /\ cur \in [Threads -> Tasks \cup {None}]
    /\ ret \in [Threads -> ResultCodes \cup {NoResult}]

ActorTypeOK ==
    /\ gMutex \in Actors \cup {None}
    /\ op \in [Actors -> PoolOps \cup {"none"}]
    /\ pc \in [Actors -> ActorPcs]
    /\ it \in [Actors -> Nat \ {0}]
    /\ tgt \in [Actors -> Threads \cup {None}]
    /\ arg \in [Actors -> Tasks \cup {None}]
    /\ minCnt \in [Actors -> Nat]

HistoryTypeOK ==
    /\ submitted \in SUBSET Tasks
    /\ runs \in [Tasks -> Nat]
    /\ collected \in [Tasks -> ResultCodes \cup {NoResult}]

\* Every variable has its type.
TypeOK == PoolTypeOK /\ QueueTypeOK /\ RunTypeOK /\ ActorTypeOK /\ HistoryTypeOK

\* A worker that runs a callback without the lock finds exactly that callback
\* when it removes the head afterwards, whatever was appended meanwhile
\* (Run removes m_TaskQueue.Begin(), not the entry it remembered).
RunningIsHead ==
    \A t \in Threads : wpc[t] \in {"invoke", "relock"} =>
        m_TaskQueue[t] # <<>> /\ Head(m_TaskQueue[t]) = cur[t]

\* A callback is invoked once and only once: it has been invoked exactly when
\* it is running, has a result waiting or has had its result collected.
RunsOnce ==
    \A k \in Tasks : runs[k] =
        IF collected[k] # NoResult \/ \E t \in Threads : Running(t, k) \/ HasResult(t, k)
        THEN 1 ELSE 0

\* When WaitForComplete returns, no thread of the pool has a callback queued
\* or running, although each count was read under a lock given back again
\* before the next one was read.
WaitMeansIdle ==
    [][\A a \in Actors : (op[a] = "Wait" /\ op'[a] = "none") =>
          \A t \in PoolThreads : m_TaskQueue[t] = <<>> /\ wpc[t] # "invoke"]_vars

\* JoinAll releases a CPooledThread only after its thread has ended (or was
\* never started): a thread that missed the 100 ms stays in the pool.
ReleasedHasEnded ==
    [][\A t \in PoolThreads : t \notin PoolThreads' => wpc[t] \in {"none", "done"}]_vars

\* When CThread::JoinAll returns, every thread ever started has ended, even
\* those a concurrent AddTask started while it was joining others.
ThreadJoinAllMeansEnded ==
    [][\A a \in Actors : (op[a] = "ThreadJoinAll" /\ op'[a] = "none") =>
          \A t \in Threads : wpc[t] \in {"none", "done"}]_vars

\* With QuickResponse a callback is put behind another one only when the pool
\* has no room to grow, both when that is decided and when it is appended.
BehindOnlyWhenFull ==
    [][\A a \in Actors :
          (pc[a] = "addAppend" /\ pc'[a] = "addWake" /\ op[a] = "AddTask"
             /\ \E t \in Threads : m_TaskQueue[t] # <<>> /\ m_TaskQueue'[t] # m_TaskQueue[t])
          => ~(QuickResponse /\ CanGrow)]_vars

\* Without StopAll every callback handed to a pool that has threads gets its
\* result, although wake() signals after the unlock and Run does not look at
\* m_bCondition: no callback depends on the 100 ms timeout.
TaskGetsResult == \A k \in Tasks :
    (k \in submitted) ~> (collected[k] # NoResult \/ \E t \in Threads : HasResult(t, k))

\* Without StopAll WaitForComplete returns.
WaitReturns ==
    \A a \in {b \in Actors : "Wait" \in Allowed[b]} : (op[a] = "Wait") ~> (op[a] = "none")

\* A stopped thread ends, sleeping or not, though Stop signals nobody.
StopIsNoticed == \A t \in Threads : (m_bStop[t] /\ wpc[t] # "none") ~> (wpc[t] = "done")

\* Once every started thread is stopped and the pool does not grow any more,
\* CThread::JoinAll returns.
ThreadJoinAllReturns == \A a \in Actors :
    (op[a] = "ThreadJoinAll" /\ \A t \in ToSet(gThreadList) : m_bStop[t]) ~> (op[a] = "none")

\* The pool seen from a callback, and the promise it keeps.
StatusOf(k) ==
    IF collected[k] # NoResult THEN "collected"
    ELSE IF \E t \in PoolThreads : HasResult(t, k) THEN "finished"
    ELSE IF \E t \in Threads : Running(t, k) THEN "running"
    ELSE IF \E t \in PoolThreads : Queued(t, k) THEN "queued"
    ELSE IF \E t \in Threads \ PoolThreads : HasResult(t, k) \/ Queued(t, k) THEN "lost"
    ELSE "new"

Board == INSTANCE TaskBoard WITH status <- [k \in Tasks |-> StatusOf(k)]

\* The pool implements TaskBoard.
KeepsPromise == Board!BoardSpec
=============================================================================
