--------------------------- MODULE AsyncIOManager ---------------------------
(***************************************************************************)
(* CAsyncIOManager (WinSources/AsyncIOManager.cpp) with CAsyncFile and     *)
(* CAsyncTCPClient and two programs that use them: the file copy and the   *)
(* TCP client of XTest/Program15.cpp.  The system completes reads and      *)
(* writes; the threads of m_tiocppool take the completions from the port   *)
(* and hand the callback of each operation to m_tworkerpool, where it      *)
(* starts the next operation or ends the conversation.  Both pools are     *)
(* used by what they promise (TaskBoard).                                  *)
(*                                                                         *)
(* A client is one conversation, with one operation under way at a time;   *)
(* its operations are numbered from 1.  Its CAsyncIOData holds the number  *)
(* of the operation a field was written for.  The file copy is a single    *)
(* conversation: reads of input and writes of output take turns.           *)
(***************************************************************************)
EXTENDS Naturals, FiniteSets

CONSTANTS
    Clients,
    IoTasks,     \* the RunTask callbacks, as many as m_tiocppool has threads
    Programs,    \* the programs to look at
    MaxOps,      \* bound: operations of one conversation
    MaxFailures, \* bound: ReadFile, WriteFile, WSARecv and WSASend that fail at once
    None

Ops == 1 .. MaxOps
Callbacks == Clients \X Ops
Outcomes == {"data", "none"}   \* "none": no bytes, or an error
Completions == Clients \X Ops \X Outcomes

\* clients: the conversations it opens; locks: its callbacks hold a
\* CScopedLock; tests: the operations whose callback looks at the outcome
ASSUME AsyncAssumption ==
    /\ MaxOps \in Nat \ {0} /\ MaxFailures \in Nat /\ IsFiniteSet(IoTasks)
    /\ Programs \subseteq [clients : SUBSET Clients \ {{}}, locks : BOOLEAN, tests : SUBSET Ops]
    /\ \A p \in Programs : MaxOps \in p.tests
    /\ None \notin Clients \cup Callbacks \cup Completions

VARIABLES
    program,       \* one of the Programs
    mpc, mclient,  \* where the main thread is, and the client it opens
    gMutex,        \* the callback inside a CScopedLock, or None
    m_tasks,       \* the entries of each client in m_tasks
    m_stopevent,
    rtask, got,    \* per RunTask: m_tiocppool's view of it, the completion it took
    wtask, cpc,    \* per callback: m_tworkerpool's view of it, and where it is
    pending,       \* per client: the operation the system works on, or 0
    port, nulls,   \* the completion port: completions, and posts without data
    m_callback, outcome, Offset,  \* of CAsyncIOData; outcome: m_errorcode and m_bytestransferred
    clientlist,    \* the clients that are open
    failures,      \* operations that failed at once so far
    hung,          \* an exception left a callback, and its client open
    early          \* Stop was called while the main thread still opened clients

mainVars == <<mpc, mclient>>
poolVars == <<rtask, got, wtask, cpc>>
kernelVars == <<pending, port, nulls>>
dataVars == <<m_callback, outcome, Offset>>
userVars == <<clientlist, m_stopevent, failures, hung, early>>
vars == <<program, mainVars, gMutex, m_tasks, poolVars, kernelVars, dataVars, userVars>>

MainPcs == {"create", "open", "issue", "append", "event", "workers", "joinWorkers", "post", "joinIo",
            "returned"}
CallbackPcs == {"off", "enter", "body", "append", "leave", "done"}

IoPool == INSTANCE TaskBoard WITH Tasks <- IoTasks, status <- rtask
Workers == INSTANCE TaskBoard WITH Tasks <- Callbacks, status <- wtask

Init ==
    /\ program \in Programs
    /\ mpc = "create" /\ mclient = None
    /\ gMutex = None
    /\ m_tasks = [c \in Clients |-> 0]
    /\ m_stopevent = FALSE
    /\ IoPool!BoardInit /\ got = [i \in IoTasks |-> None]
    /\ Workers!BoardInit /\ cpc = [k \in Callbacks |-> "off"]
    /\ pending = [c \in Clients |-> 0] /\ port = {} /\ nulls = 0
    /\ m_callback = [c \in Clients |-> 0]
    /\ outcome = [c \in Clients |-> "data"]
    /\ Offset = [c \in Clients |-> 0]
    /\ clientlist = {} /\ failures = 0 /\ hung = FALSE /\ early = FALSE

-----------------------------------------------------------------------------
(* CAsyncFile::Read and Write, CAsyncTCPClient::Read and Write.            *)

\* set_bytestransferred, set_callback, and the system has the operation
Issue(c) ==
    /\ m_callback' = [m_callback EXCEPT ![c] = @ + 1]
    /\ outcome' = [outcome EXCEPT ![c] = "data"]
    /\ pending' = [pending EXCEPT ![c] = m_callback[c] + 1]
    /\ UNCHANGED <<Offset, port, nulls>>

\* it fails at once, which is an exception
IssueFails(c) ==
    /\ failures < MaxFailures
    /\ failures' = failures + 1
    /\ m_callback' = [m_callback EXCEPT ![c] = @ + 1]
    /\ outcome' = [outcome EXCEPT ![c] = "data"]
    /\ UNCHANGED <<Offset, kernelVars>>

\* the manager's AddTask, after the operation was started
AddTask(c) == m_tasks' = [m_tasks EXCEPT ![c] = @ + 1]

\* the system ends an operation; the last of a client brings no data
Complete(c) ==
    /\ pending[c] # 0
    /\ \E o \in IF pending[c] = MaxOps THEN {"none"} ELSE Outcomes :
          port' = port \cup {<<c, pending[c], o>>}
    /\ pending' = [pending EXCEPT ![c] = 0]
    /\ UNCHANGED <<program, mainVars, gMutex, m_tasks, poolVars, nulls, dataVars, userVars>>

-----------------------------------------------------------------------------
(* RunTask, one for each thread of m_tiocppool                             *)

RunTaskBegins(i) ==
    /\ IoPool!Start(i)
    /\ UNCHANGED <<program, mainVars, gMutex, m_tasks, got, wtask, cpc, kernelVars, dataVars, userVars>>

\* GetQueuedCompletionStatus
GetCompletion(i) ==
    /\ rtask[i] = "running" /\ got[i] = None
    /\ \E x \in port :
          /\ got' = [got EXCEPT ![i] = x]
          /\ port' = port \ {x}
    /\ UNCHANGED <<program, mainVars, gMutex, m_tasks, rtask, wtask, cpc, pending, nulls, dataVars, userVars>>

GetNull(i) ==
    /\ rtask[i] = "running" /\ got[i] = None /\ nulls > 0
    /\ nulls' = nulls - 1
    /\ IoPool!Finish(i)
    /\ UNCHANGED <<program, mainVars, gMutex, m_tasks, got, wtask, cpc, pending, port, dataVars, userVars>>

\* fault: the entry is removed whether or not it was found
Unlist_Unfound(c) == m_tasks' = [m_tasks EXCEPT ![c] = 0 - 1]

\* an operation that completed before its AddTask is not found, and the entry
\* added later stays
Unlist(c) == m_tasks' = [m_tasks EXCEPT ![c] = IF @ > 0 THEN @ - 1 ELSE @]

\* fault: the offset stays where it was
Account_KeepsOffset(c, o) == outcome' = [outcome EXCEPT ![c] = o] /\ UNCHANGED Offset

\* set_errorcode, set_bytestransferred, and Offset moves on
Account(c, o) ==
    /\ outcome' = [outcome EXCEPT ![c] = o]
    /\ Offset' = [Offset EXCEPT ![c] = @ + 1]

\* from the lock on
Handle(i) ==
    /\ got[i] # None /\ gMutex = None
    /\ LET c == got[i][1] IN
          /\ Unlist(c)
          /\ Account(c, got[i][3])
          /\ Workers!Queue(<<c, m_callback[c]>>)
    /\ got' = [got EXCEPT ![i] = None]
    /\ UNCHANGED <<program, mainVars, gMutex, rtask, cpc, kernelVars, m_callback, userVars>>

-----------------------------------------------------------------------------
(* read_callback and write_callback of the programs.  A client is always   *)
(* found in clientlist: Run appends it before it starts to write.          *)

Opening == mpc \in {"open", "issue", "append"}

\* fault: the list is counted before the client is taken from it
Stops_CountsFirst(list) == clientlist = {}

Stops(list) == list = {}

\* Close, and the last client stops the manager
EndClient(c) ==
    /\ clientlist' = clientlist \ {c}
    /\ m_stopevent' = (m_stopevent \/ Stops(clientlist \ {c}))
    /\ early' = (early \/ (Opening /\ clientlist = {c}))
    /\ UNCHANGED <<failures, hung>>

Jump(k, to) == cpc' = [cpc EXCEPT ![k] = to]

CallbackBegins(k) ==
    /\ Workers!Start(k)
    /\ Jump(k, "enter")
    /\ UNCHANGED <<program, mainVars, gMutex, m_tasks, rtask, got, kernelVars, dataVars, userVars>>

Enter(k) ==
    /\ cpc[k] = "enter"
    /\ IF program.locks THEN gMutex = None /\ gMutex' = k ELSE UNCHANGED gMutex
    /\ Jump(k, "body")
    /\ UNCHANGED <<program, mainVars, m_tasks, rtask, got, wtask, kernelVars, dataVars, userVars>>

Ends(k) == k[2] \in program.tests /\ outcome[k[1]] = "none"

Last(k) ==
    /\ cpc[k] = "body" /\ Ends(k)
    /\ EndClient(k[1])
    /\ Jump(k, "leave")
    /\ UNCHANGED <<program, mainVars, gMutex, m_tasks, rtask, got, wtask, kernelVars, dataVars>>

GoOn(k) ==
    /\ cpc[k] = "body" /\ ~Ends(k)
    /\ Issue(k[1])
    /\ Jump(k, "append")
    /\ UNCHANGED <<program, mainVars, gMutex, m_tasks, rtask, got, wtask, userVars>>

\* nobody catches it but the pool: the client stays open
Throws(k) ==
    /\ cpc[k] = "body" /\ ~Ends(k)
    /\ IssueFails(k[1])
    /\ hung' = TRUE
    /\ Jump(k, "leave")
    /\ UNCHANGED <<program, mainVars, gMutex, m_tasks, rtask, got, wtask, clientlist, m_stopevent, early>>

Append(k) ==
    /\ cpc[k] = "append" /\ gMutex \in {None, k}
    /\ AddTask(k[1])
    /\ Jump(k, "leave")
    /\ UNCHANGED <<program, mainVars, gMutex, rtask, got, wtask, kernelVars, dataVars, userVars>>

Leave(k) ==
    /\ cpc[k] = "leave"
    /\ Workers!Finish(k)
    /\ gMutex' = IF gMutex = k THEN None ELSE gMutex
    /\ Jump(k, "done")
    /\ UNCHANGED <<program, mainVars, m_tasks, rtask, got, kernelVars, dataVars, userVars>>

-----------------------------------------------------------------------------
(* The main thread: Run of the program with Create and WaitForComplete     *)

Goto(to) == mpc' = to

CreateAdds ==
    /\ mpc = "create"
    /\ \E i \in IoTasks : IoPool!Queue(i)
    /\ UNCHANGED <<program, mainVars, gMutex, m_tasks, got, wtask, cpc, kernelVars, dataVars, userVars>>

Created ==
    /\ mpc = "create" /\ \A i \in IoTasks : rtask[i] # "new"
    /\ Goto("open")
    /\ UNCHANGED <<program, mclient, gMutex, m_tasks, poolVars, kernelVars, dataVars, userVars>>

Unopened == {c \in program.clients : m_callback[c] = 0}

\* Open and clientlist.Append, without the lock
OpenClient ==
    /\ mpc = "open"
    /\ \E c \in Unopened :
          /\ mclient' = c
          /\ clientlist' = clientlist \cup {c}
    /\ Goto("issue")
    /\ UNCHANGED <<program, gMutex, m_tasks, poolVars, kernelVars, dataVars, m_stopevent, failures, hung, early>>

\* its first operation; one that fails here ends the program
IssueFirst ==
    /\ mpc = "issue"
    /\ Issue(mclient)
    /\ Goto("append")
    /\ UNCHANGED <<program, mclient, gMutex, m_tasks, poolVars, userVars>>

AppendFirst ==
    /\ mpc = "append" /\ gMutex = None
    /\ AddTask(mclient)
    /\ Goto("open")
    /\ UNCHANGED <<program, mclient, gMutex, poolVars, kernelVars, dataVars, userVars>>

AllOpen ==
    /\ mpc = "open" /\ Unopened = {}
    /\ Goto("event")
    /\ UNCHANGED <<program, mclient, gMutex, m_tasks, poolVars, kernelVars, dataVars, userVars>>

\* m_stopevent.wait
WaitEvent ==
    /\ mpc = "event" /\ m_stopevent
    /\ Goto("workers")
    /\ UNCHANGED <<program, mclient, gMutex, m_tasks, poolVars, kernelVars, dataVars, userVars>>

\* fault: WaitForComplete of the pool is left out
WaitWorkers_Not ==
    /\ mpc = "workers"
    /\ Goto("joinWorkers")
    /\ UNCHANGED <<program, mclient, gMutex, m_tasks, poolVars, kernelVars, dataVars, userVars>>

\* m_tworkerpool.WaitForComplete, then StopAll
WaitWorkers ==
    /\ mpc = "workers"
    /\ \A k \in Callbacks : wtask[k] \notin {"queued", "running"}
    /\ Goto("joinWorkers")
    /\ UNCHANGED <<program, mclient, gMutex, m_tasks, poolVars, kernelVars, dataVars, userVars>>

\* m_tworkerpool.JoinAll: it goes on without a thread that runs for longer
\* than 100 ms, and threads that ended take with them what they had not run
JoinWorkers ==
    /\ mpc = "joinWorkers"
    /\ Workers!Lose
    /\ Goto("post")
    /\ UNCHANGED <<program, mclient, gMutex, m_tasks, rtask, got, cpc, kernelVars, dataVars, userVars>>

\* m_tiocppool.StopAll, and a post for each of its threads
PostNulls ==
    /\ mpc = "post"
    /\ nulls' = nulls + Cardinality(IoTasks)
    /\ Goto("joinIo")
    /\ UNCHANGED <<program, mclient, gMutex, m_tasks, poolVars, pending, port, dataVars, userVars>>

\* m_tiocppool.JoinAll, which again waits 100 ms for each thread
JoinIo ==
    /\ mpc = "joinIo"
    /\ Goto("returned")
    /\ UNCHANGED <<program, mclient, gMutex, m_tasks, poolVars, kernelVars, dataVars, userVars>>

-----------------------------------------------------------------------------
System == \E c \in Clients : Complete(c)

IoThreads == \E i \in IoTasks : RunTaskBegins(i) \/ GetCompletion(i) \/ GetNull(i) \/ Handle(i)

Callback(k) == Enter(k) \/ Last(k) \/ GoOn(k) \/ Append(k) \/ Leave(k)

Main ==
    \/ CreateAdds \/ Created \/ OpenClient \/ IssueFirst \/ AppendFirst \/ AllOpen
    \/ WaitEvent \/ WaitWorkers \/ JoinWorkers \/ PostNulls \/ JoinIo

\* after WaitForComplete the port is closed and the pools are destroyed
Next ==
    /\ mpc # "returned"
    /\ \/ Main
       \/ System
       \/ IoThreads
       \/ \E k \in Callbacks : CallbackBegins(k) \/ Callback(k) \/ Throws(k)

Spec == Init /\ [][Next]_vars

\* threads are scheduled, operations end (the peer answers or hangs up), and
\* the worker pool runs what it was given as long as it is not stopped
FairSpec ==
    /\ Spec
    /\ WF_vars(Main)
    /\ \A c \in Clients : WF_vars(mpc # "returned" /\ Complete(c))
    /\ \A i \in IoTasks :
          /\ WF_vars(mpc # "returned" /\ RunTaskBegins(i))
          /\ WF_vars(mpc # "returned" /\ GetCompletion(i))
          /\ WF_vars(mpc # "returned" /\ Handle(i))
    /\ \A k \in Callbacks :
          /\ WF_vars((Opening \/ mpc \in {"event", "workers"}) /\ CallbackBegins(k))
          /\ WF_vars(mpc # "returned" /\ Callback(k))

-----------------------------------------------------------------------------
(* Properties                                                              *)

\* Types.  In particular no entry is taken from m_tasks that is not in it.
TypeOK ==
    /\ program \in Programs
    /\ mpc \in MainPcs /\ mclient \in Clients \cup {None}
    /\ gMutex \in Callbacks \cup {None}
    /\ m_tasks \in [Clients -> Nat]
    /\ m_stopevent \in BOOLEAN /\ hung \in BOOLEAN /\ early \in BOOLEAN
    /\ rtask \in [IoTasks -> IoPool!Statuses]
    /\ got \in [IoTasks -> Completions \cup {None}]
    /\ wtask \in [Callbacks -> Workers!Statuses] /\ cpc \in [Callbacks -> CallbackPcs]
    /\ pending \in [Clients -> 0 .. MaxOps] /\ port \subseteq Completions
    /\ nulls \in Nat
    /\ m_callback \in [Clients -> 0 .. MaxOps]
    /\ outcome \in [Clients -> Outcomes]
    /\ Offset \in [Clients -> 0 .. MaxOps]
    /\ clientlist \subseteq Clients /\ failures \in 0 .. MaxFailures

InPort(c) == \E x \in port : x[1] = c
InHand(c) == \E i \in IoTasks : got[i] # None /\ got[i][1] = c

\* Until a callback starts the next operation, what CAsyncIOData says is of
\* the operation it was called for, every byte before it is accounted for, and
\* no other thread or the system has the data in its hands: the callbacks of
\* one client never overlap, in whatever order completions are taken.
CallbackIsOfItsOperation ==
    \A k \in Callbacks :
        wtask[k] = "queued" \/ cpc[k] \in {"enter", "body"} =>
            /\ m_callback[k[1]] = k[2] /\ Offset[k[1]] = k[2]
            /\ pending[k[1]] = 0 /\ ~InPort(k[1]) /\ ~InHand(k[1])

\* When WaitForComplete has gone past the worker pool, and Stop was not called
\* before every client was open, no operation is under way, none waits in the
\* port and no callback will run any more.
QuietAfterWait ==
    mpc \in {"joinWorkers", "post", "joinIo", "returned"} /\ ~early =>
        /\ \A c \in Clients : pending[c] = 0 /\ ~InPort(c) /\ ~InHand(c)
        /\ \A k \in Callbacks : wtask[k] \notin {"queued", "running"}

\* WaitForComplete returns, unless an operation failed at once in a callback.
WaitReturns == <>(mpc = "returned" \/ hung)
=============================================================================
