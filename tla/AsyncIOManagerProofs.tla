------------------------ MODULE AsyncIOManagerProofs ------------------------
(***************************************************************************)
(* Proof that CallbackIsOfItsOperation and QuietAfterWait hold for any     *)
(* clients, threads, programs and numbers of operations.                   *)
(*                                                                         *)
(* The operation a client has under way is in one place at a time: with    *)
(* the system, in the port, in the hands of a RunTask, or with a callback. *)
(* Up to the callback Offset is one behind; so a callback and any of the   *)
(* others exclude each other.  A client with an operation under way is in  *)
(* clientlist, and the event is set when that is empty.                    *)
(***************************************************************************)
EXTENDS AsyncIOManager, FiniteSetTheorems, TLAPS

Active(k) == wtask[k] = "queued" \/ cpc[k] \in {"enter", "body"}

\* its operation was started and has not been accounted for
Owed(c, n) == m_callback[c] = n /\ Offset[c] + 1 = n /\ c \in clientlist

WithSystem ==
    \A c \in Clients : pending[c] # 0 =>
        Owed(c, pending[c]) /\ (\A x \in port : x[1] # c)
          /\ \A i \in IoTasks : got[i] # None => got[i][1] # c

InThePort ==
    \A x \in port :
        /\ Owed(x[1], x[2]) /\ (x[2] = MaxOps => x[3] = "none")
        /\ \A y \in port : y[1] = x[1] => y = x
        /\ \A i \in IoTasks : got[i] # None => got[i][1] # x[1]

InHands ==
    \A i \in IoTasks : got[i] # None =>
        /\ Owed(got[i][1], got[i][2]) /\ (got[i][2] = MaxOps => got[i][3] = "none")
        /\ \A j \in IoTasks : got[j] # None /\ got[j][1] = got[i][1] => j = i

WithCallback ==
    \A k \in Callbacks : Active(k) =>
        /\ m_callback[k[1]] = k[2] /\ Offset[k[1]] = k[2] /\ k[1] \in clientlist
        /\ k[2] = MaxOps => outcome[k[1]] = "none"

PoolAgrees == \A k \in Callbacks : cpc[k] # "off" => wtask[k] \notin {"new", "queued"}

Counted == \A c \in Clients : Offset[c] <= m_callback[c]

Tokens == WithSystem /\ InThePort /\ InHands /\ WithCallback /\ PoolAgrees /\ Counted

Idle == \A k \in Callbacks : wtask[k] \notin {"queued", "running"}

MainInv ==
    /\ mpc = "create" => clientlist = {}
    /\ mpc = "issue" => mclient \in clientlist /\ m_callback[mclient] = 0
    /\ m_stopevent /\ ~early => clientlist = {} /\ mpc \notin {"create", "open", "issue", "append"}
    /\ mpc \in {"workers", "joinWorkers", "post", "joinIo", "returned"} => m_stopevent
    /\ mpc \in {"joinWorkers", "post", "joinIo", "returned"} /\ ~early => Idle

Types ==
    /\ program \in Programs /\ mpc \in MainPcs /\ mclient \in Clients \cup {None}
    /\ gMutex \in Callbacks \cup {None} /\ nulls \in Nat /\ port \subseteq Completions
    /\ clientlist \subseteq Clients /\ failures \in 0 .. MaxFailures
    /\ m_tasks \in [Clients -> Nat] /\ pending \in [Clients -> 0 .. MaxOps]
    /\ m_callback \in [Clients -> 0 .. MaxOps] /\ Offset \in [Clients -> 0 .. MaxOps]
    /\ outcome \in [Clients -> Outcomes] /\ got \in [IoTasks -> Completions \cup {None}]
    /\ rtask \in [IoTasks -> IoPool!Statuses] /\ wtask \in [Callbacks -> Workers!Statuses]
    /\ cpc \in [Callbacks -> CallbackPcs]

Flags == m_stopevent \in BOOLEAN /\ hung \in BOOLEAN /\ early \in BOOLEAN

IInv == Types /\ Flags /\ Tokens /\ MainInv

-----------------------------------------------------------------------------
LEMMA Bounds == MaxOps \in Nat \ {0} /\ MaxFailures \in Nat /\ IsFiniteSet(IoTasks)
BY AsyncAssumption DEF AsyncAssumption

LEMMA InitIInv == Init => IInv
<1> SUFFICES ASSUME Init PROVE IInv
  OBVIOUS
<1> USE Bounds
<1>1. Types
  <2>1. /\ program \in Programs /\ mpc \in MainPcs /\ mclient \in Clients \cup {None}
        /\ gMutex \in Callbacks \cup {None} /\ nulls \in Nat /\ port \subseteq Completions
        /\ clientlist \subseteq Clients /\ failures \in 0 .. MaxFailures
    BY DEF Init, MainPcs
  <2>2. /\ m_tasks \in [Clients -> Nat] /\ pending \in [Clients -> 0 .. MaxOps]
        /\ m_callback \in [Clients -> 0 .. MaxOps] /\ Offset \in [Clients -> 0 .. MaxOps]
        /\ outcome \in [Clients -> Outcomes] /\ got \in [IoTasks -> Completions \cup {None}]
    BY DEF Init, Outcomes
  <2>3. /\ rtask \in [IoTasks -> IoPool!Statuses] /\ wtask \in [Callbacks -> Workers!Statuses]
        /\ cpc \in [Callbacks -> CallbackPcs]
    BY DEF Init, CallbackPcs, IoPool!BoardInit, Workers!BoardInit, IoPool!Statuses, Workers!Statuses
  <2> QED  BY <2>1, <2>2, <2>3 DEF Types
<1>2. Flags
  BY DEF Init, Flags
<1>3. Tokens
  BY DEF Init, Tokens, WithSystem, InThePort, InHands, WithCallback, PoolAgrees, Active,
         Counted, IoPool!BoardInit, Workers!BoardInit
<1>4. MainInv
  BY DEF Init, MainInv
<1> QED  BY <1>1, <1>2, <1>3, <1>4 DEF IInv

\* A client whose callback is due or runs has nothing else under way.
LEMMA Alone ==
    ASSUME IInv, NEW k \in Callbacks, Active(k)
    PROVE  /\ k[1] \in Clients /\ k[2] \in Ops /\ k[2] \in 1 .. MaxOps
           /\ m_callback[k[1]] = k[2] /\ Offset[k[1]] = k[2] /\ k[1] \in clientlist
           /\ pending[k[1]] = 0
           /\ \A x \in port : x[1] # k[1]
           /\ \A i \in IoTasks : got[i] # None => got[i][1] # k[1]
           /\ \A j \in Callbacks : Active(j) /\ j[1] = k[1] => j = k
<1>1. k[1] \in Clients /\ k[2] \in Ops /\ k[2] \in 1 .. MaxOps /\ k[2] \in Nat
  BY Bounds DEF Callbacks, Ops
<1>2. m_callback[k[1]] = k[2] /\ Offset[k[1]] = k[2] /\ k[1] \in clientlist
  BY DEF IInv, Tokens, WithCallback
<1>3. ~Owed(k[1], m_callback[k[1]])
  BY <1>1, <1>2 DEF Owed
<1>4. pending[k[1]] = 0
  BY <1>1, <1>3 DEF IInv, Tokens, WithSystem, Owed
<1>5. \A x \in port : x[1] # k[1]
  BY <1>3 DEF IInv, Tokens, InThePort, Owed
<1>6. \A i \in IoTasks : got[i] # None => got[i][1] # k[1]
  BY <1>3 DEF IInv, Tokens, InHands, Owed
<1>7. \A j \in Callbacks : Active(j) /\ j[1] = k[1] => j = k
  BY <1>2 DEF IInv, Tokens, WithCallback, Callbacks
<1> QED  BY <1>1, <1>2, <1>4, <1>5, <1>6, <1>7

\* The properties are in the invariant.
LEMMA CallbackFromIInv == IInv => CallbackIsOfItsOperation
BY Alone DEF CallbackIsOfItsOperation, Active, InPort, InHand

LEMMA QuietFromIInv == IInv => QuietAfterWait
<1> SUFFICES ASSUME IInv, mpc \in {"joinWorkers", "post", "joinIo", "returned"}, ~early
             PROVE  /\ \A c \in Clients : pending[c] = 0 /\ ~InPort(c) /\ ~InHand(c)
                    /\ Idle
  BY DEF QuietAfterWait, Idle
<1>1. clientlist = {} /\ Idle
  BY DEF IInv, MainInv
<1>2. \A c \in Clients : pending[c] = 0
  BY <1>1 DEF IInv, Tokens, WithSystem, Owed
<1>3. \A c \in Clients : ~InPort(c)
  BY <1>1 DEF IInv, Tokens, InThePort, InPort, Owed
<1>4. \A c \in Clients : ~InHand(c)
  BY <1>1 DEF IInv, Tokens, InHands, InHand, Owed
<1> QED  BY <1>1, <1>2, <1>3, <1>4

LEMMA TypesFromIInv == IInv => TypeOK
BY DEF IInv, Types, Flags, TypeOK

-----------------------------------------------------------------------------
(* Steps that leave the operations under way where they are                *)

opVars == <<m_callback, Offset, outcome, pending, port, got, wtask, cpc, clientlist>>

LEMMA SameTokens == ASSUME Tokens, UNCHANGED opVars PROVE Tokens'
<1> USE DEF Tokens, opVars
<1>1. WithSystem'
  BY DEF WithSystem, Owed
<1>2. InThePort'
  BY DEF InThePort, Owed
<1>3. InHands'
  BY DEF InHands, Owed
<1>4. WithCallback' /\ PoolAgrees'
  BY DEF WithCallback, Active, PoolAgrees
<1>5. Counted'
  BY DEF Counted
<1> QED  BY <1>1, <1>2, <1>3, <1>4, <1>5

LEMMA QuietSteps ==
    ASSUME IInv,
           \/ \E i \in IoTasks : RunTaskBegins(i) \/ GetNull(i)
           \/ CreateAdds \/ Created \/ AppendFirst \/ AllOpen \/ WaitEvent \/ WaitWorkers
           \/ PostNulls \/ JoinIo
    PROVE  IInv'
<1> USE DEF mainVars, poolVars, kernelVars, dataVars, userVars
<1>1. UNCHANGED opVars /\ UNCHANGED <<m_stopevent, hung, early>>
  BY DEF RunTaskBegins, GetNull, CreateAdds, Created, AppendFirst, AllOpen, WaitEvent, WaitWorkers,
         PostNulls, JoinIo, opVars, IoPool!Start, IoPool!Finish, IoPool!Queue, IoPool!Move
<1>2. Tokens' /\ Flags'
  BY <1>1, SameTokens DEF IInv, Flags
<1>3. Types'
  <2>1. UNCHANGED <<program, mclient, gMutex, failures>> /\ mpc' \in MainPcs
    BY DEF RunTaskBegins, GetNull, CreateAdds, Created, AppendFirst, AllOpen, WaitEvent, WaitWorkers,
           PostNulls, JoinIo, Goto, MainPcs, IInv, Types
  <2>2. nulls' \in Nat
    BY Bounds, FS_CardinalityType
       DEF RunTaskBegins, GetNull, CreateAdds, Created, AppendFirst, AllOpen, WaitEvent, WaitWorkers,
           PostNulls, JoinIo, IInv, Types
  <2>3. m_tasks' \in [Clients -> Nat]
    BY DEF RunTaskBegins, GetNull, CreateAdds, Created, AppendFirst, AllOpen, WaitEvent, WaitWorkers,
           PostNulls, JoinIo, IInv, Types, AddTask
  <2>4. rtask' \in [IoTasks -> IoPool!Statuses]
    BY DEF RunTaskBegins, GetNull, CreateAdds, Created, AppendFirst, AllOpen, WaitEvent, WaitWorkers,
           PostNulls, JoinIo, IInv, Types, IoPool!Start, IoPool!Finish, IoPool!Queue, IoPool!Move,
           IoPool!Statuses
  <2> QED  BY <1>1, <2>1, <2>2, <2>3, <2>4 DEF IInv, Types, opVars
<1>4. MainInv'
  <2>1. UNCHANGED <<clientlist, mclient, m_callback, m_stopevent, early, wtask>>
    BY <1>1 DEF opVars, RunTaskBegins, GetNull, CreateAdds, Created, AppendFirst, AllOpen, WaitEvent,
                WaitWorkers, PostNulls, JoinIo
  <2>2. CASE UNCHANGED mpc
    BY <2>1, <2>2 DEF IInv, MainInv, Idle
  <2>3. CASE Created \/ AppendFirst \/ AllOpen \/ WaitEvent \/ PostNulls \/ JoinIo
    BY <2>1, <2>3 DEF IInv, MainInv, Idle, Created, AppendFirst, AllOpen, WaitEvent, PostNulls, JoinIo, Goto
  <2>4. CASE WaitWorkers
    BY <2>1, <2>4 DEF IInv, MainInv, Idle, WaitWorkers, Goto
  <2> QED  BY <2>2, <2>3, <2>4 DEF RunTaskBegins, GetNull, CreateAdds
<1> QED  BY <1>2, <1>3, <1>4 DEF IInv

-----------------------------------------------------------------------------
(* The operation moves on                                                  *)

LEMMA CompleteStep == ASSUME IInv, NEW c \in Clients, Complete(c) PROVE IInv'
<1> USE DEF mainVars, poolVars, kernelVars, dataVars, userVars
<1> DEFINE n == pending[c]
<1>1. /\ n \in Ops /\ n # 0 /\ Owed(c, n) /\ \A x \in port : x[1] # c
      /\ \A i \in IoTasks : got[i] # None => got[i][1] # c
  BY Bounds DEF Complete, IInv, Types, Tokens, WithSystem, Ops
<1>2. PICK o \in Outcomes : port' = port \cup {<<c, n, o>>} /\ (n = MaxOps => o = "none")
  BY DEF Complete, Outcomes
<1>3. UNCHANGED <<program, mpc, mclient, gMutex, m_tasks, rtask, got, wtask, cpc, nulls, m_callback,
                  outcome, Offset, clientlist, m_stopevent, failures, hung, early>>
      /\ pending' = [pending EXCEPT ![c] = 0]
  BY DEF Complete
<1>4. Types' /\ Flags'
  <2>1. pending' \in [Clients -> 0 .. MaxOps]
    BY <1>3, Bounds DEF IInv, Types
  <2>2. port' \subseteq Completions
    BY <1>1, <1>2 DEF IInv, Types, Completions
  <2>3. Flags'
    BY <1>3 DEF IInv, Flags
  <2> QED  BY <1>3, <2>1, <2>2, <2>3 DEF IInv, Types
<1>5. WithSystem'
  BY <1>1, <1>2, <1>3 DEF IInv, Types, Tokens, WithSystem, Owed
<1>6. InThePort'
  BY <1>1, <1>2, <1>3 DEF IInv, Tokens, InThePort, Owed
<1>7. InHands'
  BY <1>3 DEF IInv, Tokens, InHands, Owed
<1>8. WithCallback' /\ PoolAgrees' /\ Counted'
  BY <1>3 DEF IInv, Tokens, WithCallback, Active, PoolAgrees, Counted
<1>9. MainInv'
  BY <1>3 DEF IInv, MainInv, Idle
<1> QED  BY <1>4, <1>5, <1>6, <1>7, <1>8, <1>9 DEF IInv, Tokens

LEMMA GetStep == ASSUME IInv, NEW i \in IoTasks, GetCompletion(i) PROVE IInv'
<1> USE DEF mainVars, poolVars, kernelVars, dataVars, userVars
<1>1. PICK x \in port : got' = [got EXCEPT ![i] = x] /\ port' = port \ {x}
  BY DEF GetCompletion
<1>2. got[i] = None /\ UNCHANGED <<program, mpc, mclient, gMutex, m_tasks, rtask, wtask, cpc, nulls,
          pending, m_callback, outcome, Offset, clientlist, m_stopevent, failures, hung, early>>
  BY DEF GetCompletion
<1>3. /\ x \in Completions /\ Owed(x[1], x[2]) /\ (x[2] = MaxOps => x[3] = "none")
      /\ \A y \in port : y[1] = x[1] => y = x
      /\ \A j \in IoTasks : got[j] # None => got[j][1] # x[1]
  BY DEF IInv, Types, Tokens, InThePort
<1>4. Types' /\ Flags'
  <2>1. got' \in [IoTasks -> Completions \cup {None}] /\ port' \subseteq Completions
    BY <1>1, <1>3 DEF IInv, Types
  <2>2. Flags'
    BY <1>2 DEF IInv, Flags
  <2> QED  BY <1>2, <2>1, <2>2 DEF IInv, Types
<1>5. \A j \in IoTasks : got'[j] = IF j = i THEN x ELSE got[j]
  BY <1>1 DEF IInv, Types
<1>6. WithSystem'
  BY <1>1, <1>2, <1>5 DEF IInv, Tokens, WithSystem, Owed
<1>7. InThePort'
  BY <1>1, <1>2, <1>3, <1>5 DEF IInv, Tokens, InThePort, Owed
<1>8. InHands'
  BY <1>2, <1>3, <1>5 DEF IInv, Tokens, InHands, Owed
<1>9. WithCallback' /\ PoolAgrees' /\ Counted'
  BY <1>2 DEF IInv, Tokens, WithCallback, Active, PoolAgrees, Counted
<1>10. MainInv'
  BY <1>2 DEF IInv, MainInv, Idle
<1> QED  BY <1>4, <1>6, <1>7, <1>8, <1>9, <1>10 DEF IInv, Tokens

LEMMA HandleStep == ASSUME IInv, NEW i \in IoTasks, Handle(i) PROVE IInv'
<1> USE DEF mainVars, poolVars, kernelVars, dataVars, userVars
<1> DEFINE c == got[i][1]
           n == got[i][2]
           k == <<c, n>>
<1>1. /\ got[i] \in Completions /\ c \in Clients /\ n \in Ops /\ n \in Nat /\ got[i][3] \in Outcomes
      /\ k \in Callbacks /\ got[i] # None /\ Owed(c, n) /\ (n = MaxOps => got[i][3] = "none")
  <2>1. got[i] \in Completions
    BY DEF Handle, IInv, Types
  <2> QED  BY <2>1, Bounds DEF Handle, IInv, Tokens, InHands, Completions, Callbacks, Ops
<1>2. /\ \A j \in IoTasks : got[j] # None /\ got[j][1] = c => j = i
      /\ \A x \in port : x[1] # c
      /\ pending[c] = 0
      /\ \A j \in Callbacks : Active(j) => j[1] # c
  <2>1. \A j \in Callbacks : Active(j) => j[1] # c
    BY <1>1, Alone DEF Owed
  <2> QED  BY <1>1, <2>1 DEF IInv, Tokens, WithSystem, InThePort, InHands
<1>3. /\ outcome' = [outcome EXCEPT ![c] = got[i][3]] /\ Offset' = [Offset EXCEPT ![c] = @ + 1]
      /\ m_tasks' = [m_tasks EXCEPT ![c] = IF @ > 0 THEN @ - 1 ELSE @]
      /\ wtask[k] = "new" /\ wtask' = [wtask EXCEPT ![k] = "queued"]
      /\ got' = [got EXCEPT ![i] = None]
  BY <1>1 DEF Handle, Unlist, Account, Workers!Queue, Workers!Move, Owed
<1>4. UNCHANGED <<program, mpc, mclient, gMutex, rtask, cpc, pending, port, nulls, m_callback,
                  clientlist, m_stopevent, failures, hung, early>>
  BY DEF Handle
<1>5. /\ \A d \in Clients : Offset'[d] = IF d = c THEN n ELSE Offset[d]
      /\ \A d \in Clients : outcome'[d] = IF d = c THEN got[i][3] ELSE outcome[d]
      /\ \A j \in Callbacks : wtask'[j] = IF j = k THEN "queued" ELSE wtask[j]
      /\ \A j \in IoTasks : got'[j] = IF j = i THEN None ELSE got[j]
  BY <1>1, <1>3 DEF IInv, Types, Owed
<1>6. Types' /\ Flags'
  <2>1. Offset' \in [Clients -> 0 .. MaxOps] /\ outcome' \in [Clients -> Outcomes]
    BY <1>1, <1>3, Bounds DEF IInv, Types, Owed, Ops
  <2>2. m_tasks' \in [Clients -> Nat]
    BY <1>1, <1>3 DEF IInv, Types
  <2>3. wtask' \in [Callbacks -> Workers!Statuses] /\ got' \in [IoTasks -> Completions \cup {None}]
    BY <1>3 DEF IInv, Types, Workers!Statuses
  <2>4. Flags'
    BY <1>4 DEF IInv, Flags
  <2> QED  BY <1>4, <2>1, <2>2, <2>3, <2>4 DEF IInv, Types
<1>7. WithSystem'
  BY <1>2, <1>4, <1>5 DEF IInv, Tokens, WithSystem, Owed
<1>8. InThePort'
  <2>1. \A x \in port : x[1] \in Clients
    BY DEF IInv, Types, Completions
  <2> QED  BY <1>2, <1>4, <1>5, <2>1 DEF IInv, Tokens, InThePort, Owed
<1>9. InHands'
  <2>1. \A j \in IoTasks : got[j] # None => got[j][1] \in Clients
    BY DEF IInv, Types, Completions
  <2> QED  BY <1>2, <1>4, <1>5, <2>1 DEF IInv, Tokens, InHands, Owed
<1>10. WithCallback' /\ PoolAgrees'
  <2>1. \A j \in Callbacks : Active(j)' => j = k \/ Active(j)
    BY <1>4, <1>5 DEF Active
  <2>2. \A j \in Callbacks : j[1] \in Clients
    BY DEF Callbacks
  <2>3. WithCallback'
    BY <1>1, <1>2, <1>4, <1>5, <2>1, <2>2 DEF IInv, Tokens, WithCallback, Owed
  <2>4. PoolAgrees'
    BY <1>1, <1>3, <1>4, <1>5 DEF IInv, Tokens, PoolAgrees
  <2> QED  BY <2>3, <2>4
<1>11. Counted'
  BY <1>1, <1>4, <1>5 DEF IInv, Types, Tokens, Counted, Owed
<1>12. MainInv'
  BY <1>1, <1>4 DEF IInv, MainInv, Owed
<1> QED  BY <1>6, <1>7, <1>8, <1>9, <1>10, <1>11, <1>12 DEF IInv, Tokens

-----------------------------------------------------------------------------
(* The callbacks                                                           *)

\* A callback that begins, takes the lock, enters its operation in m_tasks or
\* returns starts and ends no operation.
LEMMA CallbackQuietStep ==
    ASSUME IInv, NEW k \in Callbacks, CallbackBegins(k) \/ Enter(k) \/ Append(k) \/ Leave(k)
    PROVE  IInv'
<1> USE DEF mainVars, poolVars, kernelVars, dataVars, userVars
<1>1. UNCHANGED <<program, mpc, mclient, rtask, got, pending, port, nulls, m_callback, outcome,
                  Offset, clientlist, m_stopevent, failures, hung, early>>
  BY DEF CallbackBegins, Enter, Append, Leave
<1>2. /\ gMutex' \in Callbacks \cup {None}
      /\ m_tasks' \in [Clients -> Nat]
  <2>1. k[1] \in Clients
    BY DEF Callbacks
  <2> QED  BY <2>1 DEF CallbackBegins, Enter, Append, Leave, AddTask, IInv, Types
<1>3. /\ wtask' \in [Callbacks -> Workers!Statuses] /\ cpc' \in [Callbacks -> CallbackPcs]
      /\ \A j \in Callbacks \ {k} : wtask'[j] = wtask[j] /\ cpc'[j] = cpc[j]
  BY DEF CallbackBegins, Enter, Append, Leave, Jump, Workers!Start, Workers!Finish, Workers!Move,
         Workers!Statuses, CallbackPcs, IInv, Types
<1>4. /\ Active(k)' => Active(k)
      /\ cpc'[k] # "off" => wtask'[k] \notin {"new", "queued"}
      /\ wtask'[k] \in {"queued", "running"} => wtask[k] \in {"queued", "running"}
  <2>1. CASE CallbackBegins(k)
    BY <2>1 DEF CallbackBegins, Jump, Workers!Start, Workers!Move, Active, IInv, Types
  <2>2. CASE Enter(k)
    BY <2>2 DEF Enter, Jump, Active, IInv, Types, Tokens, PoolAgrees
  <2>3. CASE Append(k)
    BY <2>3 DEF Append, Jump, Active, IInv, Types, Tokens, PoolAgrees
  <2>4. CASE Leave(k)
    BY <2>4 DEF Leave, Jump, Workers!Finish, Workers!Move, Active, IInv, Types
  <2> QED  BY <2>1, <2>2, <2>3, <2>4
<1>5. \A j \in Callbacks : Active(j)' => Active(j)
  BY <1>3, <1>4 DEF Active
<1>6. Types' /\ Flags'
  <2>1. Flags'
    BY <1>1 DEF IInv, Flags
  <2> QED  BY <1>1, <1>2, <1>3, <2>1 DEF IInv, Types
<1>7. WithSystem' /\ InThePort' /\ InHands' /\ Counted'
  BY <1>1 DEF IInv, Tokens, WithSystem, InThePort, InHands, Counted, Owed
<1>8. WithCallback'
  BY <1>1, <1>5 DEF IInv, Tokens, WithCallback
<1>9. PoolAgrees'
  BY <1>3, <1>4 DEF IInv, Tokens, PoolAgrees
<1>10. MainInv'
  BY <1>1, <1>3, <1>4 DEF IInv, MainInv, Idle
<1> QED  BY <1>6, <1>7, <1>8, <1>9, <1>10 DEF IInv, Tokens

\* What the three ways out of the body have in common.
LEMMA BodyFacts ==
    ASSUME IInv, NEW k \in Callbacks, cpc[k] = "body", NEW to \in {"append", "leave"}, Jump(k, to)
    PROVE  /\ Active(k)
           /\ cpc' \in [Callbacks -> CallbackPcs]
           /\ \A j \in Callbacks : cpc'[j] = IF j = k THEN to ELSE cpc[j]
           /\ wtask[k] \notin {"new", "queued"}
<1>1. Active(k) /\ wtask[k] \notin {"new", "queued"}
  BY DEF Active, IInv, Tokens, PoolAgrees
<1>2. cpc \in [Callbacks -> CallbackPcs] /\ cpc' = [cpc EXCEPT ![k] = to] /\ to \in CallbackPcs
  BY DEF IInv, Types, Jump, CallbackPcs
<1> QED  BY <1>1, <1>2

LEMMA LastStep == ASSUME IInv, NEW k \in Callbacks, Last(k) PROVE IInv'
<1> USE DEF mainVars, poolVars, kernelVars, dataVars, userVars
<1> DEFINE c == k[1]
<1>1. UNCHANGED <<program, mpc, mclient, gMutex, m_tasks, rtask, got, wtask, pending, port, nulls,
                  m_callback, outcome, Offset, failures, hung>>
      /\ clientlist' = clientlist \ {c}
  BY DEF Last, EndClient
<1>2. /\ m_stopevent' = (m_stopevent \/ clientlist \ {c} = {})
      /\ early' = (early \/ (Opening /\ clientlist = {c}))
  BY DEF Last, EndClient, Stops
<1>3. /\ Active(k) /\ cpc' \in [Callbacks -> CallbackPcs]
      /\ \A j \in Callbacks : cpc'[j] = IF j = k THEN "leave" ELSE cpc[j]
      /\ wtask[k] \notin {"new", "queued"}
  BY BodyFacts DEF Last
<1>4. /\ c \in Clients /\ m_callback[c] # 0 /\ c \in clientlist /\ pending[c] = 0
      /\ \A x \in port : x[1] # c
      /\ \A i \in IoTasks : got[i] # None => got[i][1] # c
      /\ \A j \in Callbacks : Active(j) /\ j[1] = c => j = k
  BY <1>3, Alone
<1>5. \A j \in Callbacks : Active(j)' => Active(j) /\ j[1] # c
  BY <1>1, <1>3, <1>4 DEF Active
<1>6. Types' /\ Flags'
  <2>1. Flags'
    BY <1>1, <1>2 DEF IInv, Flags
  <2> QED  BY <1>1, <1>3, <2>1 DEF IInv, Types
<1>7. WithSystem' /\ InThePort' /\ InHands' /\ Counted'
  BY <1>1, <1>4 DEF IInv, Tokens, WithSystem, InThePort, InHands, Counted, Owed
<1>8. WithCallback'
  BY <1>1, <1>5 DEF IInv, Tokens, WithCallback
<1>9. PoolAgrees'
  BY <1>1, <1>3 DEF IInv, Tokens, PoolAgrees
<1>10. MainInv'
  <2>1. mpc = "create" => clientlist' = {}
    BY <1>1 DEF IInv, MainInv
  <2>2. mpc = "issue" => mclient \in clientlist' /\ m_callback[mclient] = 0
    BY <1>1, <1>4 DEF IInv, MainInv
  <2>3. m_stopevent' /\ ~early' =>
            clientlist' = {} /\ mpc \notin {"create", "open", "issue", "append"}
    <3> SUFFICES ASSUME m_stopevent', ~early' PROVE clientlist' = {} /\ mpc # "create" /\ ~Opening
      BY DEF Opening
    <3>1. ~early /\ ~(Opening /\ clientlist = {c})
      BY <1>2
    <3>2. ~m_stopevent
      BY <1>4, <3>1 DEF IInv, MainInv
    <3>3. clientlist \ {c} = {} /\ clientlist = {c}
      BY <1>2, <1>4, <3>2
    <3> QED  BY <1>1, <3>1, <3>3 DEF IInv, MainInv
  <2>4. mpc \in {"workers", "joinWorkers", "post", "joinIo", "returned"} => m_stopevent'
    BY <1>2 DEF IInv, MainInv
  <2>5. mpc \in {"joinWorkers", "post", "joinIo", "returned"} /\ ~early' => Idle'
    BY <1>1, <1>2 DEF IInv, MainInv, Idle
  <2> QED  BY <1>1, <2>1, <2>2, <2>3, <2>4, <2>5 DEF MainInv
<1> QED  BY <1>6, <1>7, <1>8, <1>9, <1>10 DEF IInv, Tokens

\* The operation after the last one the bound allows is never started.
LEMMA RoomForNext ==
    ASSUME IInv, NEW k \in Callbacks, Active(k), ~Ends(k)
    PROVE  k[2] + 1 \in 1 .. MaxOps
<1>1. k[2] \in 1 .. MaxOps /\ (k[2] = MaxOps => outcome[k[1]] = "none")
  BY Alone DEF IInv, Tokens, WithCallback
<1>2. MaxOps \in program.tests
  BY AsyncAssumption DEF AsyncAssumption, IInv, Types
<1>3. k[2] # MaxOps
  BY <1>1, <1>2 DEF Ends
<1> QED  BY <1>1, <1>3, Bounds

LEMMA NextStep == ASSUME IInv, NEW k \in Callbacks, GoOn(k) \/ Throws(k) PROVE IInv'
<1> USE DEF mainVars, poolVars, kernelVars, dataVars, userVars
<1> DEFINE c == k[1]
           n == k[2] + 1
<1>1. /\ UNCHANGED <<program, mpc, mclient, gMutex, m_tasks, rtask, got, wtask, port, nulls, Offset,
                     clientlist, m_stopevent, early>>
      /\ failures' \in 0 .. MaxFailures
      /\ hung' \in BOOLEAN
      /\ m_callback' = [m_callback EXCEPT ![c] = @ + 1]
      /\ outcome' = [outcome EXCEPT ![c] = "data"]
      /\ pending' = pending \/ pending' = [pending EXCEPT ![c] = m_callback[c] + 1]
  <2>1. hung' \in BOOLEAN
    BY DEF GoOn, Throws, IInv, Flags
  <2>2. failures' \in 0 .. MaxFailures
    BY Bounds DEF GoOn, Throws, IssueFails, IInv, Types
  <2>3. /\ UNCHANGED <<program, mpc, mclient, gMutex, m_tasks, rtask, got, wtask, port, nulls, Offset,
                       clientlist, m_stopevent, early>>
        /\ m_callback' = [m_callback EXCEPT ![c] = @ + 1]
        /\ outcome' = [outcome EXCEPT ![c] = "data"]
        /\ pending' = pending \/ pending' = [pending EXCEPT ![c] = m_callback[c] + 1]
    BY DEF GoOn, Throws, Issue, IssueFails
  <2> QED  BY <2>1, <2>2, <2>3
<1>2. PICK to \in {"append", "leave"} : Jump(k, to)
  BY DEF GoOn, Throws
<1>3. /\ Active(k) /\ ~Ends(k) /\ cpc' \in [Callbacks -> CallbackPcs]
      /\ \A j \in Callbacks : cpc'[j] = IF j = k THEN to ELSE cpc[j]
      /\ wtask[k] \notin {"new", "queued"}
  BY <1>2, BodyFacts DEF GoOn, Throws
<1>4. /\ c \in Clients /\ m_callback[c] = k[2] /\ Offset[c] = k[2] /\ c \in clientlist
      /\ pending[c] = 0 /\ m_callback[c] # 0
      /\ \A x \in port : x[1] # c
      /\ \A i \in IoTasks : got[i] # None => got[i][1] # c
      /\ \A j \in Callbacks : Active(j) /\ j[1] = c => j = k
  BY <1>3, Alone
<1>5. n \in 1 .. MaxOps /\ k[2] \in Nat
  BY <1>3, RoomForNext, Bounds DEF Callbacks, Ops
<1>6. /\ \A d \in Clients : m_callback'[d] = IF d = c THEN n ELSE m_callback[d]
      /\ \A d \in Clients : outcome'[d] = IF d = c THEN "data" ELSE outcome[d]
      /\ \A d \in Clients : pending'[d] = IF d = c THEN pending'[c] ELSE pending[d]
      /\ pending'[c] \in {0, n}
  BY <1>1, <1>4 DEF IInv, Types
<1>7. Types' /\ Flags'
  <2>1. m_callback' \in [Clients -> 0 .. MaxOps] /\ outcome' \in [Clients -> Outcomes]
    BY <1>1, <1>4, <1>5, Bounds DEF IInv, Types, Outcomes
  <2>2. pending' \in [Clients -> 0 .. MaxOps]
    BY <1>1, <1>4, <1>5, Bounds DEF IInv, Types
  <2>3. Flags'
    BY <1>1 DEF IInv, Flags
  <2> QED  BY <1>1, <1>3, <2>1, <2>2, <2>3 DEF IInv, Types
<1>8. WithSystem'
  BY <1>1, <1>4, <1>5, <1>6 DEF IInv, Types, Tokens, WithSystem, Owed
<1>9. InThePort'
  <2>1. \A x \in port : x[1] \in Clients
    BY DEF IInv, Types, Completions
  <2> QED  BY <1>1, <1>4, <1>6, <2>1 DEF IInv, Tokens, InThePort, Owed
<1>10. InHands'
  <2>1. \A j \in IoTasks : got[j] # None => got[j][1] \in Clients
    BY DEF IInv, Types, Completions
  <2> QED  BY <1>1, <1>4, <1>6, <2>1 DEF IInv, Tokens, InHands, Owed
<1>11. WithCallback' /\ PoolAgrees' /\ Counted'
  <2>1. \A j \in Callbacks : Active(j)' => Active(j) /\ j[1] # c /\ j[1] \in Clients
    BY <1>1, <1>3, <1>4 DEF Active, Callbacks
  <2>2. WithCallback'
    BY <1>1, <1>6, <2>1 DEF IInv, Tokens, WithCallback
  <2>3. PoolAgrees'
    BY <1>1, <1>3 DEF IInv, Tokens, PoolAgrees
  <2>4. Counted'
    BY <1>1, <1>4, <1>5, <1>6 DEF IInv, Types, Tokens, Counted
  <2> QED  BY <2>2, <2>3, <2>4
<1>12. MainInv'
  <2>1. mpc = "issue" => mclient \in Clients /\ mclient # c
    BY <1>4 DEF IInv, Types, MainInv
  <2> QED  BY <1>1, <1>6, <2>1 DEF IInv, MainInv, Idle
<1> QED  BY <1>7, <1>8, <1>9, <1>10, <1>11, <1>12 DEF IInv, Tokens

-----------------------------------------------------------------------------
(* The main thread                                                         *)

LEMMA OpenStep == ASSUME IInv, OpenClient PROVE IInv'
<1> USE DEF mainVars, poolVars, kernelVars, dataVars, userVars
<1>1. PICK c \in Unopened : mclient' = c /\ clientlist' = clientlist \cup {c}
  BY DEF OpenClient
<1>2. /\ mpc = "open" /\ mpc' = "issue"
      /\ UNCHANGED <<program, gMutex, m_tasks, rtask, got, wtask, cpc, pending, port, nulls,
                     m_callback, outcome, Offset, m_stopevent, failures, hung, early>>
  BY DEF OpenClient, Goto
<1>3. c \in Clients /\ m_callback[c] = 0
  BY AsyncAssumption DEF AsyncAssumption, Unopened, IInv, Types
<1>4. Types' /\ Flags'
  <2>1. Flags'
    BY <1>2 DEF IInv, Flags
  <2> QED  BY <1>1, <1>2, <1>3, <2>1 DEF IInv, Types, MainPcs
<1>5. WithSystem' /\ InThePort' /\ InHands' /\ Counted'
  BY <1>1, <1>2 DEF IInv, Tokens, WithSystem, InThePort, InHands, Counted, Owed
<1>6. WithCallback' /\ PoolAgrees'
  BY <1>1, <1>2 DEF IInv, Tokens, WithCallback, Active, PoolAgrees
<1>7. MainInv'
  BY <1>1, <1>2, <1>3 DEF IInv, MainInv
<1> QED  BY <1>4, <1>5, <1>6, <1>7 DEF IInv, Tokens

LEMMA IssueFirstStep == ASSUME IInv, IssueFirst PROVE IInv'
<1> USE DEF mainVars, poolVars, kernelVars, dataVars, userVars
<1> DEFINE c == mclient
<1>1. /\ mpc = "issue" /\ mpc' = "append"
      /\ UNCHANGED <<program, mclient, gMutex, m_tasks, rtask, got, wtask, cpc, port, nulls, Offset,
                     clientlist, m_stopevent, failures, hung, early>>
      /\ m_callback' = [m_callback EXCEPT ![c] = @ + 1]
      /\ outcome' = [outcome EXCEPT ![c] = "data"]
      /\ pending' = [pending EXCEPT ![c] = m_callback[c] + 1]
  BY DEF IssueFirst, Issue, Goto
<1>2. c \in Clients /\ c \in clientlist /\ m_callback[c] = 0
  BY <1>1 DEF IInv, MainInv, Types
<1>3. /\ Offset[c] = 0
      /\ \A x \in port : x[1] # c
      /\ \A i \in IoTasks : got[i] # None => got[i][1] # c
      /\ \A j \in Callbacks : Active(j) => j[1] # c
  <2>1. Offset[c] = 0
    BY <1>2, Bounds DEF IInv, Tokens, Counted, Types
  <2>2. ~Owed(c, m_callback[c])
    BY <1>2, <2>1 DEF Owed
  <2>3. \A j \in Callbacks : Active(j) => j[1] # c
    BY <1>2, Alone, Bounds
  <2> QED  BY <2>1, <2>2, <2>3 DEF IInv, Tokens, InThePort, InHands, Owed
<1>4. /\ \A d \in Clients : m_callback'[d] = IF d = c THEN 1 ELSE m_callback[d]
      /\ \A d \in Clients : outcome'[d] = IF d = c THEN "data" ELSE outcome[d]
      /\ \A d \in Clients : pending'[d] = IF d = c THEN 1 ELSE pending[d]
  BY <1>1, <1>2 DEF IInv, Types
<1>5. Types' /\ Flags'
  <2>1. /\ m_callback' \in [Clients -> 0 .. MaxOps] /\ outcome' \in [Clients -> Outcomes]
        /\ pending' \in [Clients -> 0 .. MaxOps]
    BY <1>1, <1>2, Bounds DEF IInv, Types, Outcomes
  <2>2. Flags'
    BY <1>1 DEF IInv, Flags
  <2> QED  BY <1>1, <2>1, <2>2 DEF IInv, Types, MainPcs
<1>6. WithSystem'
  BY <1>1, <1>2, <1>3, <1>4 DEF IInv, Tokens, WithSystem, Owed
<1>7. InThePort'
  <2>1. \A x \in port : x[1] \in Clients
    BY DEF IInv, Types, Completions
  <2> QED  BY <1>1, <1>3, <1>4, <2>1 DEF IInv, Tokens, InThePort, Owed
<1>8. InHands'
  <2>1. \A j \in IoTasks : got[j] # None => got[j][1] \in Clients
    BY DEF IInv, Types, Completions
  <2> QED  BY <1>1, <1>3, <1>4, <2>1 DEF IInv, Tokens, InHands, Owed
<1>9. WithCallback' /\ PoolAgrees' /\ Counted'
  <2>1. \A j \in Callbacks : Active(j)' => Active(j) /\ j[1] # c /\ j[1] \in Clients
    BY <1>1, <1>3 DEF Active, Callbacks
  <2>2. WithCallback'
    BY <1>1, <1>4, <2>1 DEF IInv, Tokens, WithCallback
  <2>3. PoolAgrees'
    BY <1>1 DEF IInv, Tokens, PoolAgrees
  <2>4. Counted'
    BY <1>1, <1>3, <1>4 DEF IInv, Tokens, Counted
  <2> QED  BY <2>2, <2>3, <2>4
<1>10. MainInv'
  BY <1>1 DEF IInv, MainInv
<1> QED  BY <1>5, <1>6, <1>7, <1>8, <1>9, <1>10 DEF IInv, Tokens

LEMMA JoinWorkersStep == ASSUME IInv, JoinWorkers PROVE IInv'
<1> USE DEF mainVars, poolVars, kernelVars, dataVars, userVars
<1>1. /\ mpc = "joinWorkers" /\ mpc' = "post"
      /\ UNCHANGED <<program, mclient, gMutex, m_tasks, rtask, got, cpc, pending, port, nulls,
                     m_callback, outcome, Offset, clientlist, m_stopevent, failures, hung, early>>
  BY DEF JoinWorkers, Goto
<1>2. PICK gone \in SUBSET Callbacks :
          wtask' = [k \in Callbacks |-> IF k \in gone THEN "lost" ELSE wtask[k]]
  BY DEF JoinWorkers, Workers!Lose
<1>3. wtask' \in [Callbacks -> Workers!Statuses]
      /\ \A k \in Callbacks : wtask'[k] = "lost" \/ wtask'[k] = wtask[k]
  BY <1>2 DEF IInv, Types, Workers!Statuses
<1>4. Types' /\ Flags'
  <2>1. Flags'
    BY <1>1 DEF IInv, Flags
  <2> QED  BY <1>1, <1>3, <2>1 DEF IInv, Types, MainPcs
<1>5. WithSystem' /\ InThePort' /\ InHands' /\ Counted'
  BY <1>1 DEF IInv, Tokens, WithSystem, InThePort, InHands, Counted, Owed
<1>6. WithCallback' /\ PoolAgrees'
  BY <1>1, <1>3 DEF IInv, Tokens, WithCallback, Active, PoolAgrees
<1>7. MainInv'
  BY <1>1, <1>3 DEF IInv, MainInv, Idle
<1> QED  BY <1>4, <1>5, <1>6, <1>7 DEF IInv, Tokens

-----------------------------------------------------------------------------
(* The theorems                                                            *)

LEMMA NextKeeps == IInv /\ [Next]_vars => IInv'
<1> SUFFICES ASSUME IInv, [Next]_vars PROVE IInv'
  OBVIOUS
<1>1. CASE Main
  BY <1>1, QuietSteps, OpenStep, IssueFirstStep, JoinWorkersStep DEF Main
<1>2. CASE System
  BY <1>2, CompleteStep DEF System
<1>3. CASE IoThreads
  BY <1>3, QuietSteps, GetStep, HandleStep DEF IoThreads
<1>4. CASE \E k \in Callbacks : CallbackBegins(k) \/ Callback(k) \/ Throws(k)
  BY <1>4, CallbackQuietStep, LastStep, NextStep DEF Callback
<1>5. CASE UNCHANGED vars
  <2>1. UNCHANGED opVars /\ UNCHANGED <<program, mpc, mclient, gMutex, m_tasks, rtask, nulls,
                                        m_stopevent, failures, hung, early>>
    BY <1>5 DEF vars, opVars, mainVars, poolVars, kernelVars, dataVars, userVars
  <2>2. Tokens' /\ Flags'
    BY <2>1, SameTokens DEF IInv, Flags
  <2>3. Types' /\ MainInv'
    BY <2>1 DEF IInv, Types, MainInv, Idle, opVars
  <2> QED  BY <2>2, <2>3 DEF IInv
<1> QED  BY <1>1, <1>2, <1>3, <1>4, <1>5 DEF Next

LEMMA InductiveInvariant == Spec => []IInv
BY InitIInv, NextKeeps, PTL DEF Spec

\* Every variable keeps its type; no entry is taken from m_tasks that is not
\* in it (RunTask, AsyncIOManager.cpp).
THEOREM TypeCorrect == Spec => []TypeOK
BY InductiveInvariant, TypesFromIInv, PTL

\* RunTask starts the callback of an operation only after everything about
\* that operation is in its CAsyncIOData, and nothing changes it until the
\* callback has started the next one: for any number of clients, of threads of
\* m_tiocppool and of operations, and any program of this shape.
THEOREM CallbackOfItsOperation == Spec => []CallbackIsOfItsOperation
BY InductiveInvariant, CallbackFromIInv, PTL

\* WaitForComplete leaves nothing behind: past its wait for the worker pool no
\* operation is under way, no completion waits and no callback will run.
THEOREM WaitLeavesNothing == Spec => []QuietAfterWait
BY InductiveInvariant, QuietFromIInv, PTL
=============================================================================
