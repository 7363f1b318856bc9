----------------------------- MODULE FilterPipe -----------------------------
(***************************************************************************)
(* CFilterPipe and CFilterThreadedPipe (WinSources/FilterPipe.cpp): two or *)
(* three filters, each writing to a connector the next one reads from.     *)
(* The plain pipe runs one filter after the other; the threaded one hands  *)
(* every do_filter to a thread pool, which is used here by what it         *)
(* promises (TaskBoard), and a reader that finds its connector empty looks *)
(* once more 200 ms later.                                                 *)
(*                                                                         *)
(* A connector is accessed under the process-wide lock of CScopedLock,     *)
(* from entry to exit but for the sleep, so each access is one step; do_   *)
(* pipe holds that lock while it adds the tasks.  Time passes in ticks: a  *)
(* filter takes each of its steps at most delay ticks after the one        *)
(* before, unless it sleeps.                                               *)
(***************************************************************************)
EXTENDS LineFilter

CONSTANTS
    Setups,     \* the pipes, input files and speeds to look at
    Nap,        \* the 200 ms of read in ticks
    MaxRounds   \* bound: calls of do_pipe

MaxFilters == 3

Text == Seq(STRING)

\* threaded: CFilterThreadedPipe; delay: the ticks a filter takes for a step
SetupOK(s) ==
    /\ s.m_Pipe \in Seq(Kinds) /\ Len(s.m_Pipe) \in 2 .. MaxFilters
    /\ s.m_LineEnd \in LineEnds
    /\ s.source \in Seq(Text) /\ \A i \in 1 .. Len(s.source) : s.source[i] # <<>>
    /\ s.threaded \in BOOLEAN
    /\ s.delay \in Nat \ {0}

ASSUME PipeAssumption ==
    /\ \A s \in Setups : SetupOK(s)
    /\ Nap \in Nat \ {0}
    /\ MaxRounds \in Nat
    /\ CR \in STRING /\ LF \in STRING /\ CR # LF

VARIABLES
    m_Pipe, m_LineEnd, source, threaded, delay,  \* one of the Setups
    phase, round, added,  \* where do_pipe is, the how-manieth call, tasks handed over
    task,      \* the pool's view of the callbacks of each round
    fpc,       \* per filter: where do_filter is
    st,        \* per filter: the locals of do_filter
    left,      \* per filter: ticks until its next step is due, or its sleep over
    rest,      \* what is left to read of the input file
    m_buffer,  \* per connector, named for the filter that writes to it
    output,    \* what the last filter wrote
    starved    \* a filter took an empty connector for the end while its writer ran

setup == <<m_Pipe, m_LineEnd, source, threaded, delay>>
mainVars == <<phase, round, added>>
filterVars == <<fpc, st, left>>
dataVars == <<rest, m_buffer, output>>
vars == <<setup, mainVars, task, filterVars, dataVars, starved>>

AllFilters == 1 .. MaxFilters
Filters == 1 .. Len(m_Pipe)
Rounds == 1 .. MaxRounds
Phases == {"new", "adding", "waiting", "returned"}
FilterPcs == {"off", "read", "nap", "write", "last", "done"}

Pool == INSTANCE TaskBoard WITH Tasks <- Rounds \X AllFilters, status <- task

Init ==
    /\ \E s \in Setups :
          /\ m_Pipe = s.m_Pipe /\ m_LineEnd = s.m_LineEnd /\ source = s.source
          /\ threaded = s.threaded /\ delay = s.delay
    /\ phase = "new" /\ round = 0 /\ added = 0
    /\ Pool!BoardInit
    /\ fpc = [f \in AllFilters |-> "off"]
    /\ st = [f \in AllFilters |-> FilterStart]
    /\ left = [f \in AllFilters |-> 0]
    /\ rest = <<>> /\ output = <<>>
    /\ m_buffer = [f \in AllFilters |-> <<>>]
    /\ starved = FALSE

-----------------------------------------------------------------------------
(* do_pipe                                                                 *)

\* the filters are opened: files from their start, the connectors as they were
Open ==
    /\ phase \in {"new", "returned"} /\ round < MaxRounds
    /\ phase' = "adding" /\ round' = round + 1 /\ added' = 0
    /\ rest' = source /\ output' = <<>>
    /\ fpc' = [f \in AllFilters |-> "off"]
    /\ st' = [f \in AllFilters |-> FilterStart]
    /\ left' = [f \in AllFilters |-> 0]
    /\ UNCHANGED <<setup, task, m_buffer, starved>>

\* under the lock; the pool has five threads and grows, so each callback
\* gets a thread of its own
AddTask ==
    /\ threaded /\ phase = "adding" /\ added < Len(m_Pipe)
    /\ added' = added + 1
    /\ Pool!Queue(<<round, added'>>)
    /\ left' = [left EXCEPT ![added'] = delay]
    /\ UNCHANGED <<setup, phase, round, fpc, st, dataVars, starved>>

Unlock ==
    /\ threaded /\ phase = "adding" /\ added = Len(m_Pipe)
    /\ phase' = "waiting"
    /\ UNCHANGED <<setup, round, added, task, filterVars, dataVars, starved>>

\* WaitForComplete, StopAll and JoinAll; the results nobody asks for are gone
Return ==
    /\ phase' = "returned"
    /\ \/ /\ threaded /\ phase = "waiting"
          /\ \A f \in Filters : task[<<round, f>>] = "finished"
          /\ Pool!Lose
          /\ \A f \in Filters : task'[<<round, f>>] = "lost"
       \/ /\ ~threaded /\ phase = "adding"
          /\ \A f \in Filters : fpc[f] = "done"
          /\ UNCHANGED task
    /\ UNCHANGED <<setup, round, added, filterVars, dataVars, starved>>

Locked == threaded /\ phase = "adding"

-----------------------------------------------------------------------------
(* do_filter of filter f                                                   *)

Goto(f, to) ==
    /\ fpc' = [fpc EXCEPT ![f] = to]
    /\ left' = [left EXCEPT ![f] = IF to = "nap" THEN Nap ELSE IF to = "done" \/ ~threaded THEN 0
                                    ELSE delay]

\* a thread of the pool takes the callback up, or the plain pipe calls it
Begin(f) ==
    /\ phase \in {"adding", "waiting"} /\ fpc[f] = "off"
    /\ \/ threaded /\ Pool!Start(<<round, f>>)
       \/ /\ ~threaded /\ \A g \in 1 .. f - 1 : fpc[g] = "done"
          /\ UNCHANGED task
    /\ fpc' = [fpc EXCEPT ![f] = "read"]
    /\ UNCHANGED <<setup, mainVars, st, left, dataVars, starved>>

\* do_filter returns, or goes on at another place
Continue(f, to) ==
    /\ Goto(f, to)
    /\ IF threaded /\ to = "done" THEN Pool!Finish(<<round, f>>) ELSE UNCHANGED task

\* a buffer was read: the filter that separates lines first needs another one
Take(f, b) ==
    LET first == m_Pipe[f] = "separate" /\ st[f].old = <<>>
    IN  /\ st' = [st EXCEPT ![f] = IF first THEN [@ EXCEPT !.old = b] ELSE NewBuffer(@, b)]
        /\ Continue(f, IF first THEN "read" ELSE "write")

\* an empty buffer was read, the end of the stream
TakeEnd(f) ==
    /\ Continue(f, IF st[f].old # <<>> THEN "last" ELSE "done")
    /\ UNCHANGED st

ReadFile(f) ==
    /\ f = 1 /\ fpc[f] = "read"
    /\ \/ rest # <<>> /\ Take(f, Head(rest)) /\ rest' = Tail(rest)
       \/ rest = <<>> /\ TakeEnd(f) /\ UNCHANGED rest
    /\ UNCHANGED <<setup, mainVars, m_buffer, output, starved>>

\* the connector is looked into: on entry, and after the sleep
Looks(f) == f # 1 /\ ~Locked /\ (fpc[f] = "read" \/ (fpc[f] = "nap" /\ left[f] = 0))

ReadItem(f) ==
    /\ Looks(f) /\ m_buffer[f - 1] # <<>>
    /\ Take(f, Head(m_buffer[f - 1]))
    /\ m_buffer' = [m_buffer EXCEPT ![f - 1] = Tail(@)]
    /\ UNCHANGED <<setup, mainVars, rest, output, starved>>

ReadSleeps(f) ==
    /\ Looks(f) /\ m_buffer[f - 1] = <<>> /\ threaded /\ fpc[f] = "read"
    /\ Goto(f, "nap")
    /\ UNCHANGED <<setup, mainVars, task, st, dataVars, starved>>

\* fault: no second look
ReadNothing_AtOnce(f) ==
    /\ Looks(f) /\ m_buffer[f - 1] = <<>>
    /\ TakeEnd(f)
    /\ starved' = (starved \/ fpc[f - 1] # "done")
    /\ UNCHANGED <<setup, mainVars, dataVars>>

\* fault: a threaded reader goes on until it finds something
ReadNothing_Never(f) ==
    /\ Looks(f) /\ m_buffer[f - 1] = <<>> /\ ~threaded
    /\ TakeEnd(f)
    /\ UNCHANGED <<setup, mainVars, dataVars, starved>>

ReadNothing(f) ==
    /\ Looks(f) /\ m_buffer[f - 1] = <<>> /\ (threaded => fpc[f] = "nap")
    /\ TakeEnd(f)
    /\ starved' = (starved \/ fpc[f - 1] # "done")
    /\ UNCHANGED <<setup, mainVars, dataVars>>

\* m_output->write: AddBufferItem takes no empty buffer, the output does
Emit(f, b) ==
    /\ f < Len(m_Pipe) => ~Locked
    /\ IF f = Len(m_Pipe) THEN output' = Append(output, b) /\ UNCHANGED m_buffer
       ELSE /\ m_buffer' = IF b = <<>> THEN m_buffer ELSE [m_buffer EXCEPT ![f] = Append(@, b)]
            /\ UNCHANGED output

Writes(f, b, s, to) ==
    /\ Emit(f, b)
    /\ st' = [st EXCEPT ![f] = s]
    /\ Continue(f, to)
    /\ UNCHANGED <<setup, mainVars, rest, starved>>

\* CCopyFilter, CLineWriteFilter with m_bLastLineHasLineEnd
WriteBuffer(f) ==
    /\ fpc[f] = "write" /\ m_Pipe[f] \in {"copy", "append"}
    /\ Writes(f, IF m_Pipe[f] = "copy" THEN st[f].buf ELSE st[f].buf \o NewLine(m_LineEnd),
              NewBuffer(st[f], <<>>), "read")

\* CLineWriteFilter without: the buffer before, now that another one follows
WriteBefore(f) ==
    /\ fpc[f] = "write" /\ m_Pipe[f] = "separate"
    /\ Writes(f, st[f].old \o NewLine(m_LineEnd),
              [st[f] EXCEPT !.old = st[f].buf, !.buf = <<>>], "read")

\* CLineReadFilter: one turn of the inner loop
WriteLine(f) ==
    /\ fpc[f] = "write" /\ m_Pipe[f] = "lines" /\ HasLine(st[f], m_LineEnd)
    /\ LET s == AfterLine(st[f], m_LineEnd)
       IN  Writes(f, Line(st[f], m_LineEnd),
                  IF s.test THEN SwapBuffers(s) ELSE s, IF s.test THEN "read" ELSE "write")

NoLine(f) ==
    /\ fpc[f] = "write" /\ m_Pipe[f] = "lines" /\ ~HasLine(st[f], m_LineEnd)
    /\ st' = [st EXCEPT ![f] = SwapBuffers(Settle(@))]
    /\ Continue(f, "read")
    /\ UNCHANGED <<setup, mainVars, dataVars, starved>>

\* what is left when the stream has ended
WriteLast(f) ==
    /\ fpc[f] = "last"
    /\ Writes(f, st[f].sub \o st[f].old, FilterStart, "done")

Filtering(f) ==
    \/ ReadFile(f) \/ ReadItem(f) \/ ReadSleeps(f) \/ ReadNothing(f)
    \/ WriteBuffer(f) \/ WriteBefore(f) \/ WriteLine(f) \/ NoLine(f) \/ WriteLast(f)

-----------------------------------------------------------------------------
Running(f) == threaded /\ fpc[f] # "done"

\* a step that is due comes before the next tick
Tick ==
    /\ phase = "waiting"
    /\ \A f \in Filters : Running(f) /\ fpc[f] # "nap" => left[f] > 0
    /\ \E f \in Filters : left[f] > 0
    /\ left' = [f \in AllFilters |-> IF left[f] > 0 THEN left[f] - 1 ELSE 0]
    /\ UNCHANGED <<setup, mainVars, task, fpc, st, dataVars, starved>>

Main == Open \/ AddTask \/ Unlock \/ Return
Filter(f) == Begin(f) \/ Filtering(f)

Next == Main \/ Tick \/ \E f \in Filters : Filter(f)

Spec == Init /\ [][Next]_vars

\* Every thread is scheduled and a sleep ends: do_pipe once called is carried
\* through, and each filter takes its steps.
FairSpec ==
    /\ Spec
    /\ WF_vars(AddTask \/ Unlock \/ Return)
    /\ WF_vars(Tick)
    /\ \A f \in AllFilters : WF_vars(f \in Filters /\ Filter(f))

-----------------------------------------------------------------------------
Buffers == Seq(Text)
FilterStates == [buf : Text, pos : Nat, old : Text, sub : Text,
                 test : BOOLEAN, off : 0 .. 2]

\* Every variable has its type.
TypeOK ==
    /\ SetupOK([m_Pipe |-> m_Pipe, m_LineEnd |-> m_LineEnd, source |-> source,
                threaded |-> threaded, delay |-> delay])
    /\ phase \in Phases /\ round \in 0 .. MaxRounds /\ added \in 0 .. MaxFilters
    /\ task \in [Rounds \X AllFilters -> Pool!Statuses]
    /\ fpc \in [AllFilters -> FilterPcs]
    /\ st \in [AllFilters -> FilterStates]
    /\ left \in [AllFilters -> Nat]
    /\ rest \in Buffers /\ output \in Buffers
    /\ m_buffer \in [AllFilters -> Buffers]
    /\ starved \in BOOLEAN

Expected == PipeOf(m_Pipe, source, m_LineEnd)

\* Whatever the input file was cut into and however the threads were
\* scheduled, at every moment the pipe has written a beginning of what its
\* filters make of the file, and all of it when do_pipe returns - unless a
\* reader took a pause of its writer for the end.
Delivers ==
    ~starved => /\ IsPrefix(output, Expected)
                /\ phase = "returned" => output = Expected

\* With two filters that takes a slow first one: where every buffer read
\* gives one to write and reading and writing it take less than the 200 ms
\* of CFilterThreadedPipeConnector::read, the second never stops early.  The
\* plain pipe never does.
Prompt == Len(m_Pipe) = 2 /\ m_Pipe[1] \in {"copy", "append"} /\ 2 * delay < Nap

StarvesOnlyWhenSlow == starved => threaded /\ ~Prompt

\* do_pipe returns, with filters that stopped early too.
PipeReturns == (phase \in {"adding", "waiting"}) ~> (phase = "returned")
=============================================================================
