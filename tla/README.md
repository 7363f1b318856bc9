# Verification of UserLib

UserLib is a C++ framework on a C kernel: a memory allocator with reference
counts, data structures, strings and buffers, threads and thread pools, filters,
asynchronous I/O, an HTTP server, databases, console and GUI classes.  This
directory holds TLA+ models of the parts whose errors tests hardly reach, TLC
runs that check them on small instances, and TLAPS proofs for all instances.
All paths below are relative to the source tree.

## 1. The system

| part | code | state | operations | what is hard |
|---|---|---|---|---|
| memory allocator | `CSources/TFMEM.C` | two B-trees of blocks (handed out, free), a header per block, regions from malloc | `TFalloc`, `TFfree`, `TFrealloc`, `TFincrefcnt`, `TFdecrefcnt`, `_TFexit` | lazy initialisation, cutting and reuse of blocks, operations in several locked parts |
| red-black and AVL tree | `CSources/LISTE.C` | nodes with three links, colour or balance | insert, remove, find, first/last/next/prev | repair after removal, parent links |
| B-tree | `CSources/LISTE.C` | nodes of data or children, a key each | insert and remove by order or by position, find, walk, index | splits and joins over several levels, keys of data long gone |
| dBase index | `CSources/DBASENDX.C` | the B-tree, each node a page of a file | insert, remove, find, batch, open and close | which pages a call must write, in which order |
| lists, vectors, hash tables | `CSources/LISTE.C`, `SLISTE.C`, `UTLPTR.C` | nodes, pointer arrays | insert, remove, search | boundaries, links |
| string and byte buffer | `CppSources/StringBuffer.cpp`, `ByteBuffer.cpp` | a pointer to a shared, counted block | set, append, insert, delete, copy, scan | copy on write between threads |
| lock, condition, event | `WinSources/Mutex.cpp`, `ScopedLock.h`, `ConditionVariable.cpp`, `Event.cpp` | pthread objects | lock, sleep, wake, set, wait | lost wake-ups, timeouts |
| threads and thread pool | `WinSources/Thread.cpp` | list of workers, a queue of tasks and of results for each | `AddTask`, `WaitForComplete`, `GetTaskResultAndRemove`, `StopAll`, `JoinAll` | everything: interleaving, growth, timeouts, shutdown |
| filter pipe | `WinSources/FilterPipe.cpp`, `CppSources/Filter.cpp` | a buffer between every two filters, the locals of each filter | `read`, `write`, `do_filter`, `do_pipe` | end of stream against a slow writer, text cut anywhere |
| asynchronous I/O | `WinSources/AsyncIOManager.cpp`, `AsyncFile.cpp`, `AsyncTCPClient.cpp` | completion port, two pools, open tasks | open, read, write, complete, stop, wait | order of completion and shutdown |
| HTTP server, cache, service | `WinSources/HttpServer.cpp`, `HttpCache.cpp`, `Service.cpp` | worker processes, handle tables, files | accept, dispatch, restart | full tables, partial failure |
| databases, archives, ciphers, parsers, dates, GUI, console, applications | the rest | files, handles, widgets | | sequential, or defined by a standard or a third party |

How they interact.  Every C++ object, string and buffer lives in a block of
TFMEM, whose reference count is the object's; TFMEM has one lock of its own.
`CScopedLock` is one recursive lock of the process, which the pool's operations
keep from entry to exit; each worker has in addition the lock of its
`m_condition`, which protects its two queues.  The filter pipe and the
asynchronous I/O manager hand `CThreadCallback`s to pools and wait with
`WaitForComplete`, `StopAll`, `JoinAll`.  The trees hold TFMEM's blocks (an own
copy of the B-tree), the databases' indices and most other collections.

What makes the parts correct:

* pool - a task added runs once, on one worker, and has one result; waiting means
  idle; joining means ended; stopping is noticed; adding is answered.
* allocator - blocks do not overlap, are large enough and zero; counts count;
  resizing keeps the contents; every region goes back once.
* trees - a sorted set (or a sequence) behind every sequence of calls, of
  logarithmic height; the file of an index is the index, and a crash does not
  spoil what the call had nothing to do with.
* strings - values: no call on one shows in another.
* pipe - what is written is what the filters make of what is read, all of it,
  whatever the buffers are cut into.
* asynchronous I/O - each callback sees the outcome of its own operation, and
  when waiting has ended nothing is under way.

`PROJECT.json` lists the components and, line by line, the hazards.

## 2. Modules

| module | what it is |
|---|---|
| `TaskBoard` | what a pool promises about a task: new, queued, running, finished, collected, or lost |
| `ThreadPool`, `MCThreadPool` | CThread, CPooledThread, CThreadPool with locks, condition variable and event (unix); the instances |
| `ThreadPoolProofs` | its inductive invariants: locals, waiting, joining; a task runs once, and the pool implements `TaskBoard` |
| `LineFilter` | what each filter does with a buffer, and what it is for |
| `FilterPipe`, `MCFilterPipe` | the plain and the threaded pipe, the latter on a `TaskBoard`, in ticks of time |
| `FilterPipeProofs` | where a filter stands in the text, and that what it writes is what it should; the pipe delivers what its filters make of the file; a prompt writer's reader never stops early |
| `AsyncIOManager`, `MCAsyncIOManager` | the completion port between the system, two pools (`TaskBoard`s) and two programs |
| `AsyncIOManagerProofs` | callbacks and operations belong together, and nothing is under way after waiting |
| `TFMem`, `MCTFMem` | the allocator; its instance |
| `TFMemProofs` | all its properties, for any geometry |
| `StringBuffer`, `MCStringBuffer` | copy on write of CStringBuffer over counted blocks |
| `StringBufferProofs` | the counts are exact, a writer is alone, and `StringBuffer` implements `StringValues` |
| `StringValues` | what a string promises: its owner's calls and nothing else change it |
| `TreeCalls` | the calls of a tree and its answers |
| `BinaryTree`, `SortedTree` | nodes, links, searches and walks of both binary trees; their state, and what callers of either rely on |
| `RBTree`, `AVLTree` | insert and remove with their rotations and repairs |
| `BTree` | the B-tree, used by order or by position |
| `FBTree` | the B-tree as pages of an index file |
| `SortedSet` | what a tree promises: contents and answer to each call |
| `MCBinaryTree`, `MCTrees` | the red-black and the AVL tree, and the three of B-trees, for TLC |
| `BinaryTreeProofs` | what a rotation, a leaf and a cut do to links and order, where searches and steps end, and that walks visit every node |
| `RBTreeProofs` | all that is checked of the red-black tree, for any number of nodes |
| `AVLTreeProofs` | the same of the AVL tree |

### ThreadPool

Variables carry the names of the code (`m_Threads`, `m_TaskQueue`, `m_bStop`).
An actor is a client thread or a worker inside a task, for tasks may add tasks.
`pc[a]` is where actor a is in a pool operation, `wpc[t]` where worker t is in
`Run`.  A step goes from one point where another thread can get in to the next:
taking a lock, giving one back, blocking.  The code between is one action; the
global lock is recursive, so nested `CScopedLock`s never block and belong to the
step.  `sleep(100)` of the worker unlocks and blocks in one step, as
`pthread_cond_timedwait` does, so a worker that found its queue empty hears of
what comes next; but the wake after `AddTask`'s unlock (462) is a step of its own,
and one that comes while the worker runs a task reaches nobody.  Sleeping ends by a
signal or by the timeout (`RunTimeout`).  Deadlines are computed on a scaled
clock (`NanosPerSecond`, `ClockReadings`).  A failing `pthread_create` is allowed
`MaxStartFailures` times.  A task answers with a value or throws a
`CBaseException*` (-4); other exceptions, which `Run` does not catch (511), are left
out, and so is a task that answers UINT_MAX, which is `E_NORESULT`: `NoResult` is
not among `ResultCodes`.

### FilterPipe

A text is a sequence of characters, a file a sequence of buffers, and what each
`do_filter` does with a buffer is an operator of `LineFilter` on the record of
its locals (`curBuf` and `bufPos` become `buf`, `pos` and `old`).  One action is
one read or one write of a filter with the work up to the next.  The access to a
connector is under the process lock but for the sleep of 200 ms, so a reader that
found nothing looks once more `Nap` ticks later, and takes what it then sees
for the answer.  `Tick` lets time pass once every filter has done what is due:
`delay` is the longest time a filter takes for a step, which is the only way to
say what "slow" means for a sleep without a condition.  `do_pipe` may be called
again on the same pipe (`MaxRounds`), whose connectors keep what was left in them.
`Expected` is `PipeOf`: the filters applied one after the other to the whole
file, with what `AddBufferItem` does to an empty buffer.  It does not know of
buffers being cut: `Scan` reads the text of all buffers (`Joined`) character by
character, with the lines ended so far and the one left open, and `Kept` drops the
empty lines on the way to the next filter (`Passed`).

### AsyncIOManager

A client is one conversation with one operation under way at a time; operations
are numbered, and the fields of `CAsyncIOData` hold the number of the operation
they were written for.  The system completes operations at any time (`Complete`),
before `AddTask` has listed them too.  A thread of `m_tiocppool` takes a
completion (`GetCompletion`) and handles it under the lock (`Handle`); the
callback runs on `m_tworkerpool`, under `CScopedLock` where the program takes it.
`Programs` are the file copy and the TCP client of `XTest/Program15.cpp`, which
differ in that lock and in which callbacks look at the outcome.  The TCP client
opens its connections one by one while callbacks already run.

### TFMem

TFLOCK is held over each operation, so an operation is one step; `TFrealloc` is
three, and the test for the pools and their creation are steps without the lock.
A region is what malloc returned, an item a header in it; `dirty` is the set of
bytes that are not zero.  The sizes are scaled (header 1, blocks cut in two,
grains 1, 4 and 1, limits 3 and 4 instead of 256 and 1024) so that what makes the
geometry of TFMEM hard occurs: the largest small item, the smallest large one and
the block that is cut for the smallest items have the same size (1024 there, 4
here), so the first item of a cut block, which carries ALLOCBLOCK, may itself be
cut again, a small item may serve a large request, and a large block may shrink.
The B-trees are sets.  A search for a size looks into one leaf, the last whose key
is not above the size (`_TFBTreeLowerBoundHelper`); of several items of one size it
may come to a later leaf than the first of them, and the key of a leaf may be an
item that has left the tree (641) and was made smaller since.  So a search may
meet any item that fits, or none although there is one (`LowerBound`, `MayMiss`),
which is more than the code can do and all that the properties need.

`filled` is a history variable: how many of its bytes the user of a block has
written, which everybody after that may expect to find there (`ContentsKept`).
`TFrealloc` is called by the only owner of a block, as by vectors (`LISTE.C:991`) and `ByteLinkedBuffer` (672):
it hands the count to the new block and frees the old one whatever its count is, so
other owners would be left with a freed block.  `TFrealloc` to 0 is `TFfree`, and
`GiveUp` is both, of a block that has one owner.  `TFrealloc(NULL)` returns NULL.

### Trees

A tree is a record of its root, its node count and functions from node ids to
links and contents, and one call of the code is one operator on such records: the
trees are sequential and their user is one thread.  `TFalloc` may refuse a node of
a binary tree when all are in use or lost.  The swap of data in the red-black
removal and the copy in the AVL one are kept apart, as in the code.  `SortedTree` is
the state of either binary tree, of which `kind` says which it is, and holds the
properties; `rank` is the color or the height.  `RBTree` and `AVLTree` are the calls.

The helpers of `BTree` are recursive in the code and return the way they came;
the model climbs by the parent links instead, which are the same way as long as
`LinksAgree`.  The repairs of the red-black tree call `InsertCase1` and
`DeleteCase1` again one or two levels up, as their last action: `InsertLast` and
`DeleteLast` are the last such call, and a loop of `MaxNodes` rounds is long enough
because each goes up.  A node's `key` is kept apart from its first datum, for the code
lets the two differ.

`FBTree` works on the tree and the store together.  `store.file` is what a program
that opens the file would read; `store.torn` lists the files after each single
write of the last call, which are what a crash can leave.  All nodes are taken as
loaded (one that is not loaded is equal to its page by `FileAgrees`), one page is
written whole or not at all, and the keys of the records differ.  In a batch
nothing is written until `FBTreeEndBatch`, which writes children before parents.
`Reopen` builds the tree from the pages; it comes between batches, for closing
within one throws away what it did not write.

### StringBuffer

An object has an owner, the thread that uses it, and may be handed over between
calls; blocks are shared across threads.  Each call of TFMEM (`TFrefcnt`,
`TFalloc`, `TFdecrefcnt`, `TFfree`, `TFincrefcnt`) is a step, so are the copying
and the change of the characters.  A block is an array of cells with the
terminating 0, of the size asked for or larger by up to `Slack`; new blocks are
zero, which `TFMem!FreeIsZero` justifies and `SetSize` relies on.  Calls with an
early return that changes nothing are not made, nor are calls of `ScanString` with a
field width that reaches to the end of the string or beyond it, where the cut (626,
653, 680) changes the terminating 0 or what is behind the string: the caller has to
see to it.

## 3. Runs

Runs of "pass" hold; "violation" runs are disagreements found in the code.

| run | module / cfg | shows |
|---|---|---|
| threadpool_safety | MCThreadPool / ThreadPoolSafety | two tasks, one client that uses the pool and shuts it down while another and the tasks themselves add: `RunsOnce`, `WaitMeansIdle`, `ReleasedHasEnded`, `ThreadJoinAllMeansEnded`, and the pool implements `TaskBoard` (`KeepsPromise`).  A start may fail, and clock readings that make `sleep` throw are included |
| threadpool_use | ThreadPoolUse | three tasks, two workers, one client adds all three and waits; nobody stops the pool and no timeout is needed: every task gets its result, every wait returns, a task queues behind another only when the pool cannot grow, and the worker removes the task it ran |
| threadpool_stop | ThreadPoolStop | every stopped thread ends, `CThread::JoinAll` returns |
| filterpipe | MCFilterPipe / FilterPipe | pipes of two and three filters on every way to cut a text: what arrives is what the filters make of the file (`Delivers`), a reader gives up early only behind a slow writer (`StarvesOnlyWhenSlow`), `do_pipe` returns (`PipeReturns`) |
| line_read | MCFilterPipe / FilterPipeDos | violation: see 5 |
| asyncio | MCAsyncIOManager / AsyncIOManager | file copy and two TCP conversations over two completion threads: `CallbackIsOfItsOperation`, `QuietAfterWait`, `WaitReturns` |
| tfmem | MCTFMem / TFMem | two threads allocate four sizes, share, write, release, resize: blocks disjoint, large enough, zero; a block has as many owners as its count or is in the hands of one call; what was written stays; regions freed once |
| binary_trees | MCBinaryTree / BinaryTree | every shape of a red-black tree (nodes lost included) and of an AVL tree of fourteen nodes that calls can reach, a full heap included: links, colors and black heights, kept heights and balance, walks; each call answers and changes what one on `SortedSet` does |
| trees | MCTrees / Trees | every shape of B-tree, by order and by position, and of index files, that calls can reach: links, balance, walks, keys; each call answers and changes what one on `SortedSet` does; the file agrees with memory after each call; a crash inside one brings back nothing old, loses at most what was being moved to an appended page, and outside of a batch leaves a datum twice at most and one empty page at most (`CrashKeeps`) |
| btree_keys | MCTrees / BTreeKeys | violation: see 5 |
| string_share | MCStringBuffer / StringBufferShare | three strings, two threads, five calls, and two strings, one thread, every call: counts, nothing freed in use, nothing lost, writers alone, strings are values; positions and capacities, and `ScanString` undoes its cut |
| string_scan | StringBufferScan | violation: see 5 |

Bounds, and why they are enough.

* Pool: `MaxThreads` (workers ever created) is `m_Max`, two: growth, being full,
  and a worker created after another was joined occur; two tasks reach a queue
  with one task running and one behind, three tasks one more than there are
  threads.  `MaxStartFailures` is 1.  Tasks are symmetric.  threadpool_safety
  does not check for deadlock, because a worker whose `sleep` threw keeps its
  lock and others do block on it.  `TaskGetsResult` and `WaitReturns` speak of
  what was added and of the clients that wait, so in threadpool_use one client
  does both.
* Pipe: files of up to three buffers of one or two characters put every line end,
  and every way to cut one, at the start, in the middle and at the end of a
  buffer, with an unfinished line before and after.  The files with `\r\n` leave
  out those of line_read.  The threaded pipes read three buffers, at `delay` 1,
  which is prompt for `Nap` 3, and at 2, which is not; `MaxRounds` 2 shows what a
  first call leaves to a second.  The threaded pipe's pool has room for each
  callback.  The runs end when `do_pipe` is not called again, so deadlock is not
  checked.
* Asynchronous I/O: `MaxOps` 3 is a first operation of the main thread, one of a
  callback, and a last one; two clients and two completion threads take and handle
  completions in either order; `MaxFailures` 1.  The run ends with
  `WaitForComplete`, so deadlock is not checked.
* Allocator: malloc may fail at any time, and does beyond `MaxHeap` 12 bytes, which
  are two blocks of 4 (large, or cut in two), or one of 4 and a large one of 6, or one
  cut into two items of 4, with their headers.  `MaxHeld` 2 lets a thread call `TFalloc` while one
  block is held; two such calls may be under way at once, and `TFrealloc` adds one
  more, so a free block between two used ones occurs.
  `MaxRefs` 2 allows sharing.  One thread makes the first call
  (`Starters`), as a program does whose main allocates before it starts threads:
  the race of two first calls (1109) is in the model, where it breaks the
  invariants because the pools are created twice.
* Trees: `MaxNodes` 14 of binary_trees reaches every case of the repairs, in both
  mirrored forms; twelve nodes are the fewest of which a removal rotates an AVL tree
  twice.  With `Entries` 4 a B-tree has three levels from 6 data on; `MaxData` and
  `MaxFileData` 7 and `MaxListData` 10 let it grow to them, split inner nodes and
  shrink again, and `MaxB`, `MaxFile` 14 and `MaxList` 16 leave the nodes that this
  takes.  A batch has `BatchCalls` 2 calls, of which the second meets nodes the
  first has marked.  Pages are twice the nodes; a page that nothing leads to is
  given out again in the model, which the code never does, but such a page is
  never read.
  All runs of trees use a VIEW, `Seen`: data and keys are replaced by their ranks, node ids
  by their place, and parent links by whether they agree with the links down.  The
  number of nodes in use, the count and what the nodes keep of their own (color,
  height, `tested`, and in index files page, marks and batch) are in the view as
  they are, so that each invariant has one value in all states of a view: a call that
  leaves one wrong link or count leads to a state TLC has not seen.  The trees read data through comparisons only, so two states
  alike up to ranks have futures alike up to ranks, provided that the same
  comparisons can come out of the next call: `Candidates` therefore offers every
  value held (in lost nodes of a red-black tree, too, which is harmless) and one in
  every gap, and `Assert` stops TLC if a gap were used up.
  The last answer is left out, for nothing reads it; TLC tests the step properties
  on every transition it generates, those into states already seen included.
* Strings: two threads make every pair of steps meet; one block more than strings
  serves the copy under way (with both threads copying, one waits for the other's
  release, which always comes).  `ShareSpec` chooses at the start between two
  threads (`Together`: five calls, lengths up to 2) and one (`Alone`: every call,
  lengths up to `MaxLen` 3); threads, strings and blocks are symmetric.  `Slack` is
  0: spare cells come from strings that became shorter, and the theorems hold for
  every `Slack`.

Fairness.

* Pool: `SignalSpec` is strong fairness of each pool operation once called and of
  each worker's step: the operating system schedules every thread, and a
  lock is got if it keeps coming free, for whoever competes for it sleeps
  100 ms between two attempts (`sleep(100)`, `WaitForComplete`, `Join(100)`).
  Nothing obliges a client to call anything.  `RunTimeout` is not fair in
  `SignalSpec`, so that threadpool_use shows that no task depends on it; `FairSpec`
  adds it for shutdown, where the code has nothing else.  `invoke()` is taken to
  return: a task that hangs is the caller's.
* Pipe: weak fairness of each filter's thread, of `do_pipe` once called, and of
  time.  Nothing obliges anybody to call `do_pipe`.
* Asynchronous I/O: weak fairness of the main thread, of each completion thread
  and callback, and of the system, which ends every operation (the peer answers or
  hangs up).  Callbacks begin as long as the worker pool was not stopped, which
  is what `ThreadPool!TaskGetsResult` gives.  Weak fairness is enough where the
  lock is concerned because a conversation ends after `MaxOps` operations: nobody
  can take the lock away for ever.

Mutants.  Every property of every passing run is violated when one definition is
replaced by a plausible error (`mutants` in PROJECT.json); the alternatives stand
before the definition they replace, under a comment that says what is wrong.

## 4. Proofs

Each proof module states an inductive invariant `IInv`, lemmas of one action each,
and the theorems.  Every such invariant was checked by TLC as an invariant of the
component's run before it was proved; those of the red-black and
the AVL tree, which speak of functions on all nodes, by their parts, which are what
binary_trees checks.

`ThreadPoolProofs`, for any clients, tasks, `m_Min`, `m_Exp`, `m_Max`, bounds and
permissions that satisfy `ConstantsAssumption`: `TypeCorrect`;
`RunningIsHeadAlways`, the reason why a worker may remove `m_TaskQueue.Begin()`
after it ran a task without the lock; `WaitForCompleteMeansIdle`, the action
property of threadpool_safety.  `IInv` is TypeOK and RunningIsHead plus three
parts neither is inductive without: `LocalsOK` (an operation that will use a task,
a thread or a result has chosen one), `JoinOK` (the position of a `JoinAll` stays
within a list it does not hold the lock of, because only the joining actor shortens
it) and `WaitOK` (a `WaitForComplete` holds the global lock during its scan, and
the threads it has passed still have empty queues: adding needs that lock, and
workers only remove).  The assumption that one place shuts the pool down is the
code's usage: the two loops over the list (738, 301) keep an iterator over a lock
they give up.

Its second part, under the same assumptions: `EveryTaskRunsOnce`,
`PoolReleasesEnded`, `ThreadJoinAllEndsAll`, `QueuesBehindOnlyWhenFull` and
`PoolKeepsPromise`, so that everything threadpool_safety checks, and all that
threadpool_use checks but liveness, holds for every pool.  `JInv` adds to `IInv` what
the lists say about the threads (`ListsOK`: who runs is in both lists, who was not
created yet has nothing), what `AddTask` and `JoinAll` may rely on from one step to
the next (`AdderOK`: no one else adds while the lock is held, so a queue found empty
still is; `JoinerOK`: the thread waited for stays at its position, and only one that
has ended is dropped), and `OnePlace`: a task is with the caller of `AddTask`, in one
queue at one position, or done with.  `OnePlace` is what `RunsOnce` lacks: without it
a task might be in two queues, or be invoked again after its answer.  For the
refinement each step is shown to move the status of one task (`AppendQueues`,
`InvokeStarts`, `FinishFinishes`, `ScanCollects`), to lose what a released thread
still has (`ReleaseLoses`; what runs is never lost, because that thread has not
ended), or to leave all as they are.

`TFMemProofs`, for any threads, request sizes, header size, limits, grains, number
of items per block, `Slack` and bounds that satisfy `SizesAssumption`, and under
`OneStarter` (one thread makes the first call; with two the pools are created
twice): `TypeCorrect`, `BlocksNeverOverlap`, `BlocksAreBigEnough`, `ExitIsExact`,
`HandedOutZeroed`, `CountIsOwners` and `ContentsStay`, which is everything the
tfmem run checks.  `ItemsDisjoint` is not inductive in the form it has, as common
bytes; `Apart` says that of two items in a region one lies wholly before the
other, which a cut keeps because its pieces lie inside the block that is cut:
`CutSize` is a product, and the proof needs only that k pieces of the same size
follow each other (`Pieces`).  That free blocks are zero needs more than it says:
what is written is in blocks that are handed out, and a block under `TFrealloc` or
about to be freed has no owner.  `Own` accounts for these: every handed out block
has owners, who are as many as its count, or is the one block (`Mine`) that one
call is about to free or to fill.  `ContentsStay` rests on the same account.
A handed out block and the new block of a `TFrealloc` have the bytes written that
`filled` says (`Contents`); a step that writes elsewhere keeps them because blocks
are `Apart` (`SameContents`), a step that clears is about a block nobody has, and the
copy takes over the beginning of the old block, which no one but its caller can
have changed since the size was read (`CopiedIsPrefix`).

`StringBufferProofs`, for any threads, strings, blocks, texts and calls that
satisfy `StringAssumption` (of which it uses that there are finitely many strings,
that no block is NULL and that lengths are natural numbers): `Invariance`, and
`RefCountsHoldersAlways`, `NoneFreedNoneLostAlways`, `WritesItsOwnAlways`, the three
invariants of string_share about shared blocks.  Its `IInv` is `LinkTypeOK` and
`NoneFreedNoneLost` with five parts more: `CallOK` (a thread works on a string it
owns, and what it is about to use is there), `BufOK` (a new block under way is
known to its thread alone and has count 1), `FreeOK` (who is about to free a block
found its count at 0, and only one thread did), `CountOK` (any other block's count
is the number of strings that hold it) and `WriteOK`.  The argument: TFMEM's lock
makes each change of a count one step, and every change of a pointer by a thread is
matched by a change of the count before or after it, with the string taken for
uncounted in between (`Uncounted`).  A thread that found count 1 is alone, and stays
so, because a second holder could only come from a string that holds the block, and
the only one is the thread's own.  A copy is safe between `_string = copy._string`
and `addRef` because its source belongs to the same thread.  `HoldersStep` says once
that a step on one string disturbs no other holder; each action's lemma rests on it.

Its second part, from the same and `NoCallAssumption`, and only if `Names` has no
`ScanString`: `StringsAreValues` (the refinement of `StringValues` that string_share
checks) and `TypeOKAlways`.  With `ScanString` they are false: while it
has cut a shared string another thread may measure it, and copy too little.  The
first half is about the editing calls as functions of an array of cells:
`Holds(m, s)` says that the array begins with the text s and its 0; `EditedIs` that a
call which writes into cells that are what it needs (`Editable`) leaves a result that
`StringValues` allows; `KeptIs` and `NewIs` that what it took over into a zeroed block
is a result already or what it needs.  No induction is needed: the length of a
string is the only place that `Holds` allows for its first 0.  The second half adds
to `IInv` that a string no call is changing (`Settled`) is in its block what its
users think it is (`Val`, the refinement mapping), and how far each call got
(`RunOK`).  Then every step of a call changes no other string (`Frame`, `OthersKeep`,
`OwnKeep`, which rest on `Holders` and `BufOK`), and is a stutter (`GoesOn`) or the end of
the call with one of its outcomes (`EndsCall`).

`FilterPipeProofs`, for any pipes, files, speeds, `Nap` and number of calls that
satisfy `PipeAssumption`: `TypeCorrect`, `StarvesOnlyWhenSlowAlways` and
`DeliversWhenWellCut`, so that everything the filterpipe run checks but liveness
holds for every pipe.

`StarvesOnlyWhenSlow`: in a plain pipe or
behind a prompt writer no reader takes a pause for the end.  The invariant `IInv` follows
the time: `InTime` (a filter that does not sleep is due within `delay`),
`NoSleepYet` (nobody sleeps while `do_pipe` holds the lock, so the second filter
cannot be ahead of the first), and `WakesAfter` (while the second filter sleeps
on an empty connector, the first will have read and written before it wakes, for
that takes at most two steps of at most `delay` each).  `FirstCopies` is why two
steps suffice: a copying filter writes each buffer it reads, and a file has no
empty ones (`InputOK`).  For the plain pipe `OneAfterTheOther` is enough.

`Delivers`: as long as no reader gave up early, the output is a beginning of
`Expected` at every moment, and all of it when `do_pipe` returns.  The theorem has the hypothesis `WellCut`, without which it is false
(line_read, section 5): no filter that reads lines ending in `\r\n` is given the
first `\r` of its text at the end of a buffer.  `WellCut` speaks of the pipe and
the file alone, holds of every file whose lines end in `\n` or `\r`, and of
all files of the filterpipe run.  The invariant `FlowInv` says that there are
two numbers for each filter, the buffers it has read and written (`Flow`):

* each filter `Stands` where these numbers say, which relates its locals to the
  text: for the filter that reads lines, `subBuf`, what is left of both buffers and
  `bTestDosLineEnd` make up what `Scan` has as the open line at that
  character, and as many lines are written as `Scan` has ended there; `fposoff` is 1
  or 2 unless no `\r` has come yet (`OffSet`), which is where `WellCut` is needed;
* the connector behind it `Holds` what it has written, but for empty buffers, less
  what the next one has read; the output is what the last one has written.

The first part of the module has the steps of one filter: it takes a buffer, writes a line or
a buffer, finds no line, sees the end; each leads from where it stands to where it
stands next, and what is written is the next of what `Filtered` promises
(`WritesNext`).  The last part puts the filters together: a step moves one
filter, and one connector on each side (`FlowMoves`).  At the end every filter has
read and written everything, connector by connector, because a reader that did not
give up early found its connector empty after the writer was done (`DoneInv`,
which rests on the status of the tasks, `TaskInv`).

Two lemmas make recursive functions accessible, here and in `BinaryTreeProofs`: a
recursive definition `f[i \in S] == e` chooses a function that satisfies its
equation, so what must be shown is that there is one (`IterateExists`), and
induction is stated of a set instead of a predicate (`Induction`).

`AsyncIOManagerProofs`, for any clients, completion threads, programs and numbers
of operations and failures that satisfy `AsyncAssumption`: `TypeCorrect`,
`CallbackOfItsOperation` and `WaitLeavesNothing`.  The invariant says that the
operation a client has under way is in one place: with the system (`WithSystem`),
in the port (`InThePort`), in the hands of a completion thread (`InHands`) or with a
callback (`WithCallback`).  In the first three `Offset` is one behind the number of
the operation, with the callback it is level, and so they exclude each other
without a word about pairs of places.  A client with an operation is in
`clientlist`, and the stop event is set when that is empty; hence after the wait
for the workers there is nothing left (`MainInv`).

`RBTreeProofs`, for any number of nodes and any data (`TreeAssumption`: at least one
node, data are integers): `TypeCorrect`, `LinksAgreeAlways`, `VerifyPropertiesCorrect`,
`VisitsInOrderCorrect` and `SortedSetCorrect`, which is everything binary_trees checks of it: what
RBBinaryTreeVerifyProperties asserts holds after every call, the walks visit all data in
order, and the tree implements `SortedSet`.

A tree is hard to reason about by the paths in it, for they change with every
rotation and end somewhere only by induction.  The proofs therefore carry two
functions along: S, the set of nodes that hang below each node, and H, the black
height of each.  Both are determined by their equations at each node and its two
children, and a rotation changes S at two nodes and H at none.

* `BinaryTreeProofs` says what the links are: in a tree that is `Tied`, S satisfies
  its equation (`Subtrees`), the data left of a node are smaller and those right of
  it larger (`Ordered`), and child and parent know each other (`Linked`).  A
  rotation (`RotatedTied`), a new leaf (`GrownTied`) and a node with at most one
  child cut out (`CutTied`) keep it so, for an S that is written down.  In a tied
  tree `Descend` ends where the data belong (`DescendIs`), `Step` is the next node in
  order (`StepIs`), and the k-th step of a walk is at the node of rank k
  (`OnwardIs`), so that `WalksInOrder` (`WalksAre`).
* `RBTreeProofs` says that red nodes have black children but for one place (`Reds`) and
  that H satisfies its equation but for the nodes that are one too low (`Heights`,
  `Due`) and for one node whose color no longer counts because it is about to leave
  (`Weight`).  With these exceptions as parameters each repair case is one lemma: in
  `Inserting` a red node may have a red child, in `Deleting` one subtree is one too
  low; each case either ends in a tree without exceptions (`Repairs`, `Mends`) or
  hands the exception to a node higher up.
* That the climb ends within `MaxNodes` rounds (`ClimbEnds`): what hangs below the
  node of a call is more with each round.
* `IInv` is that some S makes the tree `Sound` (tied, without exceptions, the nodes in
  use holding the tree), and that the reply is an answer.  `CallIs` is the step: each
  call changes the set of data and answers as `SortedSet` does.

Recursive functions (`Below`, `Descend`, `Step`, `BlackAbove`) are choices of a function
that satisfies an equation: `PathExists`, `LeadsExists` and `CountsExist` show that
there is one, from a measure that goes down along the path.

`AVLTreeProofs`, under the same assumption: `TypeCorrect`, `LinksAgreeAlways`,
`BalancedAlways`, `VisitsInOrderCorrect` and `SortedSetCorrect`, which is everything
binary_trees checks of it.  The helpers are recursive in the code and so they are in the model,
as functions of the node they are called with; what they hand back is a tree in
which the subtree below that node has been exchanged and the link to it has not.
The argument follows that:

* `Renewed` says of a tree C that it is T with another subtree in one place (side q
  of p): it is tied, for some S that is as before outside that place (`Kept`), and
  every node but those in a set E has a rank that fits its children (`Level`).  E
  shrinks on the way up: `{p, n}` after n is linked to what came back and `{p}` after n
  is measured and, where it has to be, turned once (`Turns`) or twice.
* `Good` says what a call of a helper for node m promises to the caller: hung into m's
  place, its result is `Renewed`, holds the nodes it should, lives in the heap it
  should, and is at most one higher (insertion) or one lower (removal) than before.
  After an insertion it is higher only on the side where the new data went
  (`Leans`): that is why the code may choose between the single and the double
  rotation by comparing data, and it is the part that makes the invariant of the
  recursion inductive.
* `StepGood` is one level of the recursion, whatever rotation it takes, and `ClimbsGood`
  all levels from the node where the search ends up to the one the helper was called
  with: an induction over what hangs below.  The ends are the new leaf
  (`LeafGood`), nothing (`UnchangedGood`) and the node to be removed (`HereGood`): with one
  child at most it is cut out (`DropGood`), with two the helper runs a second time,
  below it, for data that the code has just copied to it.  For that stretch two
  nodes hold the same data and the tree is not ordered by them; the proof keeps the
  old data as keys K until the second node is gone, and `Shifted` says which node
  took whose data, so that the order is that of the data again (`MonotoneTied`).
* That the recursive functions exist (`UnwindsExist`) follows from the links leading
  down.  `IInv` is that some S makes the tree `Sound` (tied, levelled, the nodes of the
  tree those in use, and counted); `HighsAre` says that then the kept ranks are the
  heights.

What the prover cannot do stays with TLC: liveness under fairness and ENABLED, and
what RECURSIVE operators compute, which the helpers of the B-trees are.

Only model-checked: the liveness of the pool, of the pipe (`PipeReturns`) and of
asynchronous I/O (`WaitReturns`); the B-trees and the index file; that
`ScanString` of a single thread undoes its cut.

## 5. What the code does otherwise

Shown by a run:

* `CppSources/Filter.cpp:476`: at a `\r` that ends a buffer, `CLineReadFilter` leaves
  its switch before `fposoff` is set.  If it is the first of the file, the `\r` stays
  and begins the next line (line_read).
* `CSources/LISTE.C:3532`: a leaf that lost its last datum and takes over its right
  neighbour's is given a new key only if it is the first child.  Otherwise its key
  is the datum just removed, which `freeFunc` has been called with, and searches
  go on comparing with it; `BTreeSortedTester1` asserts that it never is
  (btree_keys).
* `CppSources/StringBuffer.cpp:654` cuts a string that may be shared: another
  thread that uses a copy reads the cut text, and keeps it if it appends
  (string_scan).

Met while modelling, and part of the models where not said otherwise:

* Pool.  `WinSources/ConditionVariable.cpp:147` carries nanoseconds only above
  1000000000; at exactly that value `pthread_cond_timedwait` answers EINVAL, the
  worker's `sleep` throws and its task never runs.  A task that throws anything but a
  `CBaseException*` ends its worker with the task still queued and no result
  (`Thread.cpp:511`, `CThreadMain`, 75), and a result of UINT_MAX is thrown away
  (662; `AsyncIOManager.cpp:98` returns it).  (The last two are not modelled.)
* Allocator.  Two first calls of `TFalloc` create the pools twice (1109).  A count
  of 0 stays in the pool between `TFdecrefcnt` and `TFfree` (1435), which the debug
  build's scan asserts never happens.  `TFrealloc` of a block with several owners
  frees it under the others (1315; not modelled).
* Red-black tree.  `LISTE.C:2569` allocates and counts a node before it looks
  whether the value is there, and keeps it: the node is lost and the count too large.
* B-tree.  `BTreeInsertAfter` (3892) compares with keys that may be stale and can
  put a datum where its order is wrong.  With
  `maxEntriesPerNode` 3 a split leaves a root that can lose its children, hence
  `BTreeAssumption` asks for 4.  Removing from an empty tree runs into
  `assert(pNode->cnt > 0)`; `BTreeLowerBound` looks into one leaf; equal data fail the
  tester; no insertion tests what `TFalloc` returned.  (The last three are not
  modelled.)
* Index.  A split writes the node with half of its entries before the other half
  has a page (`DBASENDX.C:1028`): a crash in between loses that half, and there is no
  log.  A join writes the taker first (1245): after a crash the data are there
  twice, which `FBTreeSortedTester` (931) asserts they are not.  A leaf whose last
  datum is removed is written empty before it joins a neighbour (1320): after a
  crash in between `FBTreeBegin` answers EINVAL if it is the first (527), `FBTreeNext`
  hands out an entry of it that is not there (588), and a removal that comes to it
  asserts (1266).  `CrashKeeps` therefore says what the pages hold and not that they can be
  used, and `Reopen` opens only files that no crash has left.  The head with the
  count is written before the leaf.  Of records with equal keys in several leaves
  only one leaf is searched (1282), `dbaseindex_removekey` (`DBASE.C:1719`) does not
  look at the answer, and the entry of the old key stays (not modelled).  Closing
  within a batch throws its changes away.
* Pipe.  In a threaded pipe of three filters no speed is enough: the third may have
  looked twice while the second still slept (`FilterPipe.cpp:105`).  What a reader that
  gave up left in its connector comes first in the next `do_pipe` (67).  An empty
  line vanishes at a connector (`ByteLinkedBuffer.cpp:590`).
* Asynchronous I/O.  An operation that completes before `AddTask` lists it leaves an
  entry in `m_tasks` for good (`AsyncFile.cpp:108`).  One that fails at once throws
  through the callback; its client is never closed, and `WaitForComplete` waits for
  ever (106).  If every client opened so far ends before the next is opened, the
  manager is stopped although clients follow (`Program15.cpp:161`).  `JoinAll` of both
  pools gives up on a thread after 100 ms, and the port is closed then.  `clientlist`
  is appended to without the lock (`Program15.cpp:183`; one step in the model).

## 6. What is left, and why

Not modelled of the parts above: the debug builds and the Windows branches of the
pool (unix is what the tests build); `~CThreadPool` and a `Start` that throws in
its constructor; iterators that outlive a removal, bounds, and `Close` of the trees;
equal keys; the filters that compress, encrypt and sum; the TCP server and what
happens after `WaitForComplete`; conversions of strings, `assign` and `release`.

Not modelled at all:

* `SLISTE.C` repeats `LISTE.C` for items stored by value; lists, vectors and hash
  tables are sequential, and a unit test reaches each of their branches.
* `ByteBuffer` is `StringBuffer` again for bytes: the same calls in the same order.
* `HttpServer`, `HttpCache`, `Service` run on Windows only and talk to interfaces
  (the HTTP API with its request queues, worker processes, the service manager) of which the code alone
  does not tell what they promise.
* Network clients, archives, databases other than the index, configuration,
  dates: one request or record after the other; what is hard about them is formats.
* Hashes, ciphers, codecs, parsers, wrappers of other libraries (`openssl`, image
  and compression code): their reference is a standard, and test vectors tell more.
* GUI and console (more than half of the source): widgets called by one message
  loop, largely taken over from a class library.

What could come next: proofs about the B-tree, with its helpers written as functions
of a node instead of RECURSIVE operators; equal keys in `FBTree`; the accept callback of the TCP server in `AsyncIOManager`.
