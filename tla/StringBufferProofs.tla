------------------------- MODULE StringBufferProofs -------------------------
(***************************************************************************)
(* Proofs about StringBuffer.  First, however many threads use however     *)
(* many strings, the count of a block is the number of strings that hold   *)
(* it, no block in use is freed or lost, and who writes in place is alone. *)
(*                                                                         *)
(* Then, on that, StringBuffer implements StringValues: whatever the       *)
(* threads, the texts and the number of blocks, strings that share memory  *)
(* behave as strings of their own as long as nobody calls ScanString.      *)
(***************************************************************************)
EXTENDS StringBuffer, FiniteSetTheorems, SequenceTheorems, TLAPS

\* A thread in a call works on an object of its own, and what it is about to use is
\* there: the block it counts, copies, releases or writes, the source of a copy.
CallOf(t) ==
    /\ pc[t] # "idle" => call[t].obj \in Objects /\ owner[call[t].obj] = t
    /\ pc[t] \in {"count", "copy", "dec", "write", "restore", "addref"} =>
          string[call[t].obj] # NoBlock
    /\ pc[t] \in {"count", "alloc", "copy"} => call[t].name # "Copy"
    /\ pc[t] \in {"share", "addref"} => call[t].name = "Copy"
    /\ pc[t] = "share" => string[call[t].obj] = NoBlock /\ string[call[t].from] # NoBlock
    /\ pc[t] = "addref" => string[call[t].obj] = string[call[t].from]
    /\ pc[t] # "idle" /\ call[t].name = "Copy" =>
          call[t].from \in Objects \ {call[t].obj} /\ owner[call[t].from] = t

CallOK == DOMAIN call = Threads /\ \A t \in Threads : CallOf(t)

\* The calls that allocate before they let the old block go have the new one then.
Replaces(t) ==
    pc[t] = "copy" \/
    (pc[t] \in {"dec", "free", "drop"} /\ call[t].name \notin {"Clear", "Copy", "SetString"})

\* A buffer under way belongs to its thread alone, which is going to keep it.
BufOK ==
    \A t \in Threads :
        /\ Replaces(t) => buf[t] # NoBlock
        /\ buf[t] # NoBlock => pc[t] \in {"copy", "dec", "free", "drop"} /\ call[t].name # "Copy"
        /\ \A b \in Blocks : buf[t] = b =>
              /\ b \in live /\ refCnt[b] = 1 /\ Holders(b) = {}
              /\ \A u \in Threads : buf[u] = b => u = t

\* Who is about to free a block found its count at 0, and is the only one.
FreeOK ==
    \A t \in Threads : pc[t] = "free" =>
        /\ string[call[t].obj] \in live /\ refCnt[string[call[t].obj]] = 0
        /\ \A u \in Threads : pc[u] = "free" /\ string[call[u].obj] = string[call[t].obj] => u = t

\* The count of a block that is no buffer under way is the number of its holders.
CountOK ==
    \A b \in live : (\A t \in Threads : buf[t] # b) => refCnt[b] = Cardinality(Holders(b))

\* WritesItsOwn, block by block.
WriteOK ==
    \A t \in Threads, b \in Blocks :
        pc[t] = "write" /\ call[t].name # "ScanString" /\ string[call[t].obj] = b =>
            Holders(b) = {call[t].obj}

\* the inductive invariant
IInv == LinkTypeOK /\ CallOK /\ BufOK /\ FreeOK /\ CountOK /\ NoneFreedNoneLost /\ WriteOK

------------------------------------------------------------------------------
\* The set of holders is a finite set of objects.
LEMMA HoldersFinite ==
    ASSUME NEW b
    PROVE  Holders(b) \subseteq Objects /\ IsFiniteSet(Holders(b)) /\ Cardinality(Holders(b)) \in Nat
  <1>1. Holders(b) \subseteq Objects
    BY DEF Holders
  <1>. QED BY <1>1, StringAssumption, FS_Subset, FS_CardinalityType

\* A step of thread t that touches no object but x.
OnlyBy(t, x) ==
    /\ owner' = owner /\ DOMAIN call' = Threads
    /\ \A u \in Threads \ {t} : pc'[u] = pc[u] /\ call'[u] = call[u] /\ buf'[u] = buf[u]
    /\ \A o \in Objects \ {x} : string'[o] = string[o]
    /\ pc[t] # "idle" => call[t].obj = x
    /\ pc'[t] # "idle" => call'[t].obj = x

\* Such a step changes, for any block, no holder but x; and x is one if it points
\* there and t is not where it does not count.
LEMMA HoldersStep ==
    ASSUME CallOK, NEW t \in Threads, NEW x \in Objects, owner[x] = t, OnlyBy(t, x), NEW b
    PROVE  /\ \A o \in Objects \ {x} : o \in Holders(b)' <=> o \in Holders(b)
           /\ x \in Holders(b)' <=> string'[x] = b /\ pc'[t] \notin Uncounted
           /\ x \in Holders(b) <=> string[x] = b /\ pc[t] \notin Uncounted
           /\ Holders(b) \subseteq Objects /\ Holders(b)' \subseteq Objects
  <1>1. \A u \in Threads \ {t} : ~(pc[u] \in Uncounted /\ call[u].obj = x)
    BY DEF CallOK, CallOf, Uncounted
  <1>2. \A u \in Threads \ {t} : ~(pc'[u] \in Uncounted /\ call'[u].obj = x)
    BY <1>1 DEF OnlyBy
  <1>3. ASSUME NEW o \in Objects \ {x}
        PROVE  o \in Holders(b)' <=> o \in Holders(b)
    BY <1>3 DEF Holders, OnlyBy, Uncounted
  <1>4. x \in Holders(b)' <=> string'[x] = b /\ pc'[t] \notin Uncounted
    BY <1>2 DEF Holders, OnlyBy, Uncounted
  <1>5. x \in Holders(b) <=> string[x] = b /\ pc[t] \notin Uncounted
    BY <1>1 DEF Holders, OnlyBy, Uncounted
  <1>. QED BY <1>3, <1>4, <1>5 DEF Holders

\* A block that somebody holds is in use, is no buffer, is not about to be freed, and
\* its count is the number of its holders.
LEMMA HeldBlock ==
    ASSUME IInv, NEW b \in Blocks, NEW o \in Holders(b)
    PROVE  /\ b \in live
           /\ \A u \in Threads : buf[u] # b
           /\ refCnt[b] = Cardinality(Holders(b)) /\ refCnt[b] >= 1
           /\ \A u \in Threads : pc[u] = "free" => string[call[u].obj] # b
  <1>1. b \in live
    BY DEF IInv, NoneFreedNoneLost
  <1>2. \A u \in Threads : buf[u] # b
    BY DEF IInv, BufOK
  <1>3. refCnt[b] = Cardinality(Holders(b))
    BY <1>1, <1>2 DEF IInv, CountOK
  <1>4. Cardinality(Holders(b)) # 0
    BY HoldersFinite, FS_EmptySet
  <1>5. refCnt[b] >= 1
    BY <1>3, <1>4, HoldersFinite
  <1>. QED BY <1>1, <1>2, <1>3, <1>5 DEF IInv, FreeOK

\* An object counts for the block it points to if its owner is not where it does not.
LEMMA OwnerHolds ==
    ASSUME IInv, NEW t \in Threads, NEW o \in Objects, owner[o] = t,
           pc[t] \in Uncounted => call[t].obj # o
    PROVE  o \in Holders(string[o])
  BY DEF IInv, CallOK, CallOf, Holders, Uncounted

\* What GoOn says of the program counters and calls.
LEMMA GoOnFrame ==
    ASSUME IInv, NEW t \in Threads, pc[t] # "idle", NEW p \in Pcs, NEW n, GoOn(t, p, n),
           \A o \in Objects \ {call[t].obj} : string'[o] = string[o],
           \A u \in Threads \ {t} : buf'[u] = buf[u]
    PROVE  /\ call[t].obj \in Objects /\ owner[call[t].obj] = t
           /\ OnlyBy(t, call[t].obj)
           /\ owner' \in [Objects -> Threads] /\ pc' \in [Threads -> Pcs] /\ pc'[t] = p
           /\ p # "idle" => call'[t] = call[t]
  BY DEF IInv, LinkTypeOK, CallOK, CallOf, GoOn, OnlyBy

\* What such a step leaves true of the calls of the other threads.
LEMMA OtherCalls ==
    ASSUME CallOK, NEW t \in Threads, NEW x \in Objects, owner[x] = t, OnlyBy(t, x)
    PROVE  DOMAIN call' = Threads /\ \A u \in Threads \ {t} : CallOf(u)'
  BY DEF CallOK, CallOf, OnlyBy

\* A step that neither touches pointers and counts nor enters or leaves a place where
\* a thread's object does not count keeps what it does not say itself.
LEMMA QuietStep ==
    ASSUME IInv, NEW t \in Threads, NEW x \in Objects, owner[x] = t, OnlyBy(t, x),
           UNCHANGED <<string, live, refCnt, buf>>,
           pc' \in [Threads -> Pcs], pc[t] \notin Uncounted, pc'[t] \notin Uncounted,
           CallOf(t)', Replaces(t)' => buf[t] # NoBlock,
           buf[t] # NoBlock => pc'[t] \in {"copy", "dec"} /\ call'[t].name # "Copy",
           pc'[t] = "write" /\ call'[t].name # "ScanString" => Holders(string[x]) = {x}
    PROVE  IInv'
  <1>1. ASSUME NEW b PROVE Holders(b)' = Holders(b)
    <2>1. /\ \A o \in Objects \ {x} : o \in Holders(b)' <=> o \in Holders(b)
          /\ x \in Holders(b)' <=> x \in Holders(b)
          /\ Holders(b) \subseteq Objects /\ Holders(b)' \subseteq Objects
      BY HoldersStep DEF IInv
    <2>. QED BY <2>1
  <1>2. LinkTypeOK'
    BY DEF IInv, LinkTypeOK, OnlyBy
  <1>3. CallOK'
    BY OtherCalls DEF IInv, CallOK
  <1>4. BufOK'
    BY <1>1 DEF IInv, BufOK, Replaces, OnlyBy
  <1>5. FreeOK'
    BY DEF IInv, FreeOK, OnlyBy, Uncounted
  <1>6. CountOK'
    BY <1>1 DEF IInv, CountOK
  <1>7. NoneFreedNoneLost'
    BY <1>1 DEF IInv, NoneFreedNoneLost, OnlyBy, Uncounted
  <1>8. WriteOK'
    BY <1>1 DEF IInv, WriteOK, OnlyBy
  <1>. QED BY <1>2, <1>3, <1>4, <1>5, <1>6, <1>7, <1>8 DEF IInv

------------------------------------------------------------------------------
\* Nothing is in use at first.
LEMMA InitOK == Init => IInv
  <1>. SUFFICES ASSUME Init PROVE IInv
    OBVIOUS
  <1>1. \A b \in Blocks : Holders(b) = {}
    BY StringAssumption DEF Init, Holders
  <1>. QED BY <1>1, StringAssumption DEF Init, IInv, LinkTypeOK, CallOK, CallOf, BufOK, Replaces,
                                        FreeOK, CountOK, NoneFreedNoneLost, WriteOK, Pcs

\* A thread begins a call: c is what Start gets, p where it goes on.
LEMMA StartKeeps ==
    ASSUME IInv, NEW t \in Threads, NEW c, NEW p \in {"count", "alloc", "dec", "share", "write"},
           c.obj \in Objects, Start(t, c, p),
           p \in {"count", "dec", "write"} => string[c.obj] # NoBlock,
           p \in {"count", "alloc"} => c.name # "Copy",
           p = "share" => c.name = "Copy" /\ string[c.obj] = NoBlock /\ string[c.from] # NoBlock,
           p = "dec" => c.name \in {"Clear", "Copy"},
           p = "write" => c.name = "ScanString",
           c.name = "Copy" => c.from \in Objects \ {c.obj} /\ owner[c.from] = t
    PROVE  IInv'
  <1>1. /\ OnlyBy(t, c.obj) /\ owner[c.obj] = t /\ pc[t] = "idle" /\ pc'[t] = p /\ call'[t] = c
        /\ pc' \in [Threads -> Pcs]
    BY DEF Start, IInv, LinkTypeOK, CallOK, OnlyBy, Pcs
  <1>2. UNCHANGED <<string, live, refCnt, buf>> /\ owner' = owner
    BY DEF Start, memVars
  <1>3. CallOf(t)'
    BY <1>1, <1>2 DEF CallOf
  <1>4. buf[t] = NoBlock /\ ~Replaces(t)'
    BY <1>1 DEF IInv, BufOK, Replaces
  <1>. QED BY <1>1, <1>2, <1>3, <1>4, QuietStep DEF Uncounted

\* Every call begins with what its first step relies on.
LEMMA BeginKeeps == ASSUME IInv, NEW t \in Threads, NEW o \in Objects, Begin(t, o) PROVE IInv'
  <1>1. ASSUME string[o] = NoBlock
        PROVE  Value(o) = <<>> /\ \A i \in Nat : ~(i < Len(Value(o)))
    BY <1>1 DEF Value
  <1>. MaxLen \in Nat /\ Widths \subseteq Nat
    BY StringAssumption
  <1>2. CASE CallSetString(t, o)
    BY <1>2, StartKeeps DEF CallSetString, Plain
  <1>3. CASE CallFill(t, o)
    BY <1>3, StartKeeps DEF CallFill, Plain
  <1>4. CASE CallSetSize(t, o)
    BY <1>4, StartKeeps DEF CallSetSize, Plain
  <1>5. CASE CallClear(t, o)
    BY <1>5, StartKeeps DEF CallClear, Plain
  <1>6. CASE CallAppendString(t, o)
    BY <1>6, StartKeeps DEF CallAppendString, Plain
  <1>7. CASE CallInsertString(t, o)
    <2>1. PICK s \in Texts, pos \in 0 .. MaxLen :
             /\ pos < Len(Value(o))
             /\ Start(t, [Plain("InsertString", o) EXCEPT !.text = s, !.pos = pos], "count")
      BY <1>7 DEF CallInsertString
    <2>2. string[o] # NoBlock
      BY <1>1, <2>1
    <2>. QED BY <2>1, <2>2, StartKeeps DEF Plain
  <1>8. CASE CallDeleteString(t, o)
    <2>1. PICK pos \in 0 .. MaxLen, len \in 1 .. MaxLen :
             /\ pos < Len(Value(o))
             /\ Start(t, [Plain("DeleteString", o) EXCEPT !.pos = pos, !.len = len], "count")
      BY <1>8 DEF CallDeleteString
    <2>2. string[o] # NoBlock
      BY <1>1, <2>1
    <2>. QED BY <2>1, <2>2, StartKeeps DEF Plain
  <1>9. CASE CallToLowerCase(t, o)
    BY <1>1, <1>9, StartKeeps DEF CallToLowerCase, Plain
  <1>10. CASE CallCopy(t, o)
    BY <1>10, StartKeeps DEF CallCopy, Plain
  <1>11. CASE CallScanString(t, o)
    <2>1. PICK w \in Widths :
             /\ w < Len(Value(o))
             /\ Start(t, [Plain("ScanString", o) EXCEPT !.pos = w,
                                                        !.text = <<Value(o)[w + 1]>>], "write")
      BY <1>11 DEF CallScanString
    <2>2. string[o] # NoBlock
      BY <1>1, <2>1
    <2>. QED BY <2>1, <2>2, StartKeeps DEF Plain
  <1>. QED BY <1>2, <1>3, <1>4, <1>5, <1>6, <1>7, <1>8, <1>9, <1>10, <1>11 DEF Begin

\* An object changes hands between two calls.
LEMMA GiveKeeps == ASSUME IInv, NEW t \in Threads, NEW o \in Objects, Give(o, t) PROVE IInv'
  <1>1. \A b : Holders(b)' = Holders(b)
    BY DEF Give, Holders
  <1>2. LinkTypeOK'
    BY DEF Give, IInv, LinkTypeOK, memVars, localVars
  <1>3. CallOK'
    BY DEF Give, IInv, CallOK, CallOf, LinkTypeOK
  <1>4. BufOK'
    BY <1>1 DEF Give, IInv, BufOK, Replaces, memVars, localVars
  <1>5. FreeOK'
    BY DEF Give, IInv, FreeOK, memVars
  <1>6. CountOK' /\ NoneFreedNoneLost' /\ WriteOK'
    BY <1>1 DEF Give, IInv, CountOK, NoneFreedNoneLost, WriteOK, memVars, localVars
  <1>. QED BY <1>2, <1>3, <1>4, <1>5, <1>6 DEF IInv

------------------------------------------------------------------------------
\* TFsize and TFrefcnt: who finds a count of 1 is the only holder.
LEMMA CountKeeps == ASSUME IInv, NEW t \in Threads, Count(t) PROVE IInv'
  <1>. DEFINE x == call[t].obj  b == string[x]
  <1>1. /\ pc[t] = "count" /\ x \in Objects /\ owner[x] = t /\ b \in Blocks /\ x \in Holders(b)
        /\ call[t].name # "Copy"
    BY OwnerHolds, ZenonT(60) DEF Count, IInv, LinkTypeOK, CallOK, CallOf, Uncounted
  <1>2. PICK p, n :
           /\ p \in {"idle", "write", "dec", "alloc"}
           /\ GoOn(t, p, n)
           /\ p = "write" => refCnt[b] <= 1
           /\ p = "dec" => call[t].name = "SetString"
    <2>. DEFINE c == call[t]
                n == IF MeasuresLate(c) THEN Length(cells[b]) ELSE lench[t]
                mine == Mine(c, b, n)
                p == CASE mine /\ c.name = "SetSize" -> "idle"
                       [] mine /\ c.name # "SetSize" -> "write"
                       [] ~mine /\ c.name = "SetString" -> "dec"
                       [] OTHER -> "alloc"
    <2>1. GoOn(t, p, n)
      BY Zenon DEF Count
    <2>2. mine => refCnt[b] <= 1
      BY DEF Mine
    <2>3. /\ p \in {"idle", "write", "dec", "alloc"}
          /\ p = "write" => mine
          /\ p = "dec" => c.name = "SetString"
      <3>. HIDE DEF mine
      <3>. QED OBVIOUS
    <2>. HIDE DEF n, mine, p
    <2>. QED BY <2>1, <2>2, <2>3
  <1>3. UNCHANGED <<string, live, refCnt, buf>>
    BY DEF Count, memVars
  <1>4. /\ OnlyBy(t, x) /\ pc' \in [Threads -> Pcs] /\ pc'[t] = p
        /\ p # "idle" => call'[t] = call[t]
        /\ owner' = owner
    BY <1>1, <1>2, <1>3, GoOnFrame DEF Pcs, OnlyBy
  <1>5. CallOf(t)'
    BY <1>1, <1>2, <1>3, <1>4 DEF CallOf, IInv, CallOK
  <1>6. buf[t] = NoBlock /\ ~Replaces(t)'
    BY <1>1, <1>2, <1>4 DEF IInv, BufOK, Replaces
  <1>7. p = "write" => Holders(b) = {x}
    <2>1. ASSUME refCnt[b] <= 1 PROVE Cardinality(Holders(b)) = 1
      BY <2>1, <1>1, HeldBlock, HoldersFinite
    <2>. QED BY <2>1, <1>1, <1>2, HoldersFinite, FS_Singleton
  <1>. QED BY <1>1, <1>2, <1>3, <1>4, <1>5, <1>6, <1>7, QuietStep DEF Uncounted

\* The characters are taken over into the buffer.
LEMMA CopyCharsKeeps == ASSUME IInv, NEW t \in Threads, CopyChars(t) PROVE IInv'
  <1>. DEFINE x == call[t].obj
  <1>1. /\ pc[t] = "copy" /\ x \in Objects /\ owner[x] = t /\ buf[t] # NoBlock
        /\ call[t].name # "Copy" /\ string[x] # NoBlock
    BY DEF CopyChars, IInv, CallOK, CallOf, BufOK, Replaces
  <1>2. GoOn(t, "dec", lench[t]) /\ UNCHANGED <<string, live, refCnt, buf>>
    BY DEF CopyChars
  <1>3. OnlyBy(t, x) /\ pc' \in [Threads -> Pcs] /\ pc'[t] = "dec" /\ call'[t] = call[t] /\ owner' = owner
    BY <1>1, <1>2, GoOnFrame DEF Pcs, OnlyBy
  <1>4. CallOf(t)'
    BY <1>1, <1>2, <1>3 DEF CallOf
  <1>. QED BY <1>1, <1>2, <1>3, <1>4, QuietStep DEF Uncounted

\* Characters are changed in place; ScanString goes on to put its character back.
LEMMA WriteKeeps == ASSUME IInv, NEW t \in Threads, Write(t) \/ Restore(t) PROVE IInv'
  <1>. DEFINE x == call[t].obj
  <1>1. /\ pc[t] \in {"write", "restore"} /\ x \in Objects /\ owner[x] = t
        /\ buf[t] = NoBlock /\ string[x] # NoBlock
    BY DEF Write, Restore, IInv, CallOK, CallOf, BufOK
  <1>2. PICK p, n : p \in {"idle", "restore"} /\ GoOn(t, p, n)
    BY DEF Write, Restore
  <1>3. UNCHANGED <<string, live, refCnt, buf>>
    BY DEF Write, Restore
  <1>4. /\ OnlyBy(t, x) /\ pc' \in [Threads -> Pcs] /\ pc'[t] = p
        /\ p # "idle" => call'[t] = call[t]
        /\ owner' = owner
    BY <1>1, <1>2, <1>3, GoOnFrame DEF Pcs, OnlyBy
  <1>5. CallOf(t)'
    BY <1>1, <1>2, <1>3, <1>4 DEF CallOf, IInv, CallOK
  <1>6. ~Replaces(t)'
    BY <1>2, <1>4 DEF Replaces
  <1>. QED BY <1>1, <1>2, <1>3, <1>4, <1>5, <1>6, QuietStep DEF Uncounted

\* _string = copy._string: the new pointer is not counted yet.
LEMMA ShareKeeps == ASSUME IInv, NEW t \in Threads, Share(t) PROVE IInv'
  <1>. DEFINE x == call[t].obj
  <1>1. /\ pc[t] = "share" /\ x \in Objects /\ owner[x] = t /\ buf[t] = NoBlock
        /\ string[x] = NoBlock /\ string[call[t].from] # NoBlock /\ call[t].name = "Copy"
        /\ call[t].from \in Objects \ {x} /\ owner[call[t].from] = t
    BY DEF Share, IInv, CallOK, CallOf, BufOK
  <1>2. /\ GoOn(t, "addref", lench[t]) /\ UNCHANGED <<live, refCnt, buf>>
        /\ string' = [string EXCEPT ![x] = string[call[t].from]]
    BY DEF Share, memVars
  <1>3. /\ OnlyBy(t, x) /\ pc' \in [Threads -> Pcs] /\ pc'[t] = "addref" /\ call'[t] = call[t]
        /\ owner' = owner /\ string' \in [Objects -> Blocks \cup {NoBlock}]
        /\ string'[x] = string[call[t].from]
    BY <1>1, <1>2, GoOnFrame, SMTT(40) DEF Pcs, OnlyBy, IInv, LinkTypeOK
  <1>4. ASSUME NEW b \in Blocks PROVE Holders(b)' = Holders(b)
    <2>1. /\ \A o \in Objects \ {x} : o \in Holders(b)' <=> o \in Holders(b)
          /\ x \notin Holders(b)' /\ x \notin Holders(b)
          /\ Holders(b) \subseteq Objects /\ Holders(b)' \subseteq Objects
      BY <1>1, <1>3, HoldersStep, StringAssumption DEF IInv, Uncounted
    <2>. QED BY <2>1
  <1>5. LinkTypeOK'
    BY <1>2, <1>3 DEF IInv, LinkTypeOK
  <1>6. CallOf(t)'
    BY <1>1, <1>2, <1>3 DEF CallOf
  <1>7. CallOK'
    BY <1>1, <1>3, <1>6, OtherCalls DEF IInv, CallOK
  <1>8. BufOK'
    BY <1>1, <1>2, <1>3, <1>4 DEF IInv, BufOK, Replaces, OnlyBy
  <1>9. FreeOK'
    BY <1>1, <1>2, <1>3 DEF IInv, FreeOK, OnlyBy, CallOK, CallOf
  <1>10. CountOK'
    BY <1>2, <1>4 DEF IInv, CountOK, LinkTypeOK
  <1>11. NoneFreedNoneLost'
    BY <1>1, <1>2, <1>3, <1>4 DEF IInv, NoneFreedNoneLost, OnlyBy, LinkTypeOK, CallOK, CallOf
  <1>12. WriteOK'
    BY <1>1, <1>2, <1>3, <1>4 DEF IInv, WriteOK, OnlyBy, CallOK, CallOf
  <1>. QED BY <1>5, <1>7, <1>8, <1>9, <1>10, <1>11, <1>12 DEF IInv

\* TFincrefcnt: the source holds the block all the while, so the count is that of a
\* block in use, and the copy becomes one more holder.
LEMMA AddRefKeeps == ASSUME IInv, NEW t \in Threads, AddRef(t) PROVE IInv'
  <1>1. PICK x \in Objects, from \in Objects, b \in Blocks :
           /\ x = call[t].obj /\ from = call[t].from /\ from # x /\ b = string[x] /\ b = string[from]
           /\ pc[t] = "addref" /\ owner[x] = t /\ owner[from] = t /\ buf[t] = NoBlock
    BY DEF AddRef, IInv, LinkTypeOK, CallOK, CallOf, BufOK
  <1>2. from \in Holders(b)
    BY <1>1, OwnerHolds
  <1>3. /\ b \in live /\ refCnt[b] = Cardinality(Holders(b)) /\ refCnt[b] >= 1
        /\ \A u \in Threads : buf[u] # b
        /\ \A u \in Threads : pc[u] = "free" => string[call[u].obj] # b
    BY <1>1, <1>2, HeldBlock
  <1>4. /\ GoOn(t, "idle", lench[t]) /\ UNCHANGED <<string, live, buf>>
        /\ refCnt' = [refCnt EXCEPT ![b] = @ + 1]
    BY <1>1 DEF AddRef
  <1>5. /\ OnlyBy(t, x) /\ pc' \in [Threads -> Pcs] /\ pc'[t] = "idle" /\ owner' = owner
        /\ refCnt' \in [Blocks -> Nat]
    BY <1>1, <1>4, GoOnFrame DEF Pcs, OnlyBy, IInv, LinkTypeOK
  <1>6. ASSUME NEW c \in Blocks
        PROVE  Holders(c)' = IF c = b THEN Holders(c) \cup {x} ELSE Holders(c)
    <2>1. /\ \A o \in Objects \ {x} : o \in Holders(c)' <=> o \in Holders(c)
          /\ x \in Holders(c)' <=> string'[x] = c /\ pc'[t] \notin Uncounted
          /\ x \in Holders(c) <=> string[x] = c /\ pc[t] \notin Uncounted
          /\ Holders(c) \subseteq Objects /\ Holders(c)' \subseteq Objects
      <3>1. CallOK /\ owner[x] = t /\ OnlyBy(t, x)
        BY <1>1, <1>5 DEF IInv
      <3>. QED BY <3>1, HoldersStep
    <2>2. x \notin Holders(c) /\ (x \in Holders(c)' <=> c = b)
      BY <2>1, <1>1, <1>4, <1>5 DEF Uncounted
    <2>. QED BY <2>1, <2>2
  <1>7. x \notin Holders(b)
    BY <1>1 DEF Holders, Uncounted
  <1>8. Cardinality(Holders(b)') = Cardinality(Holders(b)) + 1
    <2>1. Cardinality(Holders(b) \cup {x}) = Cardinality(Holders(b)) + 1
      BY <1>7, HoldersFinite, FS_AddElement
    <2>. QED BY <2>1, <1>1, <1>6
  <1>9. LinkTypeOK'
    BY <1>4, <1>5 DEF IInv, LinkTypeOK
  <1>10. CallOK'
    BY <1>1, <1>5, OtherCalls DEF IInv, CallOK, CallOf
  <1>11. BufOK'
    BY <1>1, <1>3, <1>4, <1>5, <1>6 DEF IInv, BufOK, Replaces, OnlyBy, LinkTypeOK
  <1>12. FreeOK'
    BY <1>1, <1>3, <1>4, <1>5 DEF IInv, FreeOK, OnlyBy, LinkTypeOK
  <1>13. CountOK'
    <2>. SUFFICES ASSUME NEW c \in live, \A u \in Threads : buf[u] # c
                  PROVE  refCnt'[c] = Cardinality(Holders(c)')
      BY <1>4 DEF CountOK
    <2>1. CASE c = b
      BY <2>1, <1>1, <1>3, <1>4, <1>8 DEF IInv, LinkTypeOK
    <2>2. CASE c # b
      BY <2>2, <1>1, <1>4, <1>6 DEF IInv, LinkTypeOK, CountOK
    <2>. QED BY <2>1, <2>2
  <1>14. NoneFreedNoneLost'
    BY <1>1, <1>3, <1>4, <1>5, <1>6 DEF IInv, NoneFreedNoneLost, OnlyBy, LinkTypeOK
  <1>15. WriteOK'
    <2>. SUFFICES ASSUME NEW u \in Threads \ {t}, NEW c \in Blocks, pc[u] = "write",
                         call[u].name # "ScanString", string[call[u].obj] = c
                  PROVE  Holders(c)' = {call[u].obj}
      BY <1>4, <1>5 DEF WriteOK, OnlyBy
    <2>1. Holders(c) = {call[u].obj} /\ owner[call[u].obj] = u
      BY DEF IInv, WriteOK, CallOK, CallOf
    <2>2. c # b
      BY <2>1, <1>1, <1>2
    <2>. QED BY <2>1, <2>2, <1>6
  <1>. QED BY <1>9, <1>10, <1>11, <1>12, <1>13, <1>14, <1>15 DEF IInv

\* TFdecrefcnt: the caller is a holder, so the count is at least 1; at 0 it was the last
\* one and goes on to free the block.
LEMMA DecRefCntKeeps == ASSUME IInv, NEW t \in Threads, DecRefCnt(t) PROVE IInv'
  <1>1. PICK x \in Objects, b \in Blocks :
           x = call[t].obj /\ b = string[x] /\ pc[t] = "dec" /\ owner[x] = t
    BY DEF DecRefCnt, IInv, LinkTypeOK, CallOK, CallOf
  <1>2. x \in Holders(b)
    BY <1>1, OwnerHolds DEF Uncounted
  <1>3. /\ b \in live /\ refCnt[b] = Cardinality(Holders(b)) /\ refCnt[b] >= 1
        /\ \A u \in Threads : buf[u] # b
        /\ \A u \in Threads : pc[u] = "free" => string[call[u].obj] # b
    BY <1>1, <1>2, HeldBlock
  <1>4. PICK p \in {"drop", "free"} :
           /\ GoOn(t, p, lench[t])
           /\ p = "free" <=> ~(refCnt[b] > 1)
    BY <1>1, <1>3 DEF DecRefCnt
  <1>5. UNCHANGED <<string, live, buf>> /\ refCnt' = [refCnt EXCEPT ![b] = @ - 1]
    BY <1>1, <1>3 DEF DecRefCnt
  <1>6. /\ OnlyBy(t, x) /\ pc' \in [Threads -> Pcs] /\ pc'[t] = p /\ owner' = owner
        /\ call'[t] = call[t] /\ refCnt' \in [Blocks -> Nat] /\ refCnt'[b] = refCnt[b] - 1
    BY <1>1, <1>3, <1>4, <1>5, GoOnFrame, SMTT(40) DEF Pcs, OnlyBy, IInv, LinkTypeOK
  <1>7. ASSUME NEW c \in Blocks
        PROVE  Holders(c)' = IF c = b THEN Holders(c) \ {x} ELSE Holders(c)
    <2>1. /\ \A o \in Objects \ {x} : o \in Holders(c)' <=> o \in Holders(c)
          /\ x \notin Holders(c)'
          /\ x \in Holders(c) <=> c = b
          /\ Holders(c) \subseteq Objects /\ Holders(c)' \subseteq Objects
      BY <1>1, <1>6, HoldersStep DEF IInv, Uncounted
    <2>. QED BY <2>1, <1>1
  <1>8. Cardinality(Holders(b)') = Cardinality(Holders(b)) - 1
    <2>1. Cardinality(Holders(b) \ {x}) = Cardinality(Holders(b)) - 1
      BY <1>2, HoldersFinite, FS_RemoveElement
    <2>. QED BY <2>1, <1>1, <1>7
  <1>9. refCnt[b] > 1 => Holders(b)' # {}
    <2>1. Holders(b)' = {} => Cardinality(Holders(b)') = 0
      BY FS_EmptySet
    <2>. QED BY <2>1, <1>3, <1>8, HoldersFinite
  <1>10. LinkTypeOK'
    BY <1>5, <1>6 DEF IInv, LinkTypeOK
  <1>11. CallOf(t)'
    BY <1>1, <1>5, <1>6 DEF IInv, CallOK, CallOf
  <1>12. CallOK'
    BY <1>1, <1>6, <1>11, OtherCalls DEF IInv, CallOK
  <1>13. BufOK'
    BY <1>1, <1>3, <1>5, <1>6, <1>7 DEF IInv, BufOK, Replaces, OnlyBy, LinkTypeOK
  <1>14. FreeOK'
    BY <1>1, <1>3, <1>4, <1>5, <1>6 DEF IInv, FreeOK, OnlyBy, LinkTypeOK
  <1>15. CountOK'
    <2>. SUFFICES ASSUME NEW c \in live, \A u \in Threads : buf[u] # c
                  PROVE  refCnt'[c] = Cardinality(Holders(c)')
      BY <1>5 DEF CountOK
    <2>1. CASE c = b
      BY <2>1, <1>3, <1>6, <1>8
    <2>2. CASE c # b
      BY <2>2, <1>1, <1>5, <1>7 DEF IInv, LinkTypeOK, CountOK
    <2>. QED BY <2>1, <2>2
  <1>16. NoneFreedNoneLost'
    BY <1>1, <1>3, <1>4, <1>5, <1>6, <1>7, <1>9 DEF IInv, NoneFreedNoneLost, OnlyBy, LinkTypeOK
  <1>17. WriteOK'
    BY <1>1, <1>2, <1>4, <1>5, <1>6, <1>7, SMTT(40) DEF IInv, WriteOK, OnlyBy, CallOK, CallOf
  <1>. QED BY <1>10, <1>12, <1>13, <1>14, <1>15, <1>16, <1>17 DEF IInv

\* TFfree: nobody holds the block any more.
LEMMA FreeBlockKeeps == ASSUME IInv, NEW t \in Threads, FreeBlock(t) PROVE IInv'
  <1>1. PICK x \in Objects, b \in Blocks :
           /\ x = call[t].obj /\ b = string[x] /\ pc[t] = "free" /\ owner[x] = t
           /\ b \in live /\ refCnt[b] = 0
           /\ \A u \in Threads : pc[u] = "free" /\ string[call[u].obj] = b => u = t
    BY DEF FreeBlock, IInv, LinkTypeOK, CallOK, CallOf, FreeOK
  <1>2. \A u \in Threads : buf[u] # b
    BY <1>1 DEF IInv, BufOK
  <1>3. Holders(b) = {}
    <2>1. Cardinality(Holders(b)) = 0
      BY <1>1, <1>2 DEF IInv, CountOK
    <2>. QED BY <2>1, HoldersFinite, FS_EmptySet
  <1>4. /\ GoOn(t, "drop", lench[t]) /\ UNCHANGED <<string, buf>> /\ live' = live \ {b}
        /\ refCnt' = [refCnt EXCEPT ![b] = 0]
    BY <1>1 DEF FreeBlock
  <1>5. refCnt' = refCnt
    BY <1>1, <1>4 DEF IInv, LinkTypeOK
  <1>6. /\ OnlyBy(t, x) /\ pc' \in [Threads -> Pcs] /\ pc'[t] = "drop" /\ owner' = owner
        /\ call'[t] = call[t]
    BY <1>1, <1>4, GoOnFrame DEF Pcs, OnlyBy
  <1>7. ASSUME NEW c PROVE Holders(c)' = Holders(c)
    <2>1. CallOK
      BY DEF IInv
    <2>2. /\ \A o \in Objects \ {x} : o \in Holders(c)' <=> o \in Holders(c)
          /\ x \in Holders(c)' <=> x \in Holders(c)
          /\ Holders(c) \subseteq Objects /\ Holders(c)' \subseteq Objects
      BY <2>1, <1>1, <1>6, HoldersStep DEF Uncounted
    <2>. QED BY <2>2
  <1>8. LinkTypeOK'
    BY <1>4, <1>5, <1>6 DEF IInv, LinkTypeOK, OnlyBy
  <1>9. CallOf(t)'
    BY <1>1, <1>4, <1>6 DEF IInv, CallOK, CallOf
  <1>10. CallOK'
    BY <1>1, <1>6, <1>9, OtherCalls DEF IInv, CallOK
  <1>11. BufOK'
    BY <1>1, <1>2, <1>4, <1>5, <1>6, <1>7 DEF IInv, BufOK, Replaces, OnlyBy
  <1>12. FreeOK'
    BY <1>1, <1>4, <1>5, <1>6 DEF IInv, FreeOK, OnlyBy
  <1>13. CountOK'
    BY <1>4, <1>5, <1>7 DEF IInv, CountOK
  <1>14. NoneFreedNoneLost'
    BY <1>1, <1>3, <1>4, <1>6, <1>7 DEF IInv, NoneFreedNoneLost, OnlyBy
  <1>15. WriteOK'
    BY <1>1, <1>4, <1>6, <1>7 DEF IInv, WriteOK, OnlyBy
  <1>. QED BY <1>8, <1>10, <1>11, <1>12, <1>13, <1>14, <1>15 DEF IInv

\* The old block is let go; the object takes the buffer if the call has one.
LEMMA DropKeeps == ASSUME IInv, NEW t \in Threads, Drop(t) PROVE IInv'
  <1>1. PICK x \in Objects, b \in Blocks \cup {NoBlock} :
           /\ x = call[t].obj /\ b = buf[t] /\ pc[t] = "drop" /\ owner[x] = t
    BY DEF Drop, IInv, LinkTypeOK, CallOK, CallOf
  <1>2. b \in Blocks => /\ b \in live /\ refCnt[b] = 1 /\ Holders(b) = {}
                        /\ \A u \in Threads : buf[u] = b => u = t
    BY <1>1 DEF IInv, BufOK
  <1>3. PICK p \in {"alloc", "share", "write", "idle"} :
           /\ GoOn(t, p, lench[t])
           /\ p = "alloc" => call[t].name = "SetString"
           /\ p = "share" => call[t].name = "Copy" /\ string[call[t].from] # NoBlock
           /\ p = "write" => call[t].name \notin {"Clear", "Copy", "SetString"}
    BY DEF Drop
  <1>4. /\ UNCHANGED <<live, refCnt>> /\ string' = [string EXCEPT ![x] = b]
        /\ buf' = [buf EXCEPT ![t] = NoBlock]
    BY <1>1 DEF Drop, memVars
  <1>5. /\ OnlyBy(t, x) /\ pc' \in [Threads -> Pcs] /\ pc'[t] = p /\ owner' = owner
        /\ p # "idle" => call'[t] = call[t]
        /\ string'[x] = b /\ buf'[t] = NoBlock
        /\ string' \in [Objects -> Blocks \cup {NoBlock}]
        /\ buf' \in [Threads -> Blocks \cup {NoBlock}]
    BY <1>1, <1>3, <1>4, GoOnFrame DEF Pcs, OnlyBy, IInv, LinkTypeOK
  <1>6. ASSUME NEW c \in Blocks
        PROVE  Holders(c)' = IF c = b THEN {x} ELSE Holders(c)
    <2>1. CallOK
      BY DEF IInv
    <2>2. /\ \A o \in Objects \ {x} : o \in Holders(c)' <=> o \in Holders(c)
          /\ x \in Holders(c)' <=> c = b
          /\ x \notin Holders(c)
          /\ Holders(c) \subseteq Objects /\ Holders(c)' \subseteq Objects
      BY <2>1, <1>1, <1>5, HoldersStep DEF Uncounted
    <2>. QED BY <2>2, <1>2
  <1>7. p = "write" => b \in Blocks
    BY <1>1, <1>3 DEF IInv, BufOK, Replaces
  <1>8. p = "share" => b = NoBlock
    BY <1>1, <1>3 DEF IInv, BufOK
  <1>9. LinkTypeOK'
    BY <1>4, <1>5 DEF IInv, LinkTypeOK
  <1>10. CallOf(t)'
    BY <1>1, <1>3, <1>5, <1>7, <1>8, StringAssumption DEF IInv, CallOK, CallOf, OnlyBy
  <1>11. CallOK'
    BY <1>1, <1>5, <1>10, OtherCalls DEF IInv, CallOK
  <1>12. BufOK'
    BY <1>1, <1>2, <1>4, <1>5, <1>6, StringAssumption DEF IInv, BufOK, Replaces, OnlyBy
  <1>13. FreeOK'
    BY <1>1, <1>4, <1>5 DEF IInv, FreeOK, OnlyBy, CallOK, CallOf
  <1>14. CountOK'
    <2>. SUFFICES ASSUME NEW c \in live, \A u \in Threads : buf'[u] # c
                  PROVE  refCnt[c] = Cardinality(Holders(c)')
      BY <1>4 DEF CountOK
    <2>1. CASE c = b
      BY <2>1, <1>2, <1>6, FS_Singleton DEF IInv, LinkTypeOK
    <2>2. CASE c # b
      <3>1. \A u \in Threads : buf[u] # c
        BY <2>2, <1>1, <1>5 DEF OnlyBy
      <3>. QED BY <3>1, <2>2, <1>6 DEF IInv, LinkTypeOK, CountOK
    <2>. QED BY <2>1, <2>2
  <1>15. NoneFreedNoneLost'
    <2>1. \A c \in Blocks : Holders(c)' # {} => c \in live'
      BY <1>2, <1>4, <1>6 DEF IInv, NoneFreedNoneLost
    <2>2. ASSUME NEW c \in live, Holders(c)' = {}, \A u \in Threads : buf'[u] # c
          PROVE  \E u \in Threads : pc'[u] = "free" /\ string'[call'[u].obj] = c
      <3>1. c # b /\ Holders(c) = {} /\ \A u \in Threads : buf[u] # c
        BY <2>2, <1>1, <1>5, <1>6 DEF OnlyBy, IInv, LinkTypeOK
      <3>2. PICK u \in Threads : pc[u] = "free" /\ string[call[u].obj] = c
        BY <3>1 DEF IInv, NoneFreedNoneLost
      <3>3. call[u].obj \in Objects \ {x} /\ u # t
        BY <3>2, <1>1 DEF IInv, CallOK, CallOf
      <3>. QED BY <3>2, <3>3, <1>5 DEF OnlyBy
    <2>. QED BY <2>1, <2>2, <1>4 DEF NoneFreedNoneLost
  <1>16. WriteOK'
    <2>. SUFFICES ASSUME NEW u \in Threads, NEW c \in Blocks, pc'[u] = "write",
                         call'[u].name # "ScanString", string'[call'[u].obj] = c
                  PROVE  Holders(c)' = {call'[u].obj}
      BY DEF WriteOK
    <2>1. CASE u = t
      BY <2>1, <1>1, <1>5, <1>6
    <2>2. CASE u # t
      <3>1. pc[u] = "write" /\ call'[u] = call[u] /\ call[u].obj \in Objects \ {x}
        BY <2>2, <1>1, <1>5 DEF IInv, OnlyBy, CallOK, CallOf
      <3>2. string[call[u].obj] = c
        BY <3>1, <1>5 DEF OnlyBy
      <3>3. Holders(c) = {call[u].obj}
        BY <3>1, <3>2 DEF IInv, WriteOK
      <3>. QED BY <3>1, <3>3, <1>2, <1>6
    <2>. QED BY <2>1, <2>2
  <1>. QED BY <1>9, <1>11, <1>12, <1>13, <1>14, <1>15, <1>16 DEF IInv

\* TFalloc: a block nobody knows yet becomes the object's own, or a buffer.
LEMMA AllocKeeps == ASSUME IInv, NEW t \in Threads, Alloc(t) PROVE IInv'
  <1>1. PICK x \in Objects, b \in Blocks \ live :
           /\ x = call[t].obj /\ pc[t] = "alloc" /\ owner[x] = t /\ buf[t] = NoBlock
           /\ call[t].name # "Copy"
           /\ live' = live \cup {b} /\ refCnt' = [refCnt EXCEPT ![b] = 1]
           /\ \/ /\ string[x] = NoBlock /\ string' = [string EXCEPT ![x] = b] /\ buf' = buf
                 /\ \E p \in {"idle", "write"} : GoOn(t, p, lench[t])
              \/ /\ string[x] # NoBlock /\ string' = string /\ buf' = [buf EXCEPT ![t] = b]
                 /\ GoOn(t, "copy", lench[t])
    BY ZenonT(60) DEF Alloc, IInv, LinkTypeOK, CallOK, CallOf, BufOK
  <1>2. Holders(b) = {} /\ \A u \in Threads : buf[u] # b
    BY <1>1 DEF IInv, NoneFreedNoneLost, BufOK
  <1>3. refCnt' \in [Blocks -> Nat] /\ refCnt'[b] = 1 /\ \A c \in Blocks \ {b} : refCnt'[c] = refCnt[c]
    BY <1>1 DEF IInv, LinkTypeOK
  <1>4. CallOK
    BY DEF IInv
  <1>5. CASE string[x] = NoBlock
    <2>1. PICK p \in {"idle", "write"} : GoOn(t, p, lench[t])
      BY <1>1, <1>5
    <2>2. string' = [string EXCEPT ![x] = b] /\ buf' = buf
      BY <1>1, <1>5
    <2>3. /\ OnlyBy(t, x) /\ pc' \in [Threads -> Pcs] /\ pc'[t] = p /\ owner' = owner
          /\ p # "idle" => call'[t] = call[t]
          /\ string'[x] = b /\ string' \in [Objects -> Blocks \cup {NoBlock}]
      <3>1. /\ OnlyBy(t, x) /\ pc' \in [Threads -> Pcs] /\ pc'[t] = p
            /\ p # "idle" => call'[t] = call[t]
        <4>1. \A o \in Objects \ {x} : string'[o] = string[o]
          BY <2>2 DEF IInv, LinkTypeOK
        <4>2. \A u \in Threads \ {t} : buf'[u] = buf[u]
          BY <2>2
        <4>. QED BY <1>1, <2>1, <4>1, <4>2, GoOnFrame DEF Pcs
      <3>2. owner' = owner
        BY <2>1 DEF GoOn
      <3>3. string'[x] = b /\ string' \in [Objects -> Blocks \cup {NoBlock}]
        BY <2>2 DEF IInv, LinkTypeOK
      <3>. QED BY <3>1, <3>2, <3>3
    <2>4. ASSUME NEW c \in Blocks
          PROVE  Holders(c)' = IF c = b THEN {x} ELSE Holders(c)
      <3>1. /\ \A o \in Objects \ {x} : o \in Holders(c)' <=> o \in Holders(c)
            /\ x \in Holders(c)' <=> c = b
            /\ x \notin Holders(c)
            /\ Holders(c) \subseteq Objects /\ Holders(c)' \subseteq Objects
        BY <1>1, <1>4, <1>5, <2>3, HoldersStep, StringAssumption DEF Uncounted
      <3>. QED BY <3>1, <1>2
    <2>5. LinkTypeOK'
      BY <1>1, <1>3, <2>2, <2>3 DEF IInv, LinkTypeOK
    <2>6. CallOf(t)'
      BY <1>1, <2>1, <2>3, StringAssumption DEF CallOK, CallOf
    <2>7. CallOK'
      BY <1>1, <1>4, <2>3, <2>6, OtherCalls DEF CallOK
    <2>8. BufOK'
      BY <1>1, <1>2, <1>3, <2>2, <2>3, <2>4, SMTT(40) DEF IInv, BufOK, Replaces, OnlyBy
    <2>9. FreeOK'
      BY <1>1, <1>3, <2>2, <2>3 DEF IInv, FreeOK, OnlyBy, LinkTypeOK, CallOK, CallOf
    <2>10. CountOK'
      <3>. SUFFICES ASSUME NEW c \in live', \A u \in Threads : buf[u] # c
                    PROVE  refCnt'[c] = Cardinality(Holders(c)')
        BY <2>2 DEF CountOK
      <3>0. c \in live \cup {b} /\ c \in Blocks
        BY <1>1 DEF IInv, LinkTypeOK
      <3>1. CASE c = b
        BY <3>1, <1>3, <2>4, FS_Singleton
      <3>2. CASE c # b
        BY <3>0, <3>2, <1>3, <2>4 DEF IInv, CountOK
      <3>. QED BY <3>1, <3>2
    <2>11. NoneFreedNoneLost'
      <3>1. \A c \in Blocks : Holders(c)' # {} => c \in live'
        BY <1>1, <2>4 DEF IInv, NoneFreedNoneLost
      <3>2. ASSUME NEW c \in live', Holders(c)' = {}, \A u \in Threads : buf'[u] # c
            PROVE  \E u \in Threads : pc'[u] = "free" /\ string'[call'[u].obj] = c
        <4>1. c \in live /\ Holders(c) = {} /\ \A u \in Threads : buf[u] # c
          BY <3>2, <1>1, <2>2, <2>4 DEF IInv, LinkTypeOK
        <4>2. PICK u \in Threads : pc[u] = "free" /\ string[call[u].obj] = c
          BY <4>1 DEF IInv, NoneFreedNoneLost
        <4>3. call[u].obj \in Objects \ {x} /\ u # t
          BY <4>2, <1>1 DEF IInv, CallOK, CallOf
        <4>. QED BY <4>2, <4>3, <2>3 DEF OnlyBy
      <3>. QED BY <3>1, <3>2 DEF NoneFreedNoneLost
    <2>12. WriteOK'
      <3>. SUFFICES ASSUME NEW u \in Threads, NEW c \in Blocks, pc'[u] = "write",
                           call'[u].name # "ScanString", string'[call'[u].obj] = c
                    PROVE  Holders(c)' = {call'[u].obj}
        BY DEF WriteOK
      <3>1. CASE u = t
        BY <3>1, <1>1, <2>3, <2>4
      <3>2. CASE u # t
        <4>1. pc[u] = "write" /\ call'[u] = call[u] /\ call[u].obj \in Objects \ {x}
          BY <3>2, <1>1, <2>3 DEF IInv, OnlyBy, CallOK, CallOf
        <4>2. string[call[u].obj] = c
          BY <4>1, <2>3 DEF OnlyBy
        <4>3. Holders(c) = {call[u].obj}
          BY <4>1, <4>2 DEF IInv, WriteOK
        <4>. QED BY <4>1, <4>3, <1>2, <2>4
      <3>. QED BY <3>1, <3>2
    <2>. QED BY <2>5, <2>7, <2>8, <2>9, <2>10, <2>11, <2>12 DEF IInv
  <1>6. CASE string[x] # NoBlock
    <2>1. GoOn(t, "copy", lench[t]) /\ string' = string /\ buf' = [buf EXCEPT ![t] = b]
      BY <1>1, <1>6
    <2>2. /\ OnlyBy(t, x) /\ pc' \in [Threads -> Pcs] /\ pc'[t] = "copy" /\ owner' = owner
          /\ call'[t] = call[t] /\ buf'[t] = b /\ buf' \in [Threads -> Blocks \cup {NoBlock}]
      BY <1>1, <2>1, GoOnFrame DEF Pcs, OnlyBy, IInv, LinkTypeOK
    <2>3. ASSUME NEW c PROVE Holders(c)' = Holders(c)
      <3>1. /\ \A o \in Objects \ {x} : o \in Holders(c)' <=> o \in Holders(c)
            /\ x \in Holders(c)' <=> x \in Holders(c)
            /\ Holders(c) \subseteq Objects /\ Holders(c)' \subseteq Objects
        BY <1>1, <1>4, <2>1, <2>2, HoldersStep DEF Uncounted
      <3>. QED BY <3>1
    <2>4. LinkTypeOK'
      BY <1>1, <1>3, <2>1, <2>2 DEF IInv, LinkTypeOK
    <2>5. CallOf(t)'
      BY <1>1, <1>6, <2>1, <2>2 DEF CallOK, CallOf
    <2>6. CallOK'
      BY <1>1, <1>4, <2>2, <2>5, OtherCalls DEF CallOK
    <2>7. BufOK'
      BY <1>1, <1>2, <1>3, <2>1, <2>2, <2>3, StringAssumption DEF IInv, BufOK, Replaces, OnlyBy
    <2>8. FreeOK'
      BY <1>1, <1>3, <2>1, <2>2 DEF IInv, FreeOK, OnlyBy, LinkTypeOK
    <2>12. ASSUME NEW c \in live', \A u \in Threads : buf'[u] # c
           PROVE  c \in live /\ c # b /\ c \in Blocks /\ \A u \in Threads : buf[u] # c
      <3>1. c # b
        BY <2>2, <2>12
      <3>2. c \in live
        BY <1>1, <3>1
      <3>3. c \in Blocks /\ c # NoBlock
        BY <3>2, StringAssumption DEF IInv, LinkTypeOK
      <3>4. ASSUME NEW u \in Threads PROVE buf[u] # c
        <4>1. CASE u = t
          BY <4>1, <1>1, <3>3
        <4>2. CASE u # t
          BY <4>2, <2>2, <2>12 DEF OnlyBy
        <4>. QED BY <4>1, <4>2
      <3>. QED BY <3>1, <3>2, <3>3, <3>4
    <2>9. CountOK'
      <3>. SUFFICES ASSUME NEW c \in live', \A u \in Threads : buf'[u] # c
                    PROVE  refCnt'[c] = Cardinality(Holders(c)')
        BY DEF CountOK
      <3>1. c \in live /\ c # b /\ c \in Blocks /\ \A u \in Threads : buf[u] # c
        BY <2>12
      <3>. QED BY <3>1, <1>3, <2>3 DEF IInv, CountOK
    <2>10. NoneFreedNoneLost'
      <3>1. \A c \in Blocks : Holders(c)' # {} => c \in live'
        BY <1>1, <2>3 DEF IInv, NoneFreedNoneLost
      <3>2. ASSUME NEW c \in live', Holders(c)' = {}, \A u \in Threads : buf'[u] # c
            PROVE  \E u \in Threads : pc'[u] = "free" /\ string'[call'[u].obj] = c
        <4>1. c \in live /\ Holders(c) = {} /\ \A u \in Threads : buf[u] # c
          BY <3>2, <2>12, <2>3
        <4>2. PICK u \in Threads : pc[u] = "free" /\ string[call[u].obj] = c
          BY <4>1 DEF IInv, NoneFreedNoneLost
        <4>. QED BY <4>2, <1>1, <2>1, <2>2 DEF OnlyBy
      <3>. QED BY <3>1, <3>2 DEF NoneFreedNoneLost
    <2>11. WriteOK'
      <3>. SUFFICES ASSUME NEW u \in Threads, NEW c \in Blocks, pc'[u] = "write",
                           call'[u].name # "ScanString", string'[call'[u].obj] = c
                    PROVE  Holders(c)' = {call'[u].obj}
        BY DEF WriteOK
      <3>1. pc[u] = "write" /\ call'[u] = call[u] /\ string[call[u].obj] = c
        BY <2>1, <2>2 DEF OnlyBy
      <3>. QED BY <3>1, <2>3 DEF IInv, WriteOK
    <2>. QED BY <2>4, <2>6, <2>7, <2>8, <2>9, <2>10, <2>11 DEF IInv
  <1>. QED BY <1>5, <1>6

\* A step that changes nothing.
LEMMA StutterKeeps == ASSUME IInv, UNCHANGED vars PROVE IInv'
  <1>1. \A b : Holders(b)' = Holders(b)
    BY DEF vars, Holders
  <1>. USE DEF vars, memVars, localVars
  <1>2. LinkTypeOK'
    BY DEF IInv, LinkTypeOK
  <1>3. CallOK'
    BY DEF IInv, CallOK, CallOf
  <1>4. BufOK'
    BY <1>1 DEF IInv, BufOK, Replaces
  <1>5. FreeOK'
    BY DEF IInv, FreeOK
  <1>6. CountOK'
    BY <1>1 DEF IInv, CountOK
  <1>7. NoneFreedNoneLost'
    BY <1>1 DEF IInv, NoneFreedNoneLost
  <1>8. WriteOK'
    BY <1>1 DEF IInv, WriteOK
  <1>. QED BY <1>2, <1>3, <1>4, <1>5, <1>6, <1>7, <1>8 DEF IInv

------------------------------------------------------------------------------
\* Every step of every thread keeps the inductive invariant.
THEOREM Invariance == Spec => []IInv
  <1>1. IInv /\ [Next]_vars => IInv'
    <2>. SUFFICES ASSUME IInv, [Next]_vars PROVE IInv'
      OBVIOUS
    <2>1. CASE UNCHANGED vars
      BY <2>1, StutterKeeps
    <2>2. ASSUME NEW t \in Threads, NEW o \in Objects, Begin(t, o) \/ Give(o, t) PROVE IInv'
      BY <2>2, BeginKeeps, GiveKeeps
    <2>3. ASSUME NEW t \in Threads, Step(t) PROVE IInv'
      BY <2>3, CountKeeps, AllocKeeps, CopyCharsKeeps, DecRefCntKeeps, FreeBlockKeeps,
         DropKeeps, ShareKeeps, AddRefKeeps, WriteKeeps DEF Step
    <2>. QED BY <2>1, <2>2, <2>3 DEF Next
  <1>. QED BY <1>1, InitOK, PTL DEF Spec

\* _free_Buffer (92-102), addRef and _alloc_Buffer2 (80-90) of all threads together
\* never lose or gain a count.
THEOREM RefCountsHoldersAlways == Spec => []RefCountsHolders
  <1>1. IInv => RefCountsHolders
    <2>. SUFFICES ASSUME IInv, NEW b \in live
                  PROVE  refCnt[b] = Cardinality(Holders(b)) + Cardinality({t \in Threads : buf[t] = b})
      BY DEF RefCountsHolders
    <2>1. b \in Blocks
      BY DEF IInv, LinkTypeOK
    <2>2. CASE \E t \in Threads : buf[t] = b
      <3>1. PICK t \in Threads : buf[t] = b
        BY <2>2
      <3>2. refCnt[b] = 1 /\ Holders(b) = {} /\ {u \in Threads : buf[u] = b} = {t}
        BY <2>1, <3>1 DEF IInv, BufOK
      <3>3. Cardinality(Holders(b)) = 0 /\ Cardinality({u \in Threads : buf[u] = b}) = 1
        BY <3>2, FS_EmptySet, FS_Singleton
      <3>. QED BY <3>2, <3>3
    <2>3. CASE \A t \in Threads : buf[t] # b
      <3>1. refCnt[b] = Cardinality(Holders(b)) /\ Cardinality(Holders(b)) \in Nat
        BY <2>3, HoldersFinite DEF IInv, CountOK
      <3>2. {t \in Threads : buf[t] = b} = {}
        BY <2>3
      <3>3. Cardinality({t \in Threads : buf[t] = b}) = 0
        BY <3>2, FS_EmptySet
      <3>. QED BY <3>1, <3>3
    <2>. QED BY <2>2, <2>3
  <1>. QED BY <1>1, Invariance, PTL

\* TFfree (99) gets no block back that an object still points to, and no block in
\* use is left without somebody who gives it back.
THEOREM NoneFreedNoneLostAlways == Spec => []NoneFreedNoneLost
  <1>1. IInv => NoneFreedNoneLost
    BY DEF IInv
  <1>. QED BY <1>1, Invariance, PTL

\* Whoever found TFrefcnt to be at most 1 is still alone when it writes in place.
THEOREM WritesItsOwnAlways == Spec => []WritesItsOwn
  <1>1. IInv => WritesItsOwn
    <2>. SUFFICES ASSUME IInv, NEW t \in Threads, pc[t] = "write", call[t].name # "ScanString"
                  PROVE  Holders(string[call[t].obj]) = {call[t].obj}
      BY DEF WritesItsOwn
    <2>1. call[t].obj \in Objects /\ string[call[t].obj] # NoBlock
      BY DEF IInv, CallOK, CallOf
    <2>2. string[call[t].obj] \in Blocks
      BY <2>1 DEF IInv, LinkTypeOK
    <2>. QED BY <2>2 DEF IInv, WriteOK
  <1>. QED BY <1>1, Invariance, PTL

-----------------------------------------------------------------------------

Text == Seq(Chars)
Cells == Seq(Chars \cup {Nul})

\* the array m begins with the text s and its terminating 0
Holds(m, s) == Len(s) < Len(m) /\ m[Len(s) + 1] = Nul /\ \A i \in 1 .. Len(s) : m[i] = s[i]

\* Then s is the C string that every reader of m finds.
LEMMA HoldsIs ==
    ASSUME NEW m \in Cells, NEW s \in Text, Holds(m, s)
    PROVE  Length(m) = Len(s) /\ CString(m) = s
  <1>. DEFINE IsLength(i) == (i < Len(m) => m[i + 1] = Nul) /\ \A j \in 1 .. i : m[j] # Nul
  <1>1. \A j \in 1 .. Len(s) : m[j] # Nul
    BY StringAssumption DEF Holds, Text
  <1>2. Len(s) \in 0 .. Len(m) /\ IsLength(Len(s))
    BY <1>1 DEF Holds, Text, Cells
  <1>3. ASSUME NEW i \in 0 .. Len(m), IsLength(i) PROVE i = Len(s)
    BY <1>1, <1>3 DEF Holds, Text, Cells
  <1>4. Length(m) = CHOOSE i \in 0 .. Len(m) : IsLength(i)
    BY DEF Length
  <1>5. Length(m) = Len(s)
    <2>. HIDE DEF IsLength
    <2>. QED BY <1>2, <1>3, <1>4
  <1>6. CString(m) = SubSeq(m, 1, Len(s))
    BY <1>5 DEF CString
  <1>7. SubSeq(m, 1, Len(s)) = s
    <2>1. \A i \in 1 .. Len(s) : m[i] \in Chars
      BY DEF Holds, Text
    <2>2. /\ SubSeq(m, 1, Len(s)) \in Text /\ Len(SubSeq(m, 1, Len(s))) = Len(s)
          /\ \A i \in 1 .. Len(s) : SubSeq(m, 1, Len(s))[i] = m[i]
      BY <2>1, SubSeqProperties DEF Text
    <2>. QED BY <2>2, SeqEqual DEF Holds, Text
  <1>. QED BY <1>5, <1>6, <1>7

\* What s_strncpy and s_memcpy leave in each cell.
LEMMA PutCells ==
    ASSUME NEW m \in Cells, NEW at \in Nat, NEW s \in Cells
    PROVE  /\ Put(m, at, s) \in Cells /\ Len(Put(m, at, s)) = Len(m)
           /\ \A i \in 1 .. Len(m) :
                Put(m, at, s)[i] = IF at < i /\ i <= at + Len(s) THEN s[i - at] ELSE m[i]
  <1>1. \A i \in 1 .. Len(m) : Put(m, at, s)[i] = IF at < i /\ i <= at + Len(s) THEN s[i - at] ELSE m[i]
    BY DEF Put, Cells
  <1>2. \A i \in 1 .. Len(m) : Put(m, at, s)[i] \in Chars \cup {Nul}
    BY <1>1 DEF Cells
  <1>3. DOMAIN Put(m, at, s) = 1 .. Len(m) /\ Len(m) \in Nat
    BY DEF Put, Cells
  <1>4. Put(m, at, s) \in [1 .. Len(m) -> Chars \cup {Nul}]
    BY <1>2 DEF Put
  <1>5. Put(m, at, s) \in Cells /\ Len(Put(m, at, s)) = Len(m)
    BY <1>3, <1>4 DEF Cells
  <1>. QED BY <1>1, <1>5

\* A text and its 0.
LEMMA ZCells ==
    ASSUME NEW s \in Text
    PROVE  /\ Z(s) \in Cells /\ Len(Z(s)) = Len(s) + 1 /\ Z(s)[Len(s) + 1] = Nul
           /\ \A i \in 1 .. Len(s) : Z(s)[i] = s[i]
  <1>1. s \in Cells
    BY DEF Text, Cells
  <1>. QED BY <1>1 DEF Z, Cells

\* A part of an array of cells, or of a text.
LEMMA PartOf ==
    ASSUME NEW S, NEW m \in Seq(S), NEW i \in Nat \ {0}, NEW j \in Nat, j <= Len(m)
    PROVE  /\ SubSeq(m, i, j) \in Seq(S)
           /\ Len(SubSeq(m, i, j)) = IF i <= j THEN j - i + 1 ELSE 0
           /\ \A k \in 1 .. j - i + 1 : SubSeq(m, i, j)[k] = m[i + k - 1]
  BY SubSeqProperties

------------------------------------------------------------------------------
\* What a call other than Copy may make of a string that is s: as in StringValues.
Results(c, s) ==
    CASE c.name \in {"SetString", "Fill"} -> {c.text}
      [] c.name = "Clear" -> {<<>>}
      [] c.name = "AppendString" -> {s \o c.text}
      [] c.name = "InsertString" ->
            {SubSeq(s, 1, c.pos) \o c.text \o SubSeq(s, c.pos + 1, Len(s))}
      [] c.name = "DeleteString" ->
            {SubSeq(s, 1, c.pos) \o SubSeq(s, c.pos + c.len + 1, Len(s))}
      [] c.name = "ToLowerCase" -> {[i \in 1 .. Len(s) |-> Lower(s[i])]}
      [] c.name = "SetSize" -> {s, IF c.len <= Len(s) THEN SubSeq(s, 1, c.len - 1) ELSE s}

\* the calls that write characters, and those that read a length first
Writers == {"SetString", "Fill", "AppendString", "InsertString", "DeleteString", "ToLowerCase"}

\* The arguments of the call c, made when the string was s.
Args(c, s) ==
    /\ c.name \in Writers \cup {"Clear", "Copy", "SetSize"}
    /\ c.text \in Text /\ c.pos \in Nat /\ c.len \in Nat
    /\ c.name \in {"InsertString", "DeleteString"} => c.pos < Len(s)
    /\ c.name \in {"DeleteString", "SetSize"} => c.len > 0
    /\ c.name = "ToLowerCase" => 0 < Len(s)

\* What the characters m must be for the call c to write its result into them.
Editable(c, m, s) ==
    /\ Need(c, Len(s)) <= Len(m)
    /\ c.name \in {"AppendString", "InsertString", "ToLowerCase"} => Holds(m, s)
    /\ c.name = "DeleteString" =>
          IF c.pos + c.len >= Len(s) THEN \A i \in 1 .. c.pos : m[i] = s[i] ELSE Holds(m, s)

\* The results are texts.
LEMMA ResultsAreTexts ==
    ASSUME NEW c, NEW s \in Text, Args(c, s), c.name # "Copy"
    PROVE  Results(c, s) \subseteq Text
  <1>. USE DEF Args, Writers
  <1>1. CASE c.name \in {"SetString", "Fill"} BY <1>1 DEF Results
  <1>2. CASE c.name = "Clear" BY <1>2 DEF Results, Text
  <1>3. CASE c.name = "AppendString" BY <1>3 DEF Results, Text
  <1>4. CASE c.name = "InsertString"
    <2>1. SubSeq(s, 1, c.pos) \in Text /\ SubSeq(s, c.pos + 1, Len(s)) \in Text
      BY <1>4, PartOf DEF Text
    <2>. QED BY <1>4, <2>1 DEF Results, Text
  <1>5. CASE c.name = "DeleteString"
    <2>1. SubSeq(s, 1, c.pos) \in Text /\ SubSeq(s, c.pos + c.len + 1, Len(s)) \in Text
      BY <1>5, PartOf DEF Text
    <2>. QED BY <1>5, <2>1 DEF Results, Text
  <1>6. CASE c.name = "ToLowerCase"
    <2>1. \A i \in 1 .. Len(s) : Lower(s[i]) \in Chars
      BY StringAssumption DEF Text
    <2>2. [i \in 1 .. Len(s) |-> Lower(s[i])] \in [1 .. Len(s) -> Chars] /\ Len(s) \in Nat
      BY <2>1 DEF Text
    <2>3. [i \in 1 .. Len(s) |-> Lower(s[i])] \in Text
      BY <2>2 DEF Text
    <2>. QED BY <1>6, <2>3 DEF Results
  <1>7. CASE c.name = "SetSize"
    <2>1. c.len <= Len(s) => SubSeq(s, 1, c.len - 1) \in Text
      BY <1>7, PartOf DEF Text
    <2>. QED BY <1>7, <2>1 DEF Results
  <1>. QED BY <1>1, <1>2, <1>3, <1>4, <1>5, <1>6, <1>7

\* The parts of a text that InsertString and DeleteString put together again.
LEMMA Joined ==
    ASSUME NEW s1 \in Text, NEW s2 \in Text
    PROVE  /\ s1 \o s2 \in Text /\ Len(s1 \o s2) = Len(s1) + Len(s2)
           /\ \A i \in 1 .. Len(s1) + Len(s2) :
                (s1 \o s2)[i] = IF i <= Len(s1) THEN s1[i] ELSE s2[i - Len(s1)]
  BY ConcatProperties DEF Text

\* The same of cells.
LEMMA JoinedCells ==
    ASSUME NEW s1 \in Cells, NEW s2 \in Cells
    PROVE  /\ s1 \o s2 \in Cells /\ Len(s1 \o s2) = Len(s1) + Len(s2)
           /\ \A i \in 1 .. Len(s1) + Len(s2) :
                (s1 \o s2)[i] = IF i <= Len(s1) THEN s1[i] ELSE s2[i - Len(s1)]
  BY ConcatProperties DEF Cells

\* The first characters of a text, or the first cells of a block.
LEMMA FirstPart ==
    ASSUME NEW S, NEW m \in Seq(S), NEW j \in Nat, j <= Len(m)
    PROVE  /\ SubSeq(m, 1, j) \in Seq(S) /\ Len(SubSeq(m, 1, j)) = j
           /\ \A i \in 1 .. j : SubSeq(m, 1, j)[i] = m[i]
  <1>. DEFINE u == SubSeq(m, 1, j)
  <1>1. /\ u \in Seq(S) /\ Len(u) = IF 1 <= j THEN j - 1 + 1 ELSE 0
        /\ \A k \in 1 .. j - 1 + 1 : u[k] = m[1 + k - 1]
    BY PartOf
  <1>. HIDE DEF u
  <1>2. u \in Seq(S) /\ Len(u) = j /\ \A i \in 1 .. j : u[i] = m[i]
    BY <1>1
  <1>. QED BY <1>2 DEF u

\* What is left of a text when characters in its middle are deleted.
LEMMA DeletedParts ==
    ASSUME NEW s \in Text, NEW pos \in Nat, NEW len \in Nat, pos + len < Len(s)
    PROVE  LET r == SubSeq(s, 1, pos) \o SubSeq(s, pos + len + 1, Len(s))
           IN  /\ r \in Text /\ Len(r) = Len(s) - len
               /\ \A i \in 1 .. Len(s) - len : r[i] = IF i <= pos THEN s[i] ELSE s[i + len]
  <1>. DEFINE n == Len(s)
              head == SubSeq(s, 1, pos)
              tail == SubSeq(s, pos + len + 1, n)
              r == head \o tail
  <1>1. n \in Nat
    BY DEF Text
  <1>2. /\ head \in Text /\ Len(head) = pos /\ \A i \in 1 .. pos : head[i] = s[i]
    BY <1>1, FirstPart DEF Text
  <1>3. /\ tail \in Text /\ Len(tail) = n - (pos + len)
        /\ \A i \in 1 .. n - (pos + len) : tail[i] = s[pos + len + i]
    <2>1. /\ tail \in Text /\ Len(tail) = IF pos + len + 1 <= n THEN n - (pos + len + 1) + 1 ELSE 0
          /\ \A k \in 1 .. n - (pos + len + 1) + 1 : tail[k] = s[pos + len + 1 + k - 1]
      BY <1>1, PartOf DEF Text
    <2>. HIDE DEF tail
    <2>. QED BY <1>1, <2>1
  <1>4. /\ r \in Text /\ Len(r) = Len(head) + Len(tail)
        /\ \A i \in 1 .. Len(head) + Len(tail) :
             r[i] = IF i <= Len(head) THEN head[i] ELSE tail[i - Len(head)]
    <2>. HIDE DEF head, tail
    <2>. QED BY <1>2, <1>3, Joined
  <1>. HIDE DEF head, tail, r
  <1>5. Len(head) + Len(tail) = n - len
    BY <1>1, <1>2, <1>3
  <1>6. /\ r \in Text /\ Len(r) = n - len
        /\ \A i \in 1 .. n - len : r[i] = IF i <= pos THEN head[i] ELSE tail[i - pos]
    BY <1>2, <1>4, <1>5
  <1>7. ASSUME NEW i \in 1 .. n - len PROVE r[i] = IF i <= pos THEN s[i] ELSE s[i + len]
    <2>0. i \in Int /\ i >= 1 /\ i <= n - len
      BY <1>1
    <2>1. CASE i <= pos
      <3>1. i \in 1 .. pos
        BY <2>0, <2>1
      <3>. QED BY <1>2, <1>6, <2>1, <3>1
    <2>2. CASE ~(i <= pos)
      <3>1. i - pos \in 1 .. n - (pos + len) /\ pos + len + (i - pos) = i + len
        BY <1>1, <2>0, <2>2
      <3>2. r[i] = tail[i - pos]
        BY <1>6, <2>2
      <3>3. tail[i - pos] = s[pos + len + (i - pos)]
        BY <1>3, <3>1
      <3>. QED BY <2>2, <3>1, <3>2, <3>3
    <2>. QED BY <2>1, <2>2
  <1>. QED BY <1>6, <1>7 DEF r, head, tail

\* InsertString writes the tail, with the 0, behind the place of the text, then the text.
LEMMA InsertWrites ==
    ASSUME NEW m \in Cells, NEW s \in Text, NEW u \in Text, NEW pos \in Nat, pos < Len(s),
           Holds(m, s), Len(s) + Len(u) + 1 <= Len(m)
    PROVE  LET w == Put(Put(m, pos + Len(u), SubSeq(m, pos + 1, Len(s) + 1)), pos, u)
           IN  w \in Cells /\ Holds(w, SubSeq(s, 1, pos) \o u \o SubSeq(s, pos + 1, Len(s)))
  <1>. DEFINE n == Len(s)
              head == SubSeq(s, 1, pos)
              tail == SubSeq(s, pos + 1, n)
              moved == SubSeq(m, pos + 1, n + 1)
              m1 == Put(m, pos + Len(u), moved)
              w == Put(m1, pos, u)
              r == head \o u \o tail
  <1>1. n \in Nat /\ Len(u) \in Nat /\ Len(m) \in Nat /\ n < Len(m) /\ u \in Cells
    BY DEF Text, Cells, Holds
  <1>2. /\ head \in Text /\ Len(head) = pos /\ \A i \in 1 .. pos : head[i] = s[i]
        /\ tail \in Text /\ Len(tail) = n - pos /\ \A i \in 1 .. n - pos : tail[i] = s[pos + i]
    <2>1. /\ head \in Text /\ Len(head) = IF 1 <= pos THEN pos - 1 + 1 ELSE 0
          /\ \A k \in 1 .. pos - 1 + 1 : head[k] = s[1 + k - 1]
      BY <1>1, PartOf DEF Text
    <2>2. /\ tail \in Text /\ Len(tail) = IF pos + 1 <= n THEN n - (pos + 1) + 1 ELSE 0
          /\ \A k \in 1 .. n - (pos + 1) + 1 : tail[k] = s[pos + 1 + k - 1]
      BY <1>1, PartOf DEF Text
    <2>. HIDE DEF head, tail
    <2>. QED BY <1>1, <2>1, <2>2
  <1>3. moved \in Cells /\ Len(moved) = n + 1 - pos /\ \A i \in 1 .. n + 1 - pos : moved[i] = m[pos + i]
    BY <1>1, PartOf DEF Cells
  <1>4. /\ m1 \in Cells /\ Len(m1) = Len(m)
        /\ \A i \in 1 .. Len(m) : m1[i] = IF pos + Len(u) < i /\ i <= pos + Len(u) + (n + 1 - pos)
                                          THEN m[i - Len(u)] ELSE m[i]
    <2>1. /\ m1 \in Cells /\ Len(m1) = Len(m)
          /\ \A i \in 1 .. Len(m) : m1[i] = IF pos + Len(u) < i /\ i <= pos + Len(u) + Len(moved)
                                            THEN moved[i - (pos + Len(u))] ELSE m[i]
      <3>. HIDE DEF moved
      <3>. QED BY <1>1, <1>3, PutCells
    <2>. HIDE DEF m1, moved
    <2>2. ASSUME NEW i \in 1 .. Len(m), pos + Len(u) < i, i <= pos + Len(u) + (n + 1 - pos)
          PROVE  i - (pos + Len(u)) \in 1 .. n + 1 - pos /\ pos + (i - (pos + Len(u))) = i - Len(u)
      BY <1>1, <2>2
    <2>3. ASSUME NEW i \in 1 .. Len(m), pos + Len(u) < i, i <= pos + Len(u) + (n + 1 - pos)
          PROVE  moved[i - (pos + Len(u))] = m[i - Len(u)]
      BY <1>3, <2>2, <2>3
    <2>. QED BY <1>1, <1>3, <2>1, <2>3
  <1>5. /\ w \in Cells /\ Len(w) = Len(m)
        /\ \A i \in 1 .. Len(m) : w[i] = IF pos < i /\ i <= pos + Len(u) THEN u[i - pos] ELSE m1[i]
    <2>. HIDE DEF m1
    <2>. QED BY <1>1, <1>4, PutCells
  <1>6. /\ r \in Text /\ Len(r) = n + Len(u)
        /\ \A i \in 1 .. n + Len(u) : r[i] = IF i <= pos THEN s[i]
                                             ELSE IF i <= pos + Len(u) THEN u[i - pos] ELSE s[i - Len(u)]
    <2>. DEFINE hu == head \o u
    <2>1. /\ hu \in Text /\ Len(hu) = pos + Len(u)
          /\ \A i \in 1 .. pos + Len(u) : hu[i] = IF i <= pos THEN head[i] ELSE u[i - pos]
      <3>. HIDE DEF head
      <3>1. /\ head \o u \in Text /\ Len(head \o u) = Len(head) + Len(u)
            /\ \A i \in 1 .. Len(head) + Len(u) :
                 (head \o u)[i] = IF i <= Len(head) THEN head[i] ELSE u[i - Len(head)]
        BY <1>2, Joined
      <3>. QED BY <1>1, <1>2, <3>1
    <2>2. /\ hu \o tail \in Text /\ Len(hu \o tail) = Len(hu) + Len(tail)
          /\ \A i \in 1 .. Len(hu) + Len(tail) :
                (hu \o tail)[i] = IF i <= Len(hu) THEN hu[i] ELSE tail[i - Len(hu)]
      <3>. HIDE DEF hu, tail
      <3>. QED BY <2>1, <1>2, Joined
    <2>3. r = hu \o tail
      OBVIOUS
    <2>. HIDE DEF head, tail, r, hu
    <2>4. /\ r \in Text /\ Len(r) = n + Len(u)
          /\ \A i \in 1 .. n + Len(u) :
               r[i] = IF i <= pos + Len(u) THEN hu[i] ELSE tail[i - (pos + Len(u))]
      <3>1. Len(hu) + Len(tail) = n + Len(u) /\ Len(hu) = pos + Len(u)
        BY <1>1, <1>2, <2>1
      <3>2. /\ r \in Text /\ Len(r) = n + Len(u)
            /\ \A i \in 1 .. n + Len(u) : r[i] = IF i <= Len(hu) THEN hu[i] ELSE tail[i - Len(hu)]
        BY <2>2, <2>3, <3>1
      <3>. QED BY <3>1, <3>2
    <2>5. ASSUME NEW i \in 1 .. n + Len(u) PROVE i \in Int /\ i >= 1 /\ i <= n + Len(u)
      BY <1>1
    <2>6. ASSUME NEW i \in 1 .. n + Len(u), ~(i <= pos + Len(u))
          PROVE  r[i] = s[i - Len(u)]
      <3>1. i - (pos + Len(u)) \in 1 .. n - pos /\ pos + (i - (pos + Len(u))) = i - Len(u)
        BY <1>1, <2>5, <2>6
      <3>2. r[i] = tail[i - (pos + Len(u))]
        BY <2>4, <2>6
      <3>3. tail[i - (pos + Len(u))] = s[pos + (i - (pos + Len(u)))]
        BY <1>2, <3>1
      <3>. QED BY <3>1, <3>2, <3>3
    <2>7. ASSUME NEW i \in 1 .. n + Len(u), i <= pos + Len(u)
          PROVE  r[i] = IF i <= pos THEN s[i] ELSE u[i - pos]
      <3>1. i \in 1 .. pos + Len(u) /\ (i <= pos => i \in 1 .. pos)
        BY <1>1, <2>5, <2>7
      <3>2. r[i] = hu[i]
        BY <2>4, <2>7
      <3>3. hu[i] = IF i <= pos THEN head[i] ELSE u[i - pos]
        BY <2>1, <3>1
      <3>. QED BY <1>2, <3>1, <3>2, <3>3
    <2>8. ASSUME NEW i \in 1 .. n + Len(u), ~(i <= pos + Len(u)) PROVE ~(i <= pos)
      BY <1>1, <2>5, <2>8
    <2>. QED BY <2>4, <2>6, <2>7, <2>8
  <1>. HIDE DEF head, tail, moved, m1, w, r
  <1>7. \A i \in 1 .. n : m[i] = s[i]
    BY DEF Holds
  <1>8. m[n + 1] = Nul
    BY DEF Holds
  <1>9. Holds(w, r)
    <2>1. ASSUME NEW i \in 1 .. n + Len(u) PROVE w[i] = r[i]
      <3>0. i \in Int /\ i >= 1 /\ i <= n + Len(u) /\ i \in 1 .. Len(m)
        BY <1>1
      <3>1. CASE i <= pos
        <4>1. w[i] = m1[i] /\ r[i] = s[i]
          BY <1>1, <1>5, <1>6, <3>0, <3>1
        <4>2. m1[i] = m[i]
          BY <1>1, <1>4, <3>0, <3>1
        <4>3. m[i] = s[i]
          BY <1>1, <1>7, <3>0, <3>1
        <4>. QED BY <4>1, <4>2, <4>3
      <3>2. CASE pos < i /\ i <= pos + Len(u)
        BY <1>1, <1>5, <1>6, <3>0, <3>2
      <3>3. CASE pos + Len(u) < i
        <4>0. ~(i <= pos + Len(u)) /\ ~(i <= pos) /\ i <= pos + Len(u) + (n + 1 - pos)
          BY <1>1, <3>0, <3>3
        <4>1. w[i] = m1[i] /\ r[i] = s[i - Len(u)]
          BY <1>5, <1>6, <3>0, <4>0
        <4>2. m1[i] = m[i - Len(u)]
          BY <1>4, <3>0, <3>3, <4>0
        <4>3. i - Len(u) \in 1 .. n
          BY <1>1, <3>0, <3>3
        <4>. QED BY <1>7, <4>1, <4>2, <4>3
      <3>. QED BY <1>1, <3>0, <3>1, <3>2, <3>3
    <2>2. w[n + Len(u) + 1] = Nul
      <3>1. n + Len(u) + 1 \in 1 .. Len(m) /\ ~(n + Len(u) + 1 <= pos + Len(u)) /\ pos + Len(u) < n + Len(u) + 1
            /\ n + Len(u) + 1 <= pos + Len(u) + (n + 1 - pos) /\ n + Len(u) + 1 - Len(u) = n + 1
        BY <1>1
      <3>2. w[n + Len(u) + 1] = m1[n + Len(u) + 1]
        BY <1>5, <3>1
      <3>3. m1[n + Len(u) + 1] = m[n + Len(u) + 1 - Len(u)]
        BY <1>4, <3>1
      <3>. QED BY <1>8, <3>1, <3>2, <3>3
    <2>3. Len(r) < Len(w)
      BY <1>1, <1>5, <1>6
    <2>. QED BY <1>6, <2>1, <2>2, <2>3 DEF Holds
  <1>. QED BY <1>5, <1>9 DEF w, m1, moved, r, head, tail

\* AppendString writes the text and its 0 behind what is there.
LEMMA AppendWrites ==
    ASSUME NEW m \in Cells, NEW s \in Text, NEW u \in Text, Holds(m, s), Len(s) + Len(u) + 1 <= Len(m)
    PROVE  Put(m, Len(s), Z(u)) \in Cells /\ Holds(Put(m, Len(s), Z(u)), s \o u)
  <1>. DEFINE n == Len(s)  w == Put(m, n, Z(u))  r == s \o u
  <1>1. n \in Nat /\ Len(u) \in Nat /\ Len(m) \in Nat
    BY DEF Text, Cells
  <1>2. /\ Z(u) \in Cells /\ Len(Z(u)) = Len(u) + 1 /\ Z(u)[Len(u) + 1] = Nul
        /\ \A i \in 1 .. Len(u) : Z(u)[i] = u[i]
    BY ZCells
  <1>3. /\ w \in Cells /\ Len(w) = Len(m)
        /\ \A i \in 1 .. Len(m) : w[i] = IF n < i /\ i <= n + Len(Z(u)) THEN Z(u)[i - n] ELSE m[i]
    BY <1>1, <1>2, PutCells
  <1>4. /\ r \in Text /\ Len(r) = n + Len(u)
        /\ \A i \in 1 .. n + Len(u) : r[i] = IF i <= n THEN s[i] ELSE u[i - n]
    BY Joined
  <1>. HIDE DEF n, w, r
  <1>5. \A i \in 1 .. n : m[i] = s[i]
    BY DEF Holds, n
  <1>6. ASSUME NEW i \in 1 .. n + Len(u) PROVE w[i] = r[i]
    <2>0. i \in Int /\ i >= 1 /\ i <= n + Len(u) /\ i \in 1 .. Len(m)
      BY <1>1 DEF n
    <2>1. CASE i <= n
      <3>1. i \in 1 .. n
        BY <1>1, <2>0, <2>1
      <3>. QED BY <1>1, <1>3, <1>4, <1>5, <2>0, <2>1, <3>1
    <2>2. CASE n < i
      <3>1. i - n \in 1 .. Len(u) /\ i <= n + Len(Z(u)) /\ ~(i <= n)
        BY <1>1, <1>2, <2>0, <2>2
      <3>. QED BY <1>2, <1>3, <1>4, <2>0, <2>2, <3>1
    <2>. QED BY <1>1, <2>0, <2>1, <2>2
  <1>7. w[n + Len(u) + 1] = Nul
    <2>. DEFINE e == n + Len(u) + 1
    <2>1. e \in 1 .. Len(m) /\ n < e /\ e <= n + Len(Z(u)) /\ e - n = Len(u) + 1
      BY <1>1, <1>2 DEF n
    <2>. HIDE DEF e
    <2>2. w[e] = Z(u)[e - n]
      BY <1>3, <2>1
    <2>. QED BY <1>2, <2>1, <2>2 DEF e
  <1>8. Len(r) < Len(w)
    BY <1>1, <1>3, <1>4 DEF n
  <1>9. Holds(w, r)
    BY <1>4, <1>6, <1>7, <1>8 DEF Holds
  <1>. QED BY <1>3, <1>9 DEF w, r, n

\* SetString and Fill write over whatever was there.
LEMMA SetWrites ==
    ASSUME NEW m \in Cells, NEW u \in Text, Len(u) + 1 <= Len(m)
    PROVE  Put(m, 0, Z(u)) \in Cells /\ Holds(Put(m, 0, Z(u)), u)
  <1>1. Len(u) \in Nat /\ Len(m) \in Nat
    BY DEF Text, Cells
  <1>2. /\ Z(u) \in Cells /\ Len(Z(u)) = Len(u) + 1 /\ Z(u)[Len(u) + 1] = Nul
        /\ \A i \in 1 .. Len(u) : Z(u)[i] = u[i]
    BY ZCells
  <1>. DEFINE w == Put(m, 0, Z(u))
  <1>3. /\ w \in Cells /\ Len(w) = Len(m)
        /\ \A i \in 1 .. Len(m) : w[i] = IF 0 < i /\ i <= 0 + Len(Z(u)) THEN Z(u)[i - 0] ELSE m[i]
    BY <1>1, <1>2, PutCells
  <1>. HIDE DEF w
  <1>4. ASSUME NEW i \in 1 .. Len(u) + 1 PROVE w[i] = Z(u)[i]
    <2>1. i \in 1 .. Len(m) /\ 0 < i /\ i <= 0 + Len(Z(u)) /\ i - 0 = i
      BY <1>1, <1>2
    <2>. QED BY <1>3, <2>1
  <1>5. Holds(w, u)
    BY <1>1, <1>2, <1>3, <1>4 DEF Holds
  <1>. QED BY <1>3, <1>5 DEF w

\* DeleteString cuts the text if there is nothing behind the deleted characters ...
LEMMA DeleteCuts ==
    ASSUME NEW m \in Cells, NEW s \in Text, NEW pos \in Nat, pos < Len(s), NEW len \in Nat,
           pos + len >= Len(s), pos + 1 <= Len(m), \A i \in 1 .. pos : m[i] = s[i]
    PROVE  /\ Put(m, pos, <<Nul>>) \in Cells
           /\ Holds(Put(m, pos, <<Nul>>), SubSeq(s, 1, pos) \o SubSeq(s, pos + len + 1, Len(s)))
  <1>. DEFINE w == Put(m, pos, <<Nul>>)  r == SubSeq(s, 1, pos)
  <1>1. Len(s) \in Nat /\ Len(m) \in Nat
    BY DEF Text, Cells
  <1>2. <<Nul>> \in Cells /\ Len(<<Nul>>) = 1 /\ <<Nul>>[1] = Nul
    BY DEF Cells
  <1>3. /\ w \in Cells /\ Len(w) = Len(m)
        /\ \A i \in 1 .. Len(m) : w[i] = IF pos < i /\ i <= pos + Len(<<Nul>>) THEN <<Nul>>[i - pos] ELSE m[i]
    BY <1>2, PutCells
  <1>4. r \in Text /\ Len(r) = pos /\ \A i \in 1 .. pos : r[i] = s[i]
    BY <1>1, FirstPart DEF Text
  <1>5. SubSeq(s, pos + len + 1, Len(s)) = <<>>
    BY <1>1, SubSeqEmpty
  <1>6. r \o SubSeq(s, pos + len + 1, Len(s)) = r
    BY <1>4, <1>5, ConcatEmptySeq DEF Text
  <1>. HIDE DEF w, r
  <1>7. \A i \in 1 .. pos : w[i] = r[i]
    BY <1>1, <1>3, <1>4
  <1>8. w[pos + 1] = Nul
    <2>1. pos + 1 \in 1 .. Len(m) /\ pos < pos + 1 /\ pos + 1 <= pos + Len(<<Nul>>) /\ pos + 1 - pos = 1
      BY <1>1, <1>2
    <2>. QED BY <1>2, <1>3, <2>1
  <1>9. Holds(w, r)
    BY <1>1, <1>3, <1>4, <1>7, <1>8 DEF Holds
  <1>. QED BY <1>3, <1>6, <1>9 DEF w, r

\* ... or moves what is behind them, with the 0, to the front.
LEMMA DeleteMoves ==
    ASSUME NEW m \in Cells, NEW s \in Text, NEW pos \in Nat, NEW len \in Nat \ {0},
           pos + len < Len(s), Holds(m, s)
    PROVE  LET w == Put(m, pos, SubSeq(m, pos + len + 1, Len(s) + 1))
           IN  w \in Cells /\ Holds(w, SubSeq(s, 1, pos) \o SubSeq(s, pos + len + 1, Len(s)))
  <1>. DEFINE n == Len(s)
              moved == SubSeq(m, pos + len + 1, n + 1)
              w == Put(m, pos, moved)
              r == SubSeq(s, 1, pos) \o SubSeq(s, pos + len + 1, n)
  <1>1. n \in Nat /\ Len(m) \in Nat /\ n < Len(m)
    BY DEF Text, Cells, Holds
  <1>2. /\ moved \in Cells /\ Len(moved) = n + 1 - (pos + len)
        /\ \A i \in 1 .. n + 1 - (pos + len) : moved[i] = m[pos + len + i]
    <2>1. /\ moved \in Cells /\ Len(moved) = IF pos + len + 1 <= n + 1 THEN n + 1 - (pos + len + 1) + 1 ELSE 0
          /\ \A k \in 1 .. n + 1 - (pos + len + 1) + 1 : moved[k] = m[pos + len + 1 + k - 1]
      BY <1>1, PartOf DEF Cells
    <2>. HIDE DEF moved
    <2>. QED BY <1>1, <2>1
  <1>3. /\ w \in Cells /\ Len(w) = Len(m)
        /\ \A i \in 1 .. Len(m) : w[i] = IF pos < i /\ i <= pos + Len(moved) THEN moved[i - pos] ELSE m[i]
    <2>. HIDE DEF moved
    <2>. QED BY <1>2, PutCells
  <1>4. /\ r \in Text /\ Len(r) = n - len
        /\ \A i \in 1 .. n - len : r[i] = IF i <= pos THEN s[i] ELSE s[i + len]
    BY <1>1, DeletedParts
  <1>. HIDE DEF moved, w, r
  <1>5. \A i \in 1 .. n : m[i] = s[i]
    BY DEF Holds
  <1>6. ASSUME NEW i \in 1 .. n - len PROVE w[i] = r[i]
    <2>0. i \in Int /\ i >= 1 /\ i <= n - len /\ i \in 1 .. Len(m)
      BY <1>1
    <2>1. CASE i <= pos
      <3>1. i \in 1 .. n /\ ~(pos < i)
        BY <1>1, <2>0, <2>1
      <3>. QED BY <1>3, <1>4, <1>5, <2>0, <2>1, <3>1
    <2>2. CASE pos < i
      <3>1. i - pos \in 1 .. n + 1 - (pos + len) /\ i <= pos + Len(moved) /\ ~(i <= pos)
            /\ pos + len + (i - pos) = i + len /\ i + len \in 1 .. n
        BY <1>1, <1>2, <2>0, <2>2
      <3>2. w[i] = moved[i - pos] /\ moved[i - pos] = m[pos + len + (i - pos)]
        BY <1>2, <1>3, <2>0, <2>2, <3>1
      <3>3. m[i + len] = s[i + len] /\ r[i] = s[i + len]
        BY <1>4, <1>5, <3>1
      <3>. QED BY <3>1, <3>2, <3>3
    <2>. QED BY <1>1, <2>0, <2>1, <2>2
  <1>7. w[n - len + 1] = Nul
    <2>1. n - len + 1 \in 1 .. Len(m) /\ pos < n - len + 1 /\ n - len + 1 <= pos + Len(moved)
          /\ n - len + 1 - pos \in 1 .. n + 1 - (pos + len) /\ pos + len + (n - len + 1 - pos) = n + 1
      BY <1>1, <1>2
    <2>2. w[n - len + 1] = moved[n - len + 1 - pos]
      BY <1>3, <2>1
    <2>3. moved[n - len + 1 - pos] = m[pos + len + (n - len + 1 - pos)]
      BY <1>2, <2>1
    <2>. QED BY <2>1, <2>2, <2>3 DEF Holds
  <1>8. Len(r) < Len(w)
    BY <1>1, <1>3, <1>4
  <1>9. Holds(w, r)
    BY <1>4, <1>6, <1>7, <1>8 DEF Holds
  <1>. QED BY <1>3, <1>9 DEF w, r, moved

\* The same done while the characters are taken over into a new block: the part before
\* the position and the part behind the deleted characters, with the 0.
LEMMA DeleteCopies ==
    ASSUME NEW z \in Cells, NEW m \in Cells, NEW s \in Text, NEW pos \in Nat, NEW len \in Nat \ {0},
           pos + len < Len(s), Holds(m, s), Len(s) - len + 1 <= Len(z)
    PROVE  LET kept == SubSeq(m, 1, pos) \o SubSeq(m, pos + len + 1, Len(s) + 1)
           IN  /\ kept \in Cells /\ Put(z, 0, kept) \in Cells
               /\ Holds(Put(z, 0, kept), SubSeq(s, 1, pos) \o SubSeq(s, pos + len + 1, Len(s)))
  <1>. DEFINE n == Len(s)
              head == SubSeq(m, 1, pos)
              rest == SubSeq(m, pos + len + 1, n + 1)
              kept == head \o rest
              w == Put(z, 0, kept)
              r == SubSeq(s, 1, pos) \o SubSeq(s, pos + len + 1, n)
  <1>1. n \in Nat /\ Len(m) \in Nat /\ n < Len(m) /\ Len(z) \in Nat
    BY DEF Text, Cells, Holds
  <1>2. /\ head \in Cells /\ Len(head) = pos /\ \A i \in 1 .. pos : head[i] = m[i]
    BY <1>1, FirstPart DEF Cells
  <1>3. /\ rest \in Cells /\ Len(rest) = n + 1 - (pos + len)
        /\ \A i \in 1 .. n + 1 - (pos + len) : rest[i] = m[pos + len + i]
    <2>1. /\ rest \in Cells /\ Len(rest) = IF pos + len + 1 <= n + 1 THEN n + 1 - (pos + len + 1) + 1 ELSE 0
          /\ \A k \in 1 .. n + 1 - (pos + len + 1) + 1 : rest[k] = m[pos + len + 1 + k - 1]
      BY <1>1, PartOf DEF Cells
    <2>. HIDE DEF rest
    <2>. QED BY <1>1, <2>1
  <1>4. /\ kept \in Cells /\ Len(kept) = n - len + 1
        /\ \A i \in 1 .. n - len + 1 : kept[i] = IF i <= pos THEN head[i] ELSE rest[i - pos]
    <2>. HIDE DEF head, rest
    <2>1. /\ head \o rest \in Cells /\ Len(head \o rest) = Len(head) + Len(rest)
          /\ \A i \in 1 .. Len(head) + Len(rest) :
               (head \o rest)[i] = IF i <= Len(head) THEN head[i] ELSE rest[i - Len(head)]
      BY <1>2, <1>3, JoinedCells
    <2>2. Len(head) + Len(rest) = n - len + 1
      BY <1>1, <1>2, <1>3
    <2>. QED BY <1>2, <2>1, <2>2
  <1>5. /\ w \in Cells /\ Len(w) = Len(z)
        /\ \A i \in 1 .. Len(z) : w[i] = IF 0 < i /\ i <= 0 + Len(kept) THEN kept[i - 0] ELSE z[i]
    <2>. HIDE DEF kept
    <2>. QED BY <1>4, PutCells
  <1>6. /\ r \in Text /\ Len(r) = n - len
        /\ \A i \in 1 .. n - len : r[i] = IF i <= pos THEN s[i] ELSE s[i + len]
    <2>1. len \in Nat /\ pos + len < n
      OBVIOUS
    <2>. QED BY <2>1, DeletedParts
  <1>. HIDE DEF head, rest, kept, w, r
  <1>7. ASSUME NEW i \in 1 .. n - len + 1 PROVE w[i] = kept[i] /\ i \in Int /\ i >= 1 /\ i <= n - len + 1
    <2>1. i \in 1 .. Len(z) /\ 0 < i /\ i <= 0 + Len(kept) /\ i - 0 = i
      BY <1>1, <1>4
    <2>. QED BY <1>1, <1>5, <2>1
  <1>8. ASSUME NEW i \in 1 .. n - len PROVE w[i] = r[i]
    <2>0. i \in Int /\ i >= 1 /\ i <= n - len /\ i \in 1 .. n - len + 1
      BY <1>1
    <2>1. CASE i <= pos
      <3>1. i \in 1 .. pos /\ i \in 1 .. n
        BY <1>1, <2>0, <2>1
      <3>2. w[i] = kept[i] /\ kept[i] = head[i] /\ head[i] = m[i]
        BY <1>2, <1>4, <1>7, <2>0, <2>1, <3>1
      <3>3. m[i] = s[i] /\ r[i] = s[i]
        BY <1>6, <2>1, <3>1 DEF Holds
      <3>. QED BY <3>2, <3>3
    <2>2. CASE pos < i
      <3>1. i - pos \in 1 .. n + 1 - (pos + len) /\ ~(i <= pos)
            /\ pos + len + (i - pos) = i + len /\ i + len \in 1 .. n
        BY <1>1, <2>0, <2>2
      <3>2. w[i] = rest[i - pos] /\ rest[i - pos] = m[pos + len + (i - pos)]
        BY <1>3, <1>4, <1>7, <2>0, <3>1
      <3>3. m[i + len] = s[i + len] /\ r[i] = s[i + len]
        BY <1>6, <3>1 DEF Holds
      <3>. QED BY <3>1, <3>2, <3>3
    <2>. QED BY <1>1, <2>0, <2>1, <2>2
  <1>9. w[n - len + 1] = Nul
    <2>1. n - len + 1 \in 1 .. n - len + 1 /\ ~(n - len + 1 <= pos)
          /\ n - len + 1 - pos \in 1 .. n + 1 - (pos + len) /\ pos + len + (n - len + 1 - pos) = n + 1
      BY <1>1
    <2>2. w[n - len + 1] = rest[n - len + 1 - pos]
      BY <1>4, <1>7, <2>1
    <2>3. rest[n - len + 1 - pos] = m[pos + len + (n - len + 1 - pos)]
      BY <1>3, <2>1
    <2>. QED BY <2>1, <2>2, <2>3 DEF Holds
  <1>10. Len(r) < Len(w)
    BY <1>1, <1>5, <1>6
  <1>11. Holds(w, r)
    BY <1>6, <1>8, <1>9, <1>10 DEF Holds
  <1>. QED BY <1>4, <1>5, <1>11 DEF w, r, kept, head, rest

\* ToLowerCase goes over the characters before the 0.
LEMMA LowerWrites ==
    ASSUME NEW m \in Cells, NEW s \in Text, Holds(m, s)
    PROVE  LET w == [i \in 1 .. Len(m) |-> IF i <= Length(m) THEN Lower(m[i]) ELSE m[i]]
               r == [i \in 1 .. Len(s) |-> Lower(s[i])]
           IN  w \in Cells /\ r \in Text /\ Holds(w, r)
  <1>. DEFINE w == [i \in 1 .. Len(m) |-> IF i <= Length(m) THEN Lower(m[i]) ELSE m[i]]
              r == [i \in 1 .. Len(s) |-> Lower(s[i])]
  <1>1. Length(m) = Len(s) /\ Len(s) \in Nat /\ Len(m) \in Nat /\ Len(s) < Len(m)
    BY HoldsIs DEF Holds, Text, Cells
  <1>2. \A i \in 1 .. Len(s) : m[i] = s[i] /\ s[i] \in Chars /\ Lower(s[i]) \in Chars
    BY StringAssumption DEF Holds, Text
  <1>3. r \in [1 .. Len(s) -> Chars] /\ \A i \in 1 .. Len(s) : r[i] = Lower(s[i])
    BY <1>2
  <1>4. r \in Text /\ Len(r) = Len(s)
    BY <1>1, <1>3 DEF Text
  <1>5. \A i \in 1 .. Len(m) : w[i] = IF i <= Len(s) THEN Lower(m[i]) ELSE m[i]
    BY <1>1
  <1>6. ASSUME NEW i \in 1 .. Len(m) PROVE w[i] \in Chars \cup {Nul}
    <2>1. i <= Len(s) => i \in 1 .. Len(s)
      BY <1>1
    <2>2. m[i] \in Chars \cup {Nul}
      BY DEF Cells
    <2>. QED BY <1>2, <1>5, <2>1, <2>2
  <1>7. w \in Cells /\ Len(w) = Len(m)
    <2>1. w \in [1 .. Len(m) -> Chars \cup {Nul}]
      <3>1. \A i \in 1 .. Len(m) : w[i] \in Chars \cup {Nul}
        BY <1>6
      <3>. QED BY <3>1
    <2>. QED BY <1>1, <2>1 DEF Cells
  <1>. HIDE DEF w, r
  <1>8. \A i \in 1 .. Len(s) : i \in 1 .. Len(m) /\ w[i] = r[i]
    BY <1>1, <1>2, <1>3, <1>5
  <1>9. w[Len(s) + 1] = Nul
    <2>1. Len(s) + 1 \in 1 .. Len(m) /\ ~(Len(s) + 1 <= Len(s))
      BY <1>1
    <2>. QED BY <1>5, <2>1 DEF Holds
  <1>10. Holds(w, r)
    BY <1>1, <1>4, <1>7, <1>8, <1>9 DEF Holds
  <1>. QED BY <1>4, <1>7, <1>10 DEF w, r

\* A call that writes into characters that are what it needs leaves a result.
LEMMA EditedIs ==
    ASSUME NEW c, NEW s \in Text, Args(c, s), c.name \in Writers, NEW m \in Cells, Editable(c, m, s)
    PROVE  Edited(c, m, Len(s)) \in Cells /\ \E r \in Results(c, s) : Holds(Edited(c, m, Len(s)), r)
  <1>1. CASE c.name \in {"SetString", "Fill"}
    <2>1. Edited(c, m, Len(s)) = Put(m, 0, Z(c.text)) /\ Results(c, s) = {c.text}
          /\ c.text \in Text /\ Len(c.text) + 1 <= Len(m)
      BY <1>1 DEF Edited, Results, Editable, Need, Args
    <2>. QED BY <2>1, SetWrites
  <1>2. CASE c.name = "AppendString"
    <2>1. Edited(c, m, Len(s)) = Put(m, Len(s), Z(c.text)) /\ Results(c, s) = {s \o c.text}
          /\ c.text \in Text /\ Len(s) + Len(c.text) + 1 <= Len(m) /\ Holds(m, s)
      BY <1>2 DEF Edited, Results, Editable, Need, Args
    <2>. QED BY <2>1, AppendWrites
  <1>3. CASE c.name = "InsertString"
    <2>1. Edited(c, m, Len(s)) =
            Put(Put(m, c.pos + Len(c.text), SubSeq(m, c.pos + 1, Len(s) + 1)), c.pos, c.text)
      BY <1>3 DEF Edited
    <2>2. Results(c, s) = {SubSeq(s, 1, c.pos) \o c.text \o SubSeq(s, c.pos + 1, Len(s))}
      BY <1>3 DEF Results
    <2>3. c.text \in Text /\ c.pos \in Nat /\ c.pos < Len(s) /\ Holds(m, s)
          /\ Len(s) + Len(c.text) + 1 <= Len(m)
      BY <1>3 DEF Editable, Need, Args
    <2>. QED BY <2>1, <2>2, <2>3, InsertWrites
  <1>4. CASE c.name = "DeleteString" /\ c.pos + c.len >= Len(s)
    <2>1. Edited(c, m, Len(s)) = Put(m, c.pos, <<Nul>>)
      BY <1>4 DEF Edited
    <2>2. Results(c, s) = {SubSeq(s, 1, c.pos) \o SubSeq(s, c.pos + c.len + 1, Len(s))}
      BY <1>4 DEF Results
    <2>3. c.pos \in Nat /\ c.len \in Nat /\ c.pos < Len(s) /\ c.pos + 1 <= Len(m)
          /\ \A i \in 1 .. c.pos : m[i] = s[i]
      BY <1>4 DEF Editable, Need, Args
    <2>4. /\ Put(m, c.pos, <<Nul>>) \in Cells
          /\ Holds(Put(m, c.pos, <<Nul>>), SubSeq(s, 1, c.pos) \o SubSeq(s, c.pos + c.len + 1, Len(s)))
      BY <1>4, <2>3, DeleteCuts
    <2>. QED BY <2>1, <2>2, <2>4
  <1>5. CASE c.name = "DeleteString" /\ ~(c.pos + c.len >= Len(s))
    <2>1. Edited(c, m, Len(s)) = Put(m, c.pos, SubSeq(m, c.pos + c.len + 1, Len(s) + 1))
      BY <1>5 DEF Edited
    <2>2. Results(c, s) = {SubSeq(s, 1, c.pos) \o SubSeq(s, c.pos + c.len + 1, Len(s))}
      BY <1>5 DEF Results
    <2>3. c.pos \in Nat /\ c.len \in Nat \ {0} /\ c.pos + c.len < Len(s) /\ Holds(m, s)
      BY <1>5 DEF Editable, Args, Text
    <2>. QED BY <2>1, <2>2, <2>3, DeleteMoves
  <1>6. CASE c.name = "ToLowerCase"
    <2>1. Edited(c, m, Len(s)) = [i \in 1 .. Len(m) |-> IF i <= Length(m) THEN Lower(m[i]) ELSE m[i]]
      BY <1>6 DEF Edited
    <2>2. Results(c, s) = {[i \in 1 .. Len(s) |-> Lower(s[i])]} /\ Holds(m, s)
      BY <1>6 DEF Results, Editable
    <2>. QED BY <2>1, <2>2, LowerWrites
  <1>. QED BY <1>1, <1>2, <1>3, <1>4, <1>5, <1>6 DEF Writers

\* The first j characters of a string, the 0 counted, taken over into another block.
LEMMA PrefixCopied ==
    ASSUME NEW z \in Cells, NEW m \in Cells, NEW s \in Text, Holds(m, s),
           NEW j \in Nat, j <= Len(s) + 1, j <= Len(z)
    PROVE  LET k == Put(z, 0, SubSeq(m, 1, j))
           IN  /\ k \in Cells /\ Len(k) = Len(z)
               /\ \A i \in 1 .. Len(z) : k[i] = IF i <= j THEN m[i] ELSE z[i]
  <1>. DEFINE u == SubSeq(m, 1, j)  k == Put(z, 0, u)
  <1>1. Len(s) \in Nat /\ Len(m) \in Nat /\ Len(z) \in Nat /\ Len(s) < Len(m) /\ j <= Len(m)
    BY DEF Holds, Text, Cells
  <1>2. u \in Cells /\ Len(u) = j /\ \A i \in 1 .. j : u[i] = m[i]
    BY <1>1, FirstPart DEF Cells
  <1>3. /\ k \in Cells /\ Len(k) = Len(z)
        /\ \A i \in 1 .. Len(z) : k[i] = IF 0 < i /\ i <= 0 + Len(u) THEN u[i - 0] ELSE z[i]
    <2>. HIDE DEF u
    <2>. QED BY <1>2, PutCells
  <1>. HIDE DEF u, k
  <1>4. ASSUME NEW i \in 1 .. Len(z) PROVE k[i] = IF i <= j THEN m[i] ELSE z[i]
    <2>1. i \in Int /\ 0 < i /\ i - 0 = i /\ 0 + Len(u) = j /\ (i <= j => i \in 1 .. j)
      BY <1>1, <1>2
    <2>2. k[i] = IF i <= j THEN u[i] ELSE z[i]
      BY <1>3, <2>1
    <2>. QED BY <1>2, <2>1, <2>2
  <1>. QED BY <1>3, <1>4 DEF k, u

\* the calls that take over characters of a shared string into a block of their own
Copiers == {"Fill", "SetSize", "AppendString", "InsertString", "DeleteString", "ToLowerCase"}

\* The whole string with its 0 was taken over.
LEMMA AllCopied ==
    ASSUME NEW z \in Cells, NEW m \in Cells, NEW s \in Text, Holds(m, s), Len(s) + 1 <= Len(z)
    PROVE  LET k == Put(z, 0, SubSeq(m, 1, Len(s) + 1))
           IN  k \in Cells /\ Len(k) = Len(z) /\ Holds(k, s)
  <1>. DEFINE k == Put(z, 0, SubSeq(m, 1, Len(s) + 1))
  <1>1. Len(s) \in Nat /\ Len(s) + 1 \in Nat /\ Len(s) + 1 <= Len(s) + 1 /\ Len(z) \in Nat
    BY DEF Text, Cells
  <1>2. /\ k \in Cells /\ Len(k) = Len(z)
        /\ \A i \in 1 .. Len(z) : k[i] = IF i <= Len(s) + 1 THEN m[i] ELSE z[i]
    BY <1>1, PrefixCopied
  <1>. HIDE DEF k
  <1>3. \A i \in 1 .. Len(s) + 1 : i \in 1 .. Len(z) /\ i <= Len(s) + 1 /\ k[i] = m[i]
    BY <1>1, <1>2
  <1>4. k[Len(s) + 1] = m[Len(s) + 1] /\ \A i \in 1 .. Len(s) : k[i] = m[i]
    BY <1>1, <1>3
  <1>5. Holds(k, s)
    BY <1>1, <1>2, <1>4 DEF Holds
  <1>. QED BY <1>2, <1>5 DEF k

\* Characters that are shorter than the string end with the 0 of the zeroed block.
LEMMA CutCopied ==
    ASSUME NEW z \in Cells, NEW m \in Cells, NEW s \in Text, Holds(m, s),
           NEW j \in Nat, j <= Len(s), j < Len(z), \A i \in 1 .. Len(z) : z[i] = Nul
    PROVE  LET k == Put(z, 0, SubSeq(m, 1, j))
           IN  k \in Cells /\ Holds(k, SubSeq(s, 1, j))
  <1>. DEFINE k == Put(z, 0, SubSeq(m, 1, j))  r == SubSeq(s, 1, j)
  <1>1. Len(s) \in Nat /\ Len(z) \in Nat /\ j <= Len(s) + 1 /\ j <= Len(z)
    BY DEF Text, Cells
  <1>2. /\ k \in Cells /\ Len(k) = Len(z)
        /\ \A i \in 1 .. Len(z) : k[i] = IF i <= j THEN m[i] ELSE z[i]
    BY <1>1, PrefixCopied
  <1>3. Len(r) = j /\ \A i \in 1 .. j : r[i] = s[i]
    BY <1>1, FirstPart DEF Text
  <1>. HIDE DEF k, r
  <1>4. \A i \in 1 .. j : k[i] = r[i]
    <2>1. \A i \in 1 .. j : i \in 1 .. Len(z) /\ i <= j /\ i \in 1 .. Len(s)
      BY <1>1
    <2>. QED BY <1>2, <1>3, <2>1 DEF Holds
  <1>5. k[j + 1] = Nul
    <2>1. j + 1 \in 1 .. Len(z) /\ ~(j + 1 <= j)
      BY <1>1
    <2>. QED BY <1>2, <2>1
  <1>6. Holds(k, r)
    BY <1>2, <1>3, <1>4, <1>5 DEF Holds
  <1>. QED BY <1>2, <1>6 DEF k, r

\* What a call takes over into its zeroed new block z is already a result of the call,
\* or what the call needs to write one.
LEMMA KeptIs ==
    ASSUME NEW c, NEW s \in Text, Args(c, s), c.name \in Copiers, NEW m \in Cells, Holds(m, s),
           NEW z \in Cells, \A i \in 1 .. Len(z) : z[i] = Nul, Need(c, Len(s)) <= Len(z)
    PROVE  LET k == Put(z, 0, Kept(c, m, Len(s)))
           IN  /\ k \in Cells
               /\ IF CopyIsAll(c, Len(s)) THEN \E r \in Results(c, s) : Holds(k, r)
                                          ELSE c.name \in Writers /\ Editable(c, k, s)
  <1>. DEFINE n == Len(s)  k == Put(z, 0, Kept(c, m, n))
  <1>1. /\ n \in Nat /\ Len(z) \in Nat /\ c.text \in Text /\ Len(c.text) \in Nat
        /\ c.pos \in Nat /\ c.len \in Nat
    BY DEF Text, Cells, Args
  <1>2. CASE c.name \in {"AppendString", "InsertString", "ToLowerCase"}
    <2>1. Kept(c, m, n) = SubSeq(m, 1, n + 1) /\ ~CopyIsAll(c, n)
      BY <1>2 DEF Kept, CopyIsAll
    <2>2. n + 1 <= Len(z)
      BY <1>1, <1>2 DEF Need
    <2>3. k \in Cells /\ Len(k) = Len(z) /\ Holds(k, s)
      BY <2>1, <2>2, AllCopied
    <2>4. Editable(c, k, s)
      BY <1>2, <2>3 DEF Editable
    <2>. QED BY <1>2, <2>1, <2>3, <2>4 DEF Writers
  <1>3. CASE c.name = "Fill"
    <2>. DEFINE j == IF Need(c, n) - 1 < n + 1 THEN Need(c, n) - 1 ELSE n + 1
    <2>1. Kept(c, m, n) = SubSeq(m, 1, j) /\ ~CopyIsAll(c, n)
      BY <1>3 DEF Kept, CopyIsAll
    <2>2. Need(c, n) = Len(c.text) + 1
      BY <1>3 DEF Need
    <2>3. j \in Nat /\ j <= n + 1 /\ j <= Len(z)
      BY <1>1, <2>2
    <2>. HIDE DEF j
    <2>4. k \in Cells /\ Len(k) = Len(z)
      BY <2>1, <2>3, PrefixCopied
    <2>. QED BY <1>3, <2>1, <2>4 DEF Writers, Editable
  <1>4. CASE c.name = "SetSize"
    <2>. DEFINE j == IF c.len - 1 < n + 1 THEN c.len - 1 ELSE n + 1
    <2>1. Kept(c, m, n) = SubSeq(m, 1, j) /\ CopyIsAll(c, n) /\ c.len > 0 /\ c.len <= Len(z)
      BY <1>4 DEF Kept, CopyIsAll, Need, Args
    <2>2. Results(c, s) = {s, IF c.len <= n THEN SubSeq(s, 1, c.len - 1) ELSE s}
      BY <1>4 DEF Results
    <2>3. CASE c.len <= n
      <3>1. j = c.len - 1 /\ j \in Nat /\ j <= n /\ j < Len(z)
        BY <1>1, <2>1, <2>3
      <3>2. k \in Cells /\ Holds(k, SubSeq(s, 1, c.len - 1))
        BY <2>1, <3>1, CutCopied
      <3>. QED BY <2>1, <2>2, <2>3, <3>2
    <2>4. CASE c.len = n + 1
      <3>1. j = n /\ n <= n /\ n < Len(z) /\ ~(c.len <= n)
        BY <1>1, <2>1, <2>4
      <3>2. k \in Cells /\ Holds(k, SubSeq(s, 1, n))
        BY <1>1, <2>1, <3>1, CutCopied
      <3>3. SubSeq(s, 1, n) = s
        BY SubSeqFull DEF Text
      <3>. QED BY <2>1, <2>2, <3>2, <3>3
    <2>5. CASE c.len > n + 1
      <3>1. j = n + 1 /\ n + 1 <= Len(z)
        BY <1>1, <2>1, <2>5
      <3>2. k \in Cells /\ Holds(k, s)
        BY <2>1, <3>1, AllCopied
      <3>. QED BY <2>1, <2>2, <3>2
    <2>. QED BY <1>1, <2>3, <2>4, <2>5
  <1>5. CASE c.name = "DeleteString" /\ c.pos + c.len >= n
    <2>1. Kept(c, m, n) = SubSeq(m, 1, c.pos) /\ ~CopyIsAll(c, n) /\ c.pos < n /\ c.pos + 1 <= Len(z)
          /\ Need(c, n) = c.pos + 1
      BY <1>1, <1>5 DEF Kept, CopyIsAll, Need, Args
    <2>2. c.pos <= n + 1 /\ c.pos <= Len(z)
      BY <1>1, <2>1
    <2>3. /\ k \in Cells /\ Len(k) = Len(z)
          /\ \A i \in 1 .. Len(z) : k[i] = IF i <= c.pos THEN m[i] ELSE z[i]
      BY <1>1, <2>1, <2>2, PrefixCopied
    <2>. HIDE DEF k
    <2>4. \A i \in 1 .. c.pos : i \in 1 .. Len(z) /\ i <= c.pos /\ i \in 1 .. n
      BY <1>1, <2>1, <2>2
    <2>5. \A i \in 1 .. c.pos : k[i] = s[i]
      BY <2>3, <2>4 DEF Holds
    <2>6. Editable(c, k, s)
      BY <1>5, <2>1, <2>3, <2>5 DEF Editable
    <2>. QED BY <1>5, <2>1, <2>3, <2>6 DEF Writers, k
  <1>6. CASE c.name = "DeleteString" /\ ~(c.pos + c.len >= n)
    <2>1. Kept(c, m, n) = SubSeq(m, 1, c.pos) \o SubSeq(m, c.pos + c.len + 1, n + 1)
      BY <1>6 DEF Kept
    <2>2. /\ CopyIsAll(c, n) /\ c.pos + c.len < n /\ c.len \in Nat \ {0}
          /\ c.pos < n /\ n - c.len + 1 <= Len(z)
      BY <1>1, <1>6 DEF CopyIsAll, Need, Args
    <2>3. Results(c, s) = {SubSeq(s, 1, c.pos) \o SubSeq(s, c.pos + c.len + 1, n)}
      BY <1>6 DEF Results
    <2>. DEFINE kept == SubSeq(m, 1, c.pos) \o SubSeq(m, c.pos + c.len + 1, n + 1)
                r == SubSeq(s, 1, c.pos) \o SubSeq(s, c.pos + c.len + 1, n)
    <2>4. Put(z, 0, kept) \in Cells /\ Holds(Put(z, 0, kept), r)
      BY <1>1, <2>2, DeleteCopies
    <2>5. k = Put(z, 0, kept) /\ Results(c, s) = {r}
      BY <2>1, <2>3
    <2>. HIDE DEF kept, r, k
    <2>6. k \in Cells /\ IF CopyIsAll(c, n) THEN \E q \in Results(c, s) : Holds(k, q)
                                            ELSE c.name \in Writers /\ Editable(c, k, s)
      BY <2>2, <2>4, <2>5
    <2>. QED BY <2>6 DEF k
  <1>. QED BY <1>2, <1>3, <1>4, <1>5, <1>6 DEF Copiers

\* An object that had no block is the empty string, and so is its zeroed new one.
LEMMA NewIs ==
    ASSUME NEW c, Args(c, <<>>), NEW z \in Cells, \A i \in 1 .. Len(z) : z[i] = Nul,
           Need(c, 0) <= Len(z), c.name \in {"SetString", "Fill", "AppendString", "SetSize"}
    PROVE  IF c.name = "SetSize" THEN Holds(z, <<>>) /\ <<>> \in Results(c, <<>>)
                                 ELSE Editable(c, z, <<>>)
  <1>1. Len(z) \in Nat /\ Len(<<>>) = 0 /\ c.text \in Text /\ Len(c.text) \in Nat /\ c.len \in Nat
    BY DEF Cells, Args, Text
  <1>2. ASSUME 0 < Len(z) PROVE Holds(z, <<>>)
    BY <1>1, <1>2 DEF Holds
  <1>3. CASE c.name = "SetSize"
    <2>1. c.len > 0 /\ c.len <= Len(z)
      BY <1>3 DEF Need, Args
    <2>. QED BY <1>1, <1>2, <1>3, <2>1 DEF Results
  <1>4. CASE c.name \in {"SetString", "Fill"}
    BY <1>1, <1>4 DEF Editable
  <1>5. CASE c.name = "AppendString"
    <2>1. 0 + Len(c.text) + 1 <= Len(z)
      BY <1>5 DEF Need
    <2>. QED BY <1>1, <1>2, <1>5, <2>1 DEF Editable
  <1>. QED BY <1>3, <1>4, <1>5

------------------------------------------------------------------------------
\* The object is the text s for whoever reads it.
Is(o, s) == s \in Text /\ IF string[o] = NoBlock THEN s = <<>> ELSE Holds(cells[string[o]], s)

\* What the object is for its users: val of StringValues.
Val(o) == IF pc[owner[o]] = "idle" THEN Value(o) ELSE seen[o]

\* Objects that no call is changing just now are what their users think they are.
Settled(o) ==
    LET t == owner[o] IN
    \/ pc[t] \in {"idle", "count", "copy"}
    \/ call[t].obj # o
    \/ pc[t] = "alloc" /\ call[t].name # "SetString"

ValueOK(o) == Val(o) \in Text /\ (Settled(o) => Is(o, Val(o)))

\* What a call has in its buffer once it has taken over the characters it keeps.
Copied(c, m, s) ==
    IF CopyIsAll(c, Len(s)) THEN \E r \in Results(c, s) : Holds(m, r)
                            ELSE c.name \in Writers /\ Editable(c, m, s)

Releasing == {"dec", "free", "drop"}

\* How far the call of a thread got: it knows the length the string had, its buffer is
\* zeroed, then holds what is kept, and what it writes to is what it needs.
RunOK(t) ==
    LET c == call[t]
        x == c.obj
        s == seen[x]
    IN /\ pc[t] = "idle" <=> c = NoCall
       /\ pc[t] # "idle" =>
            /\ c \in Calls /\ Args(c, s) /\ lench[t] = Len(s) /\ pc[t] # "restore"
            /\ pc[t] = "count" => c.name \in Writers \cup {"SetSize"}
            /\ pc[t] = "alloc" => IF c.name = "SetString" THEN string[x] = NoBlock
                                                          ELSE c.name \in Copiers
            /\ pc[t] = "copy" =>
                  /\ c.name \in Copiers /\ Need(c, Len(s)) <= Len(cells[buf[t]])
                  /\ \A i \in 1 .. Len(cells[buf[t]]) : cells[buf[t]][i] = Nul
            /\ pc[t] \in Releasing =>
                  IF c.name \in Copiers THEN Copied(c, cells[buf[t]], s) ELSE buf[t] = NoBlock
            /\ pc[t] = "write" => c.name \in Writers /\ Editable(c, cells[string[x]], s)

\* the rest of the inductive invariant, as long as nobody calls ScanString
TextInv == TextTypeOK /\ (\A o \in Objects : ValueOK(o)) /\ (\A t \in Threads : RunOK(t))

\* Then GetString and GetLength give that text.
LEMMA ValueIs ==
    ASSUME IInv, TextTypeOK, NEW o \in Objects, NEW s, Is(o, s)
    PROVE  Value(o) = s /\ Val(o) \in {s, seen[o]}
           /\ (string[o] # NoBlock => Holds(cells[string[o]], s) /\ Length(cells[string[o]]) = Len(s))
  <1>1. string[o] # NoBlock => cells[string[o]] \in Cells
    BY DEF IInv, LinkTypeOK, TextTypeOK, Cells
  <1>2. Value(o) = s
    BY <1>1, HoldsIs DEF Is, Value
  <1>. QED BY <1>1, <1>2, HoldsIs DEF Is, Val

\* A step of thread t that changes no string but x, and the cells of no block that
\* another string or another thread's buffer is in.
Frame(t, x) ==
    /\ cells' \in [Blocks -> Cells]
    /\ string' \in [Objects -> Blocks \cup {NoBlock}]
    /\ \A o \in Objects \ {x} : string'[o] = string[o]
    /\ \A u \in Threads \ {t} : buf'[u] = buf[u]
    /\ \A b \in Blocks : \/ cells'[b] = cells[b]
                         \/ Holders(b) \subseteq {x} /\ \A u \in Threads \ {t} : buf[u] # b

\* a step of StringValues or a stutter, in the words of Val
Stutters == call' = call /\ \A o \in Objects : Val(o)' = Val(o)
EndsWith(t, r) ==
    /\ call[t] # NoCall /\ call' = [call EXCEPT ![t] = NoCall]
    /\ \A o \in Objects : Val(o)' = IF o = call[t].obj THEN r ELSE Val(o)
ValStep(t) == Stutters \/ \E r \in Values!Outcomes(call[t]) : EndsWith(t, r)

\* Such a step leaves the other threads and their strings what they were.
LEMMA OthersKeep ==
    ASSUME IInv, TextInv, NEW t \in Threads, NEW x \in Objects, owner[x] = t, OnlyBy(t, x), Frame(t, x),
           \A u \in Threads \ {t} : lench'[u] = lench[u],
           \A o \in Objects : owner[o] # t => seen'[o] = seen[o]
    PROVE  /\ \A u \in Threads \ {t} : RunOK(u)'
           /\ \A o \in Objects : owner[o] # t => ValueOK(o)' /\ Val(o)' = Val(o)
  <1>1. ASSUME NEW o \in Objects \ {x}, o \in Holders(string[o]), string[o] # NoBlock
        PROVE  string'[o] = string[o] /\ cells'[string[o]] = cells[string[o]]
    BY <1>1 DEF Frame, IInv, LinkTypeOK
  <1>2. ASSUME NEW u \in Threads \ {t}, buf[u] # NoBlock
        PROVE  buf'[u] = buf[u] /\ cells'[buf[u]] = cells[buf[u]]
    BY <1>2 DEF Frame, IInv, LinkTypeOK
  <1>3. ASSUME NEW u \in Threads \ {t} PROVE RunOK(u)'
    <2>1. RunOK(u) /\ pc'[u] = pc[u] /\ call'[u] = call[u] /\ buf'[u] = buf[u] /\ lench'[u] = lench[u]
      BY DEF OnlyBy, TextInv
    <2>2. CASE pc[u] = "idle"
      BY <2>1, <2>2 DEF RunOK
    <2>3. CASE pc[u] # "idle"
      <3>1. call[u].obj \in Objects /\ owner[call[u].obj] = u /\ call[u].obj # x
        BY <2>3 DEF IInv, CallOK, CallOf
      <3>2. seen'[call[u].obj] = seen[call[u].obj] /\ string'[call[u].obj] = string[call[u].obj]
        BY <3>1 DEF Frame
      <3>3. pc[u] = "copy" \/ (pc[u] \in Releasing /\ call[u].name \in Copiers) =>
                cells'[buf[u]] = cells[buf[u]]
        <4>1. pc[u] = "copy" \/ (pc[u] \in Releasing /\ call[u].name \in Copiers) => buf[u] # NoBlock
          BY DEF IInv, BufOK, Replaces, Copiers, Releasing
        <4>. QED BY <1>2, <4>1
      <3>4. pc[u] = "write" => cells'[string[call[u].obj]] = cells[string[call[u].obj]]
        <4>1. pc[u] = "write" => string[call[u].obj] # NoBlock /\ call[u].obj \in Holders(string[call[u].obj])
          BY <3>1, OwnerHolds DEF IInv, CallOK, CallOf, Uncounted
        <4>. QED BY <1>1, <3>1, <4>1
      <3>. QED BY <2>1, <2>3, <3>1, <3>2, <3>3, <3>4 DEF RunOK
    <2>. QED BY <2>2, <2>3
  <1>4. ASSUME NEW o \in Objects, owner[o] # t PROVE ValueOK(o)' /\ Val(o)' = Val(o)
    <2>1. /\ owner[o] \in Threads \ {t} /\ owner' = owner /\ o # x /\ seen'[o] = seen[o]
          /\ pc'[owner[o]] = pc[owner[o]] /\ call'[owner[o]] = call[owner[o]] /\ string'[o] = string[o]
      BY <1>4 DEF OnlyBy, IInv, LinkTypeOK, Frame
    <2>2. Settled(o)' <=> Settled(o)
      BY <2>1 DEF Settled
    <2>3. Settled(o) => o \in Holders(string[o])
      BY OwnerHolds, <2>1 DEF Settled, Uncounted
    <2>4. Settled(o) /\ string[o] # NoBlock => cells'[string[o]] = cells[string[o]]
      BY <1>1, <2>1, <2>3
    <2>5. Settled(o) => Value(o)' = Value(o)
      BY <2>1, <2>4 DEF Value
    <2>6. Val(o)' = Val(o)
      BY <2>1, <2>5 DEF Val, Settled
    <2>7. ValueOK(o)
      BY DEF TextInv
    <2>8. Settled(o)' => Is(o, Val(o))'
      BY <2>1, <2>2, <2>4, <2>6, <2>7 DEF ValueOK, Is
    <2>. QED BY <2>6, <2>7, <2>8 DEF ValueOK
  <1>. QED BY <1>3, <1>4

\* The two ways to say what a call may make of its string.
LEMMA OutcomesAre ==
    ASSUME IInv, TextInv, NEW t \in Threads, pc[t] # "idle"
    PROVE  Values!Outcomes(call[t]) = IF call[t].name = "Copy" THEN {seen[call[t].from]}
                                      ELSE Results(call[t], seen[call[t].obj])
  <1>. DEFINE c == call[t]  val == [o \in Objects |-> IF pc[owner[o]] = "idle" THEN Value(o) ELSE seen[o]]
  <1>1. c.obj \in Objects /\ owner[c.obj] = t
        /\ (c.name = "Copy" => c.from \in Objects /\ owner[c.from] = t)
    BY DEF IInv, CallOK, CallOf
  <1>2. val[c.obj] = seen[c.obj] /\ (c.name = "Copy" => val[c.from] = seen[c.from])
    BY <1>1
  <1>3. Args(c, seen[c.obj])
    BY DEF TextInv, RunOK
  <1>4. CASE c.name \in {"SetString", "Fill", "Clear", "Copy"}
    BY <1>2, <1>4 DEF Values!Outcomes, Results
  <1>5. CASE c.name = "AppendString"
    BY <1>2, <1>5 DEF Values!Outcomes, Results
  <1>6. CASE c.name = "InsertString"
    BY <1>2, <1>6 DEF Values!Outcomes, Results
  <1>7. CASE c.name = "DeleteString"
    BY <1>2, <1>7 DEF Values!Outcomes, Results
  <1>8. CASE c.name = "ToLowerCase"
    BY <1>2, <1>8 DEF Values!Outcomes, Results
  <1>9. CASE c.name = "SetSize"
    BY <1>2, <1>9 DEF Values!Outcomes, Results
  <1>. QED BY <1>3, <1>4, <1>5, <1>6, <1>7, <1>8, <1>9 DEF Args, Writers

\* What a step of a call leaves true of the other strings of its thread.
LEMMA OwnKeep ==
    ASSUME IInv, TextInv, NEW t \in Threads, pc[t] # "idle", NEW p \in Pcs, NEW n \in Nat, GoOn(t, p, n),
           Frame(t, call[t].obj)
    PROVE  /\ OnlyBy(t, call[t].obj) /\ owner[call[t].obj] = t /\ call[t].obj \in Objects
           /\ TextTypeOK' /\ pc'[t] = p
           /\ \A u \in Threads \ {t} : RunOK(u)'
           /\ \A o \in Objects \ {call[t].obj} : ValueOK(o)' /\ Val(o)' = Val(o)
  <1>. DEFINE x == call[t].obj
  <1>1. x \in Objects /\ owner[x] = t /\ OnlyBy(t, x) /\ pc'[t] = p /\ owner' = owner
    BY GoOnFrame DEF Frame, OnlyBy
  <1>2. TextTypeOK'
    <2>1. <<>> \in Text
      BY DEF Text
    <2>2. cells' \in [Blocks -> Cells]
      BY DEF Frame
    <2>3. call' \in [Threads -> Calls \cup {NoCall}] /\ lench' \in [Threads -> Nat]
      BY DEF GoOn, TextInv, TextTypeOK
    <2>4. seen' \in [Objects -> Text]
      BY <2>1 DEF GoOn, TextInv, TextTypeOK, Text
    <2>. QED BY <2>2, <2>3, <2>4 DEF TextTypeOK, Cells, Text
  <1>3. \A u \in Threads \ {t} : lench'[u] = lench[u]
    BY DEF GoOn, TextInv, TextTypeOK
  <1>4. \A o \in Objects : owner[o] # t => seen'[o] = seen[o]
    BY DEF GoOn, TextInv, TextTypeOK
  <1>5. /\ \A u \in Threads \ {t} : RunOK(u)'
        /\ \A o \in Objects : owner[o] # t => ValueOK(o)' /\ Val(o)' = Val(o)
    BY <1>1, <1>3, <1>4, OthersKeep
  <1>6. ASSUME NEW o \in Objects \ {x}, owner[o] = t PROVE ValueOK(o)' /\ Val(o)' = Val(o)
    <2>1. Settled(o) /\ Val(o) = seen[o] /\ Is(o, seen[o])
      BY <1>6 DEF Settled, Val, TextInv, ValueOK
    <2>2. o \in Holders(string[o])
      BY <1>6, OwnerHolds DEF Uncounted
    <2>3. string'[o] = string[o] /\ (string[o] # NoBlock => cells'[string[o]] = cells[string[o]])
      BY <2>2 DEF Frame, IInv, LinkTypeOK
    <2>4. Value(o)' = seen[o]
      <3>1. Value(o)' = Value(o)
        BY <2>3 DEF Value
      <3>2. Value(o) = seen[o]
        BY <2>1, ValueIs DEF TextInv
      <3>. QED BY <3>1, <3>2
    <2>5. p # "idle" => seen'[o] = seen[o]
      BY DEF GoOn
    <2>6. Val(o)' = seen[o]
      BY <1>1, <1>6, <2>4, <2>5 DEF Val
    <2>7. Is(o, Val(o))'
      BY <2>1, <2>3, <2>6 DEF Is
    <2>. QED BY <2>1, <2>6, <2>7 DEF ValueOK, Is
  <1>. QED BY <1>1, <1>2, <1>5, <1>6

\* A call that goes on is a stutter of StringValues ...
LEMMA GoesOn ==
    ASSUME IInv, TextInv, NEW t \in Threads, pc[t] # "idle", NEW p \in Pcs, p # "idle",
           NEW x \in Objects, x = call[t].obj, GoOn(t, p, lench[t]), Frame(t, x),
           p \in {"count", "copy", "alloc"} =>
              (call[t].name = "SetString" /\ p = "alloc") \/ Is(x, seen[x])',
           pc'[t] = p /\ call' = call /\ seen' = seen /\ lench' = lench => RunOK(t)'
    PROVE  TextInv' /\ ValStep(t)
  <1>1. lench[t] \in Nat
    BY DEF TextInv, TextTypeOK
  <1>2. /\ OnlyBy(t, x) /\ owner[x] = t /\ x \in Objects /\ TextTypeOK' /\ pc'[t] = p
        /\ \A u \in Threads \ {t} : RunOK(u)'
        /\ \A o \in Objects \ {x} : ValueOK(o)' /\ Val(o)' = Val(o)
    BY <1>1, OwnKeep
  <1>3. call' = call /\ seen' = seen /\ owner' = owner /\ lench' = lench
    <2>1. lench' = [lench EXCEPT ![t] = lench[t]] /\ lench \in [Threads -> Nat]
      BY DEF GoOn, TextInv, TextTypeOK
    <2>. QED BY <2>1 DEF GoOn
  <1>4. Val(x)' = seen[x] /\ Val(x) = seen[x]
    BY <1>2, <1>3 DEF Val
  <1>5. ValueOK(x)'
    <2>1. seen[x] \in Text
      BY <1>2 DEF TextInv, TextTypeOK, Text
    <2>2. Settled(x)' => Is(x, seen[x])'
      BY <1>2, <1>3 DEF Settled
    <2>3. Settled(x)' => Is(x, Val(x))'
      BY <1>3, <1>4, <2>2 DEF Is
    <2>. QED BY <1>4, <2>1, <2>3 DEF ValueOK
  <1>6. RunOK(t)'
    BY <1>2, <1>3
  <1>7. Stutters
    BY <1>2, <1>3, <1>4 DEF Stutters
  <1>. QED BY <1>2, <1>5, <1>6, <1>7 DEF TextInv, ValStep

\* ... and one that is over has made of its string what StringValues allows.
LEMMA EndsCall ==
    ASSUME IInv, TextInv, NEW t \in Threads, pc[t] # "idle", NEW n \in Nat,
           NEW x \in Objects, x = call[t].obj, GoOn(t, "idle", n), Frame(t, x),
           NEW r \in Values!Outcomes(call[t]), Is(x, r)'
    PROVE  TextInv' /\ ValStep(t)
  <1>1. /\ OnlyBy(t, x) /\ owner[x] = t /\ x \in Objects /\ TextTypeOK' /\ pc'[t] = "idle"
        /\ \A u \in Threads \ {t} : RunOK(u)'
        /\ \A o \in Objects \ {x} : ValueOK(o)' /\ Val(o)' = Val(o)
    BY OwnKeep DEF Pcs
  <1>2. owner' = owner /\ call' = [call EXCEPT ![t] = NoCall] /\ call'[t] = NoCall /\ call[t] # NoCall
    BY DEF GoOn, TextInv, TextTypeOK, RunOK
  <1>3. RunOK(t)'
    BY <1>1, <1>2 DEF RunOK
  <1>4. Value(x)' = r
    <2>1. string'[x] # NoBlock => cells'[string'[x]] \in Cells
      BY <1>1 DEF Frame
    <2>2. r \in Text /\ IF string'[x] = NoBlock THEN r = <<>> ELSE Holds(cells'[string'[x]], r)
      BY DEF Is
    <2>3. string'[x] # NoBlock => CString(cells'[string'[x]]) = r
      BY <2>1, <2>2, HoldsIs
    <2>. QED BY <2>2, <2>3 DEF Value
  <1>5. Val(x)' = r
    BY <1>1, <1>2, <1>4 DEF Val
  <1>6. ValueOK(x)'
    BY <1>5 DEF ValueOK, Is
  <1>7. EndsWith(t, r)
    BY <1>1, <1>2, <1>5 DEF EndsWith
  <1>. QED BY <1>1, <1>3, <1>6, <1>7 DEF TextInv, ValStep

------------------------------------------------------------------------------
\* Where a thread in a call stands.
LEMMA InCall ==
    ASSUME IInv, TextInv, NEW t \in Threads, pc[t] # "idle", NEW x, x = call[t].obj
    PROVE  /\ x \in Objects /\ owner[x] = t /\ seen[x] \in Text /\ lench[t] = Len(seen[x]) /\ lench[t] \in Nat
           /\ Args(call[t], seen[x])
           /\ pc[t] \in {"count", "copy"} \/ (pc[t] = "alloc" /\ call[t].name # "SetString") =>
                 /\ Is(x, seen[x])
                 /\ string[x] # NoBlock => /\ Holds(cells[string[x]], seen[x]) /\ cells[string[x]] \in Cells
                                           /\ Length(cells[string[x]]) = lench[t]
  <1>1. x \in Objects /\ owner[x] = t
    BY DEF IInv, CallOK, CallOf
  <1>2. seen[x] \in Text /\ lench[t] = Len(seen[x]) /\ lench[t] \in Nat /\ Args(call[t], seen[x])
    BY <1>1 DEF TextInv, TextTypeOK, RunOK, Text
  <1>3. ASSUME pc[t] \in {"count", "copy"} \/ (pc[t] = "alloc" /\ call[t].name # "SetString")
        PROVE  Is(x, seen[x])
    BY <1>1, <1>3 DEF TextInv, ValueOK, Settled, Val
  <1>4. string[x] # NoBlock => cells[string[x]] \in Cells
    BY <1>1 DEF IInv, LinkTypeOK, TextInv, TextTypeOK, Cells
  <1>5. Is(x, seen[x]) => (string[x] # NoBlock => /\ Holds(cells[string[x]], seen[x])
                                                  /\ Length(cells[string[x]]) = Len(seen[x]))
    BY <1>1, ValueIs DEF TextInv
  <1>. QED BY <1>1, <1>2, <1>3, <1>4, <1>5

\* A step that touches neither blocks nor the pointers of other objects.
LEMMA SameCells ==
    ASSUME IInv, TextInv, NEW t \in Threads, NEW x \in Objects, cells' = cells,
           string' \in [Objects -> Blocks \cup {NoBlock}],
           \A o \in Objects \ {x} : string'[o] = string[o],
           \A u \in Threads \ {t} : buf'[u] = buf[u]
    PROVE  Frame(t, x)
  BY DEF Frame, TextInv, TextTypeOK, Cells

\* SetSize may be over when the block is large enough; who is going to write in place
\* has the whole string before it and room enough.
LEMMA CountText == ASSUME IInv, TextInv, NEW t \in Threads, Count(t) PROVE TextInv' /\ ValStep(t)
  <1>. DEFINE x == call[t].obj  c == call[t]  b == string[x]  s == seen[x]
              n == IF MeasuresLate(c) THEN Length(cells[b]) ELSE lench[t]
              mine == Mine(c, b, n)
              p == CASE mine /\ c.name = "SetSize" -> "idle"
                     [] mine /\ c.name # "SetSize" -> "write"
                     [] ~mine /\ c.name = "SetString" -> "dec"
                     [] OTHER -> "alloc"
  <1>1. /\ pc[t] = "count" /\ GoOn(t, p, n) /\ string' = string /\ cells' = cells /\ buf' = buf
    BY Zenon DEF Count, memVars
  <1>2. string[x] # NoBlock /\ buf[t] = NoBlock
    BY <1>1 DEF IInv, CallOK, CallOf, BufOK
  <1>3. /\ x \in Objects /\ owner[x] = t /\ s \in Text /\ Args(c, s) /\ Is(x, s) /\ Holds(cells[b], s)
        /\ lench[t] = Len(s) /\ lench[t] \in Nat /\ cells[b] \in Cells /\ Length(cells[b]) = lench[t]
    BY <1>1, <1>2, InCall
  <1>4. c.name \in Writers \cup {"SetSize"} /\ c \in Calls
    BY <1>1 DEF TextInv, RunOK
  <1>5. n = lench[t]
    BY <1>3
  <1>6. Frame(t, x)
    BY <1>1, <1>3, SameCells DEF IInv, LinkTypeOK
  <1>7. /\ p \in {"idle", "write", "dec", "alloc"}
        /\ p = "idle" => c.name = "SetSize"
        /\ p = "write" => c.name \in Writers /\ mine
        /\ p = "dec" => c.name = "SetString"
        /\ p = "alloc" => c.name \in Copiers
    <2>. HIDE DEF mine, n
    <2>. QED BY <1>4 DEF Writers, Copiers
  <1>8. mine => Need(c, Len(s)) <= Len(cells[b])
    <2>1. mine => Fits(c, Len(s), Len(cells[b]))
      BY <1>3, <1>5 DEF Mine
    <2>2. c.len \in Nat /\ Len(c.text) \in Nat /\ Len(cells[b]) \in Nat
      BY <1>3 DEF Args, Text, Cells
    <2>3. c.name = "SetSize" => Need(c, Len(s)) \in Nat
      BY <2>2 DEF Need
    <2>4. c.name = "Fill" => Need(c, Len(s)) \in Nat
      BY <2>2 DEF Need
    <2>. QED BY <2>1, <2>2, <2>3, <2>4 DEF Fits
  <1>. HIDE DEF n, mine, p
  <1>9. CASE p = "idle"
    <2>1. s \in Results(c, s) /\ c.name = "SetSize"
      BY <1>7, <1>9 DEF Results
    <2>2. s \in Values!Outcomes(call[t])
      BY <1>1, <2>1, OutcomesAre
    <2>3. Is(x, s) /\ string' = string /\ cells' = cells
      BY <1>1, <1>3
    <2>4. ASSUME NEW y \in Objects, y = x, NEW r \in Values!Outcomes(call[t]), r = s PROVE Is(y, r)'
      BY <2>3, <2>4 DEF Is
    <2>. QED BY <1>1, <1>3, <1>5, <1>6, <1>9, <2>2, <2>4, EndsCall
  <1>10. CASE p # "idle"
    <2>1. ASSUME NEW y \in Objects, y = x PROVE seen' = seen => Is(y, seen[y])'
      BY <1>1, <1>3, <2>1 DEF Is
    <2>2. seen' = seen
      BY <1>1, <1>10 DEF GoOn
    <2>3. p = "write" => Editable(c, cells[b], s)
      <3>1. c.name = "DeleteString" => \A i \in 1 .. c.pos : i \in 1 .. Len(s)
        BY <1>3 DEF Args, Text
      <3>. QED BY <1>3, <1>7, <1>8, <3>1 DEF Editable, Holds
    <2>4. ASSUME pc'[t] = p, call' = call, seen' = seen, lench' = lench PROVE RunOK(t)'
      <3>1. call[t] # NoCall
        BY <1>1 DEF TextInv, RunOK
      <3>. QED BY <1>1, <1>2, <1>3, <1>4, <1>7, <1>10, <2>3, <2>4, <3>1 DEF RunOK, Copiers, Releasing
    <2>. QED BY <1>1, <1>3, <1>5, <1>6, <1>7, <1>10, <2>1, <2>2, <2>4, GoesOn DEF Pcs
  <1>. QED BY <1>9, <1>10

\* The cells a call asks for.
LEMMA NeedIsNat == ASSUME NEW c, NEW s \in Text, Args(c, s), c.name \in Copiers \cup {"SetString"}
                   PROVE  Need(c, Len(s)) \in Nat
  <1>1. Len(s) \in Nat /\ c.len \in Nat /\ c.pos \in Nat /\ Len(c.text) \in Nat
    BY DEF Args, Text
  <1>2. CASE c.name \in {"SetString", "Fill"} BY <1>1, <1>2 DEF Need
  <1>3. CASE c.name \in {"AppendString", "InsertString"} BY <1>1, <1>3 DEF Need
  <1>4. CASE c.name = "DeleteString"
    <2>1. Need(c, Len(s)) = IF c.pos + c.len >= Len(s) THEN c.pos + 1 ELSE Len(s) - c.len + 1
      BY <1>4 DEF Need
    <2>. QED BY <1>1, <2>1
  <1>5. CASE c.name = "ToLowerCase" BY <1>1, <1>5 DEF Need
  <1>6. CASE c.name = "SetSize" BY <1>1, <1>6 DEF Need
  <1>. QED BY <1>2, <1>3, <1>4, <1>5, <1>6 DEF Copiers

\* The new block is zeroed, large enough, and nobody else's.
LEMMA AllocText == ASSUME IInv, TextInv, NEW t \in Threads, Alloc(t) PROVE TextInv' /\ ValStep(t)
  <1>. DEFINE x == call[t].obj  c == call[t]  s == seen[x]
  <1>1. pc[t] = "alloc" /\ buf[t] = NoBlock /\ c # NoCall /\ c \in Calls
    BY DEF Alloc, IInv, BufOK, TextInv, RunOK
  <1>2. /\ x \in Objects /\ owner[x] = t /\ s \in Text /\ Args(c, s)
        /\ lench[t] = Len(s) /\ lench[t] \in Nat /\ (c.name # "SetString" => Is(x, s))
    BY <1>1, InCall
  <1>3. IF c.name = "SetString" THEN string[x] = NoBlock ELSE c.name \in Copiers
    BY <1>1 DEF TextInv, RunOK
  <1>. DEFINE fresh(more) == [i \in 1 .. Need(c, lench[t]) + more |-> Nul]
  <1>4. PICK b \in Blocks \ live, more \in 0 .. Slack :
           /\ cells' = [cells EXCEPT ![b] = fresh(more)]
           /\ IF string[x] = NoBlock
              THEN /\ string' = [string EXCEPT ![x] = b]
                   /\ GoOn(t, IF c.name = "SetSize" THEN "idle" ELSE "write", lench[t])
                   /\ buf' = buf
              ELSE /\ buf' = [buf EXCEPT ![t] = b]
                   /\ GoOn(t, "copy", lench[t])
                   /\ string' = string
    BY Zenon DEF Alloc
  <1>. DEFINE z == fresh(more)
  <1>5. /\ z \in Cells /\ (\A i \in 1 .. Len(z) : z[i] = Nul) /\ Need(c, Len(s)) <= Len(z)
    <2>1. Need(c, lench[t]) \in Nat /\ more \in Nat
      BY <1>2, <1>3, NeedIsNat, StringAssumption
    <2>2. z \in [1 .. Need(c, lench[t]) + more -> Chars \cup {Nul}]
      OBVIOUS
    <2>3. z \in Cells /\ Len(z) = Need(c, lench[t]) + more
      BY <2>1, <2>2 DEF Cells
    <2>. QED BY <1>2, <2>1, <2>3
  <1>. HIDE DEF z, fresh
  <1>6. cells' = [cells EXCEPT ![b] = z] /\ cells \in [Blocks -> Cells] /\ cells'[b] = z
    BY <1>4 DEF TextInv, TextTypeOK, Cells, z
  <1>7. Holders(b) = {} /\ \A u \in Threads : buf[u] # b
    BY <1>4 DEF IInv, NoneFreedNoneLost, BufOK
  <1>8. Frame(t, x)
    <2>1. cells' \in [Blocks -> Cells]
      BY <1>4, <1>5, <1>6
    <2>2. string' \in [Objects -> Blocks \cup {NoBlock}] /\ \A o \in Objects \ {x} : string'[o] = string[o]
      BY <1>2, <1>4 DEF IInv, LinkTypeOK
    <2>3. \A u \in Threads \ {t} : buf'[u] = buf[u]
      BY <1>4 DEF IInv, LinkTypeOK
    <2>4. \A d \in Blocks : d # b => cells'[d] = cells[d]
      BY <1>6
    <2>. QED BY <1>7, <2>1, <2>2, <2>3, <2>4 DEF Frame
  <1>9. CASE string[x] = NoBlock
    <2>1. string'[x] = b /\ b # NoBlock /\ buf' = buf
      BY <1>2, <1>4, <1>9, StringAssumption DEF IInv, LinkTypeOK
    <2>2. c.name # "SetString" => s = <<>>
      BY <1>2, <1>9 DEF Is
    <2>3. c.name \in {"SetString", "Fill", "AppendString", "SetSize"}
      <3>1. c.name \in {"InsertString", "DeleteString", "ToLowerCase"} => 0 < Len(s)
        BY <1>2 DEF Args, Text
      <3>. QED BY <1>3, <2>2, <3>1 DEF Copiers
    <2>4. c.name # "SetString" => IF c.name = "SetSize" THEN Holds(z, s) /\ s \in Results(c, s)
                                                        ELSE Editable(c, z, s)
      <3>1. Len(<<>>) = 0
        OBVIOUS
      <3>. QED BY <1>2, <1>5, <2>2, <2>3, <3>1, NewIs
    <2>5. c.name = "SetString" => Editable(c, z, s)
      BY <1>5 DEF Editable
    <2>6. CASE c.name = "SetSize"
      <3>1. GoOn(t, "idle", lench[t])
        BY <1>4, <1>9, <2>6
      <3>2. s \in Values!Outcomes(call[t])
        BY <1>1, <2>4, <2>6, OutcomesAre
      <3>3. ASSUME NEW y \in Objects, y = x, NEW r \in Values!Outcomes(call[t]), r = s PROVE Is(y, r)'
        BY <1>2, <1>6, <2>1, <2>4, <2>6, <3>3 DEF Is
      <3>. QED BY <1>1, <1>2, <1>8, <3>1, <3>2, <3>3, EndsCall
    <2>7. CASE c.name # "SetSize"
      <3>1. GoOn(t, "write", lench[t])
        BY <1>4, <1>9, <2>7
      <3>2. ASSUME pc'[t] = "write", call' = call, seen' = seen, lench' = lench PROVE RunOK(t)'
        <4>1. Editable(c, cells'[string'[x]], s) /\ c.name \in Writers
          BY <1>6, <2>1, <2>3, <2>4, <2>5, <2>7 DEF Writers
        <4>. QED BY <1>1, <1>2, <3>2, <4>1 DEF RunOK, Releasing
      <3>. QED BY <1>1, <1>2, <1>8, <3>1, <3>2, GoesOn DEF Pcs
    <2>. QED BY <2>6, <2>7
  <1>10. CASE string[x] # NoBlock
    <2>1. string' = string /\ buf'[t] = b /\ GoOn(t, "copy", lench[t])
      BY <1>4, <1>10 DEF IInv, LinkTypeOK
    <2>2. c.name \in Copiers /\ Is(x, s) /\ c.name # "SetString"
      BY <1>2, <1>3, <1>10
    <2>3. x \in Holders(string[x]) /\ string[x] \in Blocks
      BY <1>1, <1>2, <1>10, OwnerHolds DEF Uncounted, IInv, LinkTypeOK
    <2>4. cells'[string[x]] = cells[string[x]]
      BY <1>6, <1>7, <2>3
    <2>5. seen' = seen
      BY <2>1 DEF GoOn
    <2>6. ASSUME NEW y \in Objects, y = x PROVE Is(y, seen[y])'
      BY <1>10, <2>1, <2>2, <2>4, <2>5, <2>6 DEF Is
    <2>7. ASSUME pc'[t] = "copy", call' = call, seen' = seen, lench' = lench PROVE RunOK(t)'
      BY <1>1, <1>2, <1>5, <1>6, <2>1, <2>2, <2>7 DEF RunOK, Releasing
    <2>. QED BY <1>1, <1>2, <1>8, <2>1, <2>6, <2>7, GoesOn DEF Pcs
  <1>. QED BY <1>9, <1>10

\* The kept characters come from a block that is still the string.
LEMMA CopyCharsText == ASSUME IInv, TextInv, NEW t \in Threads, CopyChars(t) PROVE TextInv' /\ ValStep(t)
  <1>. DEFINE x == call[t].obj  c == call[t]  s == seen[x]  b == buf[t]  m == cells[string[x]]
              k == Put(cells[b], 0, Kept(c, m, Len(s)))
  <1>1. pc[t] = "copy" /\ c # NoCall /\ c \in Calls
    BY DEF CopyChars, TextInv, RunOK
  <1>2. string[x] # NoBlock /\ b \in Blocks /\ Holders(b) = {} /\ \A u \in Threads : buf[u] = b => u = t
    BY <1>1 DEF IInv, CallOK, CallOf, BufOK, Replaces, LinkTypeOK
  <1>3. /\ x \in Objects /\ owner[x] = t /\ s \in Text /\ Args(c, s) /\ lench[t] = Len(s)
        /\ Holds(m, s) /\ m \in Cells
    BY <1>1, <1>2, InCall
  <1>4. /\ c.name \in Copiers /\ Need(c, Len(s)) <= Len(cells[b])
        /\ \A i \in 1 .. Len(cells[b]) : cells[b][i] = Nul
    BY <1>1 DEF TextInv, RunOK
  <1>5. cells \in [Blocks -> Cells]
    BY DEF TextInv, TextTypeOK, Cells
  <1>6. k \in Cells /\ Copied(c, k, s)
    BY <1>2, <1>3, <1>4, <1>5, KeptIs DEF Copied
  <1>7. cells' = [cells EXCEPT ![b] = k] /\ GoOn(t, "dec", lench[t]) /\ string' = string /\ buf' = buf
    BY <1>3 DEF CopyChars
  <1>. HIDE DEF k
  <1>8. Frame(t, x)
    <2>1. cells' \in [Blocks -> Cells] /\ \A d \in Blocks : d # b => cells'[d] = cells[d]
      BY <1>2, <1>5, <1>6, <1>7
    <2>. QED BY <1>2, <1>7, <2>1 DEF Frame, IInv, LinkTypeOK
  <1>9. ASSUME pc'[t] = "dec", call' = call, seen' = seen, lench' = lench PROVE RunOK(t)'
    <2>1. cells'[b] = k
      BY <1>2, <1>5, <1>7
    <2>. QED BY <1>1, <1>3, <1>4, <1>6, <1>7, <1>9, <2>1 DEF RunOK, Releasing
  <1>. QED BY <1>1, <1>3, <1>7, <1>8, <1>9, GoesOn DEF Pcs

\* A count tells nothing about the characters.
LEMMA DecRefCntText == ASSUME IInv, TextInv, NEW t \in Threads, DecRefCnt(t) PROVE TextInv' /\ ValStep(t)
  <1>. DEFINE x == call[t].obj  c == call[t]  s == seen[x]
  <1>1. pc[t] = "dec" /\ c # NoCall /\ RunOK(t)
    BY DEF DecRefCnt, TextInv, RunOK
  <1>2. PICK p \in {"drop", "free"} : GoOn(t, p, lench[t]) /\ string' = string /\ cells' = cells /\ buf' = buf
    BY Zenon DEF DecRefCnt
  <1>3. x \in Objects /\ owner[x] = t
    BY <1>1, InCall
  <1>4. Frame(t, x)
    BY <1>2, <1>3, SameCells DEF IInv, LinkTypeOK
  <1>5. ASSUME pc'[t] = p, call' = call, seen' = seen, lench' = lench PROVE RunOK(t)'
    BY <1>1, <1>2, <1>5 DEF RunOK, Releasing
  <1>. QED BY <1>1, <1>2, <1>3, <1>4, <1>5, GoesOn DEF Pcs

\* The block that is freed is nobody's string and nobody's buffer.
LEMMA FreeBlockText == ASSUME IInv, TextInv, NEW t \in Threads, FreeBlock(t) PROVE TextInv' /\ ValStep(t)
  <1>. DEFINE x == call[t].obj  c == call[t]  s == seen[x]  b == string[x]
  <1>1. pc[t] = "free" /\ c # NoCall /\ RunOK(t)
    BY DEF FreeBlock, TextInv, RunOK
  <1>2. /\ cells' = [cells EXCEPT ![b] = <<>>] /\ GoOn(t, "drop", lench[t]) /\ string' = string /\ buf' = buf
    BY DEF FreeBlock
  <1>3. x \in Objects /\ owner[x] = t
    BY <1>1, InCall
  <1>4. b \in Blocks /\ refCnt[b] = 0
    BY <1>1 DEF IInv, FreeOK, LinkTypeOK
  <1>5. \A u \in Threads : buf[u] # b
    BY <1>4 DEF IInv, BufOK
  <1>6. Holders(b) = {}
    BY <1>1, <1>4, HeldBlock
  <1>7. cells \in [Blocks -> Cells] /\ <<>> \in Cells
    BY DEF TextInv, TextTypeOK, Cells
  <1>8. Frame(t, x)
    <2>1. cells' \in [Blocks -> Cells] /\ \A d \in Blocks : d # b => cells'[d] = cells[d]
      BY <1>2, <1>4, <1>7
    <2>. QED BY <1>2, <1>5, <1>6, <2>1 DEF Frame, IInv, LinkTypeOK
  <1>9. ASSUME pc'[t] = "drop", call' = call, seen' = seen, lench' = lench PROVE RunOK(t)'
    <2>1. c.name \in Copiers => buf[t] \in Blocks /\ cells'[buf[t]] = cells[buf[t]]
      <3>1. c.name \in Copiers => buf[t] \in Blocks
        BY <1>1 DEF IInv, BufOK, Replaces, LinkTypeOK, Copiers
      <3>. QED BY <1>2, <1>5, <1>7, <3>1
    <2>. QED BY <1>1, <1>2, <1>9, <2>1 DEF RunOK, Releasing
  <1>. QED BY <1>1, <1>2, <1>3, <1>8, <1>9, GoesOn DEF Pcs

\* Clear, a copy of NULL, SetSize and DeleteString from the middle are over with this.
LEMMA DropText == ASSUME IInv, TextInv, NEW t \in Threads, Drop(t) PROVE TextInv' /\ ValStep(t)
  <1>. DEFINE x == call[t].obj  c == call[t]  s == seen[x]
              p == CASE c.name = "SetString" -> "alloc"
                     [] c.name = "Copy" /\ string[c.from] # NoBlock -> "share"
                     [] c.name \notin {"Clear", "Copy", "SetString"} /\ ~CopyIsAll(c, lench[t]) -> "write"
                     [] OTHER -> "idle"
  <1>1. pc[t] = "drop" /\ c # NoCall /\ c \in Calls
    BY DEF Drop, TextInv, RunOK
  <1>2. /\ string' = [string EXCEPT ![x] = buf[t]] /\ buf' = [buf EXCEPT ![t] = NoBlock]
        /\ cells' = cells /\ GoOn(t, p, lench[t])
    BY Zenon DEF Drop, memVars
  <1>3. /\ x \in Objects /\ owner[x] = t /\ s \in Text /\ Args(c, s) /\ lench[t] = Len(s) /\ lench[t] \in Nat
    BY <1>1, InCall
  <1>4. /\ c.name \in Copiers \cup {"SetString", "Clear", "Copy"}
        /\ IF c.name \in Copiers THEN Copied(c, cells[buf[t]], s) /\ buf[t] # NoBlock ELSE buf[t] = NoBlock
    BY <1>1, <1>3 DEF TextInv, RunOK, Releasing, Args, Writers, Copiers, IInv, BufOK, Replaces
  <1>5. /\ p \in {"alloc", "share", "write", "idle"}
        /\ p = "alloc" => c.name = "SetString"
        /\ p = "share" => c.name = "Copy"
        /\ p = "write" => c.name \in Copiers /\ ~CopyIsAll(c, Len(s))
        /\ p = "idle" => \/ c.name = "Clear"
                         \/ c.name = "Copy" /\ string[c.from] = NoBlock
                         \/ c.name \in Copiers /\ CopyIsAll(c, Len(s))
    <2>. HIDE DEF s
    <2>. QED BY <1>3, <1>4
  <1>. HIDE DEF p
  <1>6. /\ string' \in [Objects -> Blocks \cup {NoBlock}] /\ string'[x] = buf[t]
        /\ \A o \in Objects \ {x} : string'[o] = string[o]
        /\ \A u \in Threads \ {t} : buf'[u] = buf[u]
    BY <1>2, <1>3 DEF IInv, LinkTypeOK
  <1>7. Frame(t, x)
    BY <1>2, <1>3, <1>6, SameCells
  <1>8. CASE p = "idle"
    <2>1. CASE c.name = "Clear"
      <3>1. <<>> \in Values!Outcomes(call[t]) /\ <<>> \in Text
        <4>1. Values!Outcomes(call[t]) = Results(c, s)
          BY <1>1, <2>1, OutcomesAre
        <4>2. Results(c, s) = {<<>>}
          BY <2>1 DEF Results
        <4>. QED BY <4>1, <4>2, ResultsAreTexts, <1>3, <2>1
      <3>2. ASSUME NEW y \in Objects, y = x, NEW r \in Values!Outcomes(call[t]), r = <<>> PROVE Is(y, r)'
        BY <1>4, <1>6, <2>1, <3>1, <3>2 DEF Is, Copiers
      <3>. QED BY <1>1, <1>2, <1>3, <1>7, <1>8, <3>1, <3>2, EndsCall
    <2>2. CASE c.name = "Copy" /\ string[c.from] = NoBlock
      <3>1. c.from \in Objects \ {x} /\ owner[c.from] = t
        BY <1>1, <2>2 DEF IInv, CallOK, CallOf
      <3>2. Is(c.from, seen[c.from])
        BY <1>1, <3>1 DEF TextInv, ValueOK, Settled, Val
      <3>3. seen[c.from] = <<>>
        BY <2>2, <3>2 DEF Is
      <3>4. <<>> \in Values!Outcomes(call[t]) /\ <<>> \in Text
        <4>1. Values!Outcomes(call[t]) = {seen[c.from]}
          BY <1>1, <2>2, OutcomesAre
        <4>2. <<>> \in Text
          BY EmptySeq DEF Text
        <4>. QED BY <3>3, <4>1, <4>2
      <3>5. ASSUME NEW y \in Objects, y = x, NEW r \in Values!Outcomes(call[t]), r = <<>> PROVE Is(y, r)'
        BY <1>4, <1>6, <2>2, <3>4, <3>5 DEF Is, Copiers
      <3>. QED BY <1>1, <1>2, <1>3, <1>7, <1>8, <3>4, <3>5, EndsCall
    <2>3. CASE c.name \in Copiers /\ CopyIsAll(c, Len(s))
      <3>1. PICK r \in Results(c, s) : Holds(cells[buf[t]], r)
        BY <1>4, <2>3 DEF Copied
      <3>2. r \in Values!Outcomes(call[t]) /\ r \in Text
        BY <1>1, <1>3, <2>3, <3>1, OutcomesAre, ResultsAreTexts DEF Copiers
      <3>3. ASSUME NEW y \in Objects, y = x PROVE Is(y, r)'
        BY <1>2, <1>4, <1>6, <2>3, <3>1, <3>2, <3>3 DEF Is
      <3>. QED BY <1>1, <1>2, <1>3, <1>7, <1>8, <3>2, <3>3, EndsCall
    <2>. QED BY <1>5, <1>8, <2>1, <2>2, <2>3
  <1>9. CASE p # "idle"
    <2>1. ASSUME pc'[t] = p, call' = call, seen' = seen, lench' = lench PROVE RunOK(t)'
      <3>1. p = "alloc" => string'[x] = NoBlock
        BY <1>4, <1>5, <1>6 DEF Copiers
      <3>2. p = "write" => c.name \in Writers /\ Editable(c, cells'[string'[x]], s)
        BY <1>2, <1>4, <1>5, <1>6 DEF Copied
      <3>. QED BY <1>1, <1>3, <1>5, <1>9, <2>1, <3>1, <3>2 DEF RunOK, Releasing
    <2>. QED BY <1>1, <1>2, <1>3, <1>5, <1>7, <1>9, <2>1, GoesOn DEF Pcs
  <1>. QED BY <1>8, <1>9

\* The copy has the block of its source, and is not counted yet.
LEMMA ShareText == ASSUME IInv, TextInv, NEW t \in Threads, Share(t) PROVE TextInv' /\ ValStep(t)
  <1>. DEFINE x == call[t].obj  c == call[t]
  <1>1. pc[t] = "share" /\ c # NoCall /\ c \in Calls
    BY DEF Share, TextInv, RunOK
  <1>2. /\ string' = [string EXCEPT ![x] = string[c.from]] /\ buf' = buf /\ cells' = cells
        /\ GoOn(t, "addref", lench[t])
    BY DEF Share, memVars
  <1>3. /\ x \in Objects /\ owner[x] = t /\ Args(c, seen[x]) /\ lench[t] = Len(seen[x])
    BY <1>1, InCall
  <1>4. c.from \in Objects
    BY <1>1 DEF IInv, CallOK, CallOf
  <1>5. Frame(t, x)
    <2>1. string' \in [Objects -> Blocks \cup {NoBlock}] /\ \A o \in Objects \ {x} : string'[o] = string[o]
      BY <1>2, <1>4 DEF IInv, LinkTypeOK
    <2>. QED BY <1>2, <1>3, <2>1, SameCells
  <1>6. ASSUME pc'[t] = "addref", call' = call, seen' = seen, lench' = lench PROVE RunOK(t)'
    BY <1>1, <1>3, <1>6 DEF RunOK, Releasing
  <1>. QED BY <1>1, <1>2, <1>3, <1>5, <1>6, GoesOn DEF Pcs

\* The copy is what its source was when the call began.
LEMMA AddRefText == ASSUME IInv, TextInv, NEW t \in Threads, AddRef(t) PROVE TextInv' /\ ValStep(t)
  <1>. DEFINE x == call[t].obj  c == call[t]  from == c.from
  <1>1. pc[t] = "addref" /\ string' = string /\ cells' = cells /\ buf' = buf /\ GoOn(t, "idle", lench[t])
    BY DEF AddRef
  <1>2. x \in Objects /\ owner[x] = t /\ lench[t] \in Nat
    BY <1>1, InCall
  <1>3. c.name = "Copy" /\ string[x] = string[from] /\ from \in Objects \ {x} /\ owner[from] = t
    BY <1>1 DEF IInv, CallOK, CallOf
  <1>4. Is(from, seen[from])
    BY <1>1, <1>3 DEF TextInv, ValueOK, Settled, Val
  <1>5. Frame(t, x)
    BY <1>1, <1>2, SameCells DEF IInv, LinkTypeOK
  <1>6. seen[from] \in Values!Outcomes(call[t])
    BY <1>1, <1>3, OutcomesAre
  <1>7. ASSUME NEW y \in Objects, y = x, NEW r \in Values!Outcomes(call[t]), r = seen[from] PROVE Is(y, r)'
    BY <1>1, <1>3, <1>4, <1>7 DEF Is
  <1>. QED BY <1>1, <1>2, <1>5, <1>6, <1>7, EndsCall

\* The writer is alone with its block, so that no other string changes.
LEMMA WriteText == ASSUME IInv, TextInv, NEW t \in Threads, Write(t) PROVE TextInv' /\ ValStep(t)
  <1>. DEFINE x == call[t].obj  c == call[t]  s == seen[x]  b == string[x]
              w == Edited(c, cells[b], Len(s))
  <1>1. pc[t] = "write" /\ c.name \in Writers /\ Editable(c, cells[b], s)
    BY DEF Write, TextInv, RunOK
  <1>2. /\ x \in Objects /\ owner[x] = t /\ s \in Text /\ Args(c, s) /\ lench[t] = Len(s) /\ lench[t] \in Nat
    BY <1>1, InCall
  <1>3. string[x] # NoBlock /\ b \in Blocks
    BY <1>1, <1>2 DEF IInv, CallOK, CallOf, LinkTypeOK
  <1>4. Holders(b) = {x}
    BY <1>1, <1>3 DEF IInv, WriteOK, Writers
  <1>5. \A u \in Threads : buf[u] # b
    BY <1>3, <1>4, HeldBlock
  <1>6. cells \in [Blocks -> Cells] /\ cells[b] \in Cells
    BY <1>3 DEF TextInv, TextTypeOK, Cells
  <1>7. w \in Cells /\ \E r \in Results(c, s) : Holds(w, r)
    BY <1>1, <1>2, <1>6, EditedIs
  <1>8. PICK r \in Results(c, s) : Holds(w, r)
    BY <1>7
  <1>9. cells' = [cells EXCEPT ![b] = w] /\ string' = string /\ buf' = buf /\ GoOn(t, "idle", lench[t])
    <2>1. c.name # "ScanString"
      BY <1>1 DEF Writers
    <2>. QED BY <1>2, <2>1 DEF Write
  <1>. HIDE DEF w
  <1>10. Frame(t, x)
    <2>1. cells' \in [Blocks -> Cells] /\ \A d \in Blocks : d # b => cells'[d] = cells[d]
      BY <1>3, <1>6, <1>7, <1>9
    <2>. QED BY <1>4, <1>5, <1>9, <2>1 DEF Frame, IInv, LinkTypeOK
  <1>11. r \in Values!Outcomes(call[t]) /\ r \in Text
    BY <1>1, <1>2, OutcomesAre, ResultsAreTexts DEF Writers
  <1>12. ASSUME NEW y \in Objects, y = x PROVE Is(y, r)'
    <2>1. cells'[b] = w
      BY <1>3, <1>6, <1>9
    <2>. QED BY <1>3, <1>8, <1>9, <1>11, <1>12, <2>1 DEF Is
  <1>. QED BY <1>1, <1>2, <1>9, <1>10, <1>11, <1>12, EndsCall

------------------------------------------------------------------------------
\* A call begins: its thread's strings are what they were, and stay so for others.
LEMMA StartText ==
    ASSUME IInv, TextInv, NEW t \in Threads, NEW c \in Calls, NEW p \in Pcs, Start(t, c, p),
           c.name # "ScanString", Args(c, Value(c.obj)),
           p \in {"count", "alloc", "dec", "share"},
           p = "count" => c.name \in Writers \cup {"SetSize"},
           p = "alloc" => string[c.obj] = NoBlock /\ c.name \in Copiers \cup {"SetString"},
           p = "dec" => c.name \in {"Clear", "Copy"}
    PROVE  TextInv' /\ Values!Begin(t)
  <1>. DEFINE x == c.obj
  <1>1. /\ pc[t] = "idle" /\ owner[x] = t /\ x \in Objects
        /\ pc' = [pc EXCEPT ![t] = p] /\ call' = [call EXCEPT ![t] = c]
        /\ lench' = [lench EXCEPT ![t] = Len(Value(x))]
        /\ seen' = [o \in Objects |-> IF owner[o] = t THEN Value(o) ELSE seen[o]]
        /\ string' = string /\ owner' = owner /\ cells' = cells /\ buf' = buf
    BY DEF Start, memVars, Calls
  <1>2. pc'[t] = p /\ call'[t] = c /\ call[t] = NoCall /\ RunOK(t) /\ p # "idle"
    BY <1>1 DEF IInv, LinkTypeOK, TextInv, TextTypeOK, RunOK
  <1>3. \A o \in Objects : owner[o] = t => Value(o) = Val(o) /\ Value(o) \in Text /\ Is(o, Value(o))
    BY <1>1 DEF Val, TextInv, ValueOK, Settled, Is
  <1>4. OnlyBy(t, x) /\ Frame(t, x)
    BY <1>1, <1>2 DEF OnlyBy, Frame, IInv, LinkTypeOK, TextInv, TextTypeOK, Cells
  <1>5. Len(Value(x)) \in Nat
    BY <1>1, <1>3 DEF Text
  <1>6. TextTypeOK'
    <2>1. lench' \in [Threads -> Nat] /\ call' \in [Threads -> Calls \cup {NoCall}]
      BY <1>1, <1>5 DEF TextInv, TextTypeOK
    <2>2. \A o \in Objects : (IF owner[o] = t THEN Value(o) ELSE seen[o]) \in Text
      BY <1>3 DEF TextInv, TextTypeOK, Text
    <2>3. seen' \in [Objects -> Text]
      BY <1>1, <2>2
    <2>. QED BY <1>1, <2>1, <2>3 DEF TextInv, TextTypeOK, Text
  <1>7. /\ \A u \in Threads \ {t} : RunOK(u)'
        /\ \A o \in Objects : owner[o] # t => ValueOK(o)' /\ Val(o)' = Val(o)
    <2>1. \A u \in Threads \ {t} : lench'[u] = lench[u]
      BY <1>1 DEF TextInv, TextTypeOK
    <2>2. \A o \in Objects : owner[o] # t => seen'[o] = seen[o]
      BY <1>1
    <2>. QED BY <1>1, <1>4, <2>1, <2>2, OthersKeep
  <1>8. ASSUME NEW o \in Objects, owner[o] = t PROVE ValueOK(o)' /\ Val(o)' = Val(o)
    <2>1. Val(o)' = Value(o)
      BY <1>1, <1>2, <1>8 DEF Val
    <2>2. Is(o, Val(o))'
      BY <1>1, <1>3, <1>8, <2>1 DEF Is
    <2>. QED BY <1>3, <1>8, <2>1, <2>2 DEF ValueOK, Is
  <1>9. RunOK(t)'
    <2>1. seen'[x] = Value(x) /\ lench'[t] = Len(seen'[x])
      BY <1>1, <1>2 DEF TextInv, TextTypeOK
    <2>2. c # NoCall
      BY NoCallAssumption
    <2>3. buf[t] = NoBlock
      BY <1>1 DEF IInv, BufOK
    <2>4. Args(c, seen'[x])
      BY <2>1
    <2>. QED BY <1>1, <1>2, <2>1, <2>2, <2>3, <2>4 DEF RunOK, Releasing, Copiers
  <1>10. Values!Begin(t)
    <2>1. UNCHANGED [o \in Objects |-> IF pc[owner[o]] = "idle" THEN Value(o) ELSE seen[o]]
      <3>1. \A o \in Objects : Val(o)' = Val(o)
        BY <1>7, <1>8
      <3>. QED BY <3>1 DEF Val
    <2>. QED BY <1>1, <1>2, <2>1 DEF Values!Begin
  <1>. QED BY <1>6, <1>7, <1>8, <1>9, <1>10 DEF TextInv

\* the arguments that make a call, field by field
LEMMA CallIs ==
    ASSUME NEW name \in Names, NEW o \in Objects, NEW from \in Objects, NEW s,
           s \in Texts \cup {<<>>}, NEW pos \in 0 .. MaxLen, NEW len \in 0 .. MaxLen + 1, NEW c,
           c = [name |-> name, obj |-> o, from |-> from, text |-> s, pos |-> pos, len |-> len]
    PROVE  /\ c \in Calls /\ c.name = name /\ c.obj = o /\ c.from = from /\ c.text = s
           /\ c.pos = pos /\ c.len = len /\ c.text \in Text /\ c.pos \in Nat /\ c.len \in Nat
  <1>1. c \in Calls
    <2>. DEFINE T == Texts \cup {<<>>} \cup {<<d>> : d \in Chars}
    <2>1. s \in T
      OBVIOUS
    <2>2. Calls = [name : Names, obj : Objects, from : Objects, text : T,
                 pos : 0 .. MaxLen, len : 0 .. MaxLen + 1]
      BY DEF Calls
    <2>. HIDE DEF T
    <2>. QED BY <2>1, <2>2
  <1>2. s \in Text
    BY StringAssumption, EmptySeq DEF Text
  <1>3. pos \in Nat /\ len \in Nat
    BY StringAssumption
  <1>. QED BY <1>1, <1>2, <1>3

\* Every call but ScanString begins with arguments that fit the string it is made on.
LEMMA BeginText ==
    ASSUME IInv, TextInv, "ScanString" \notin Names, NEW t \in Threads, NEW o \in Objects, Begin(t, o)
    PROVE  TextInv' /\ Values!Begin(t)
  <1>0. /\ MaxLen \in Nat /\ 0 \in 0 .. MaxLen /\ 0 \in 0 .. MaxLen + 1
        /\ 1 .. MaxLen + 1 \subseteq 0 .. MaxLen + 1
        /\ 1 .. MaxLen \subseteq 0 .. MaxLen + 1 /\ {"count", "alloc", "dec", "share"} \subseteq Pcs
    BY StringAssumption DEF Pcs
  <1>. DEFINE Made(name, from, s, pos, len) ==
                [name |-> name, obj |-> o, from |-> from, text |-> s, pos |-> pos, len |-> len]
  <1>1. CASE "SetString" \in Names /\ CallSetString(t, o)
    <2>1. PICK s \in Texts :
             Start(t, Made("SetString", o, s, 0, 0), IF string[o] = NoBlock THEN "alloc" ELSE "count")
      BY <1>1 DEF CallSetString, Plain
    <2>. DEFINE c == Made("SetString", o, s, 0, 0)
    <2>2. c \in Calls /\ c.name = "SetString" /\ c.obj = o /\ c.text \in Text /\ c.pos \in Nat /\ c.len \in Nat
      BY <1>0, <1>1, CallIs
    <2>. HIDE DEF c
    <2>3. Args(c, Value(o))
      BY <2>2 DEF Args, Writers
    <2>. QED BY <1>0, <2>1, <2>2, <2>3, StartText DEF Writers, c
  <1>2. CASE "Fill" \in Names /\ CallFill(t, o)
    <2>1. PICK s \in Texts :
             Start(t, Made("Fill", o, s, 0, 0), IF string[o] = NoBlock THEN "alloc" ELSE "count")
      BY <1>2 DEF CallFill, Plain
    <2>. DEFINE c == Made("Fill", o, s, 0, 0)
    <2>2. c \in Calls /\ c.name = "Fill" /\ c.obj = o /\ c.text \in Text /\ c.pos \in Nat /\ c.len \in Nat
      BY <1>0, <1>2, CallIs
    <2>. HIDE DEF c
    <2>3. Args(c, Value(o))
      BY <2>2 DEF Args, Writers
    <2>. QED BY <1>0, <2>1, <2>2, <2>3, StartText DEF Writers, Copiers, c
  <1>3. CASE "SetSize" \in Names /\ CallSetSize(t, o)
    <2>1. PICK n \in 1 .. MaxLen + 1 :
             Start(t, Made("SetSize", o, <<>>, 0, n), IF string[o] = NoBlock THEN "alloc" ELSE "count")
      BY <1>3 DEF CallSetSize, Plain
    <2>. DEFINE c == Made("SetSize", o, <<>>, 0, n)
    <2>2. c \in Calls /\ c.name = "SetSize" /\ c.obj = o /\ c.text \in Text /\ c.pos \in Nat /\ c.len \in Nat
          /\ c.len = n
      BY <1>0, <1>3, CallIs
    <2>. HIDE DEF c
    <2>3. Args(c, Value(o))
      BY <1>0, <2>2 DEF Args
    <2>. QED BY <1>0, <2>1, <2>2, <2>3, StartText DEF Copiers, c
  <1>4. CASE "Clear" \in Names /\ CallClear(t, o)
    <2>. DEFINE c == Made("Clear", o, <<>>, 0, 0)
    <2>1. Start(t, c, "dec")
      BY <1>4 DEF CallClear, Plain
    <2>2. c \in Calls /\ c.name = "Clear" /\ c.obj = o /\ c.text \in Text /\ c.pos \in Nat /\ c.len \in Nat
      BY <1>0, <1>4, CallIs
    <2>. HIDE DEF c
    <2>3. Args(c, Value(o))
      BY <2>2 DEF Args
    <2>. QED BY <1>0, <2>1, <2>2, <2>3, StartText
  <1>5. CASE "AppendString" \in Names /\ CallAppendString(t, o)
    <2>1. PICK s \in Texts :
             Start(t, Made("AppendString", o, s, 0, 0), IF string[o] = NoBlock THEN "alloc" ELSE "count")
      BY <1>5 DEF CallAppendString, Plain
    <2>. DEFINE c == Made("AppendString", o, s, 0, 0)
    <2>2. c \in Calls /\ c.name = "AppendString" /\ c.obj = o /\ c.text \in Text /\ c.pos \in Nat /\ c.len \in Nat
      BY <1>0, <1>5, CallIs
    <2>. HIDE DEF c
    <2>3. Args(c, Value(o))
      BY <2>2 DEF Args, Writers
    <2>. QED BY <1>0, <2>1, <2>2, <2>3, StartText DEF Writers, Copiers, c
  <1>6. CASE "InsertString" \in Names /\ CallInsertString(t, o)
    <2>1. PICK s \in Texts, pos \in 0 .. MaxLen :
             pos < Len(Value(o)) /\ Start(t, Made("InsertString", o, s, pos, 0), "count")
      <3>1. PICK s \in Texts, pos \in 0 .. MaxLen :
               /\ pos < Len(Value(o))
               /\ Start(t, [Plain("InsertString", o) EXCEPT !.text = s, !.pos = pos], "count")
        BY <1>6 DEF CallInsertString
      <3>2. [Plain("InsertString", o) EXCEPT !.text = s, !.pos = pos] = Made("InsertString", o, s, pos, 0)
        <4>1. [Plain("InsertString", o) EXCEPT !.text = s, !.pos = pos] =
                 [[Plain("InsertString", o) EXCEPT !.text = s] EXCEPT !.pos = pos]
          OBVIOUS
        <4>2. [Plain("InsertString", o) EXCEPT !.text = s] = Made("InsertString", o, s, 0, 0)
          BY DEF Plain
        <4>3. [Made("InsertString", o, s, 0, 0) EXCEPT !.pos = pos] = Made("InsertString", o, s, pos, 0)
          OBVIOUS
        <4>. QED BY <4>1, <4>2, <4>3
      <3>. QED BY <3>1, <3>2
    <2>. DEFINE c == Made("InsertString", o, s, pos, 0)
    <2>2. c \in Calls /\ c.name = "InsertString" /\ c.obj = o /\ c.text \in Text /\ c.pos \in Nat /\ c.len \in Nat
          /\ c.pos = pos
      BY <1>0, <1>6, CallIs
    <2>. HIDE DEF c
    <2>3. Args(c, Value(o))
      BY <2>1, <2>2 DEF Args, Writers
    <2>. QED BY <1>0, <2>1, <2>2, <2>3, StartText DEF Writers, c
  <1>7. CASE "DeleteString" \in Names /\ CallDeleteString(t, o)
    <2>1. PICK pos \in 0 .. MaxLen, len \in 1 .. MaxLen :
             pos < Len(Value(o)) /\ Start(t, Made("DeleteString", o, <<>>, pos, len), "count")
      <3>1. PICK pos \in 0 .. MaxLen, len \in 1 .. MaxLen :
               /\ pos < Len(Value(o))
               /\ Start(t, [Plain("DeleteString", o) EXCEPT !.pos = pos, !.len = len], "count")
        BY <1>7 DEF CallDeleteString
      <3>2. [Plain("DeleteString", o) EXCEPT !.pos = pos, !.len = len] = Made("DeleteString", o, <<>>, pos, len)
        <4>1. [Plain("DeleteString", o) EXCEPT !.pos = pos, !.len = len] =
                 [[Plain("DeleteString", o) EXCEPT !.pos = pos] EXCEPT !.len = len]
          OBVIOUS
        <4>2. [Plain("DeleteString", o) EXCEPT !.pos = pos] = Made("DeleteString", o, <<>>, pos, 0)
          BY DEF Plain
        <4>3. [Made("DeleteString", o, <<>>, pos, 0) EXCEPT !.len = len] = Made("DeleteString", o, <<>>, pos, len)
          OBVIOUS
        <4>. QED BY <4>1, <4>2, <4>3
      <3>. QED BY <3>1, <3>2
    <2>. DEFINE c == Made("DeleteString", o, <<>>, pos, len)
    <2>2. c \in Calls /\ c.name = "DeleteString" /\ c.obj = o /\ c.text \in Text /\ c.pos \in Nat /\ c.len \in Nat
          /\ c.pos = pos /\ c.len = len
      BY <1>0, <1>7, CallIs
    <2>. HIDE DEF c
    <2>3. Args(c, Value(o))
      BY <1>0, <2>1, <2>2 DEF Args, Writers
    <2>. QED BY <1>0, <2>1, <2>2, <2>3, StartText DEF Writers, c
  <1>8. CASE "ToLowerCase" \in Names /\ CallToLowerCase(t, o)
    <2>. DEFINE c == Made("ToLowerCase", o, <<>>, 0, 0)
    <2>1. Start(t, c, "count") /\ Value(o) # <<>>
      BY <1>8 DEF CallToLowerCase, Plain
    <2>2. c \in Calls /\ c.name = "ToLowerCase" /\ c.obj = o /\ c.text \in Text /\ c.pos \in Nat /\ c.len \in Nat
      BY <1>0, <1>8, CallIs
    <2>. HIDE DEF c
    <2>3. Value(o) \in Text
      BY <2>1, <2>2 DEF Start, TextInv, ValueOK, Val
    <2>4. Args(c, Value(o))
      BY <2>1, <2>2, <2>3, EmptySeq DEF Args, Writers, Text
    <2>. QED BY <1>0, <2>1, <2>2, <2>4, StartText DEF Writers
  <1>9. CASE "Copy" \in Names /\ CallCopy(t, o)
    <2>1. PICK from \in Objects :
             Start(t, Made("Copy", from, <<>>, 0, 0), IF string[o] # NoBlock THEN "dec" ELSE "share")
      BY <1>9 DEF CallCopy, Plain
    <2>. DEFINE c == Made("Copy", from, <<>>, 0, 0)
    <2>2. c \in Calls /\ c.name = "Copy" /\ c.obj = o /\ c.text \in Text /\ c.pos \in Nat /\ c.len \in Nat
      BY <1>0, <1>9, CallIs
    <2>. HIDE DEF c
    <2>3. Args(c, Value(o))
      BY <2>2 DEF Args
    <2>. QED BY <1>0, <2>1, <2>2, <2>3, StartText DEF c
  <1>. QED BY <1>1, <1>2, <1>3, <1>4, <1>5, <1>6, <1>7, <1>8, <1>9 DEF Begin

\* An object is handed over between two calls.
LEMMA GiveText ==
    ASSUME IInv, TextInv, NEW t \in Threads, NEW o \in Objects, Give(o, t)
    PROVE  TextInv' /\ Values!Give(o, t)
  <1>1. /\ pc[owner[o]] = "idle" /\ pc[t] = "idle" /\ owner' = [owner EXCEPT ![o] = t]
        /\ UNCHANGED <<string, cells, pc, call, lench, buf, seen>>
        /\ owner[o] \in Threads
    BY DEF Give, memVars, localVars, IInv, LinkTypeOK
  <1>2. \A q \in Objects : Val(q)' = Val(q)
    <2>1. \A q \in Objects : Value(q)' = Value(q)
      BY <1>1 DEF Value
    <2>. QED BY <1>1, <2>1 DEF Val, IInv, LinkTypeOK
  <1>3. ASSUME NEW q \in Objects PROVE ValueOK(q)'
    <2>1. Settled(q)' => Settled(q)
      BY <1>1 DEF Settled, IInv, LinkTypeOK
    <2>2. ValueOK(q)
      BY DEF TextInv
    <2>3. Is(q, Val(q)) => Is(q, Val(q))'
      BY <1>1, <1>2 DEF Is
    <2>. QED BY <1>2, <2>1, <2>2, <2>3 DEF ValueOK
  <1>4. \A u \in Threads : RunOK(u)'
    BY <1>1 DEF TextInv, RunOK
  <1>5. TextTypeOK'
    BY <1>1 DEF TextInv, TextTypeOK
  <1>6. call[owner[o]] = NoCall /\ call[t] = NoCall
    BY <1>1 DEF TextInv, RunOK
  <1>7. UNCHANGED [q \in Objects |-> IF pc[owner[q]] = "idle" THEN Value(q) ELSE seen[q]]
    BY <1>2 DEF Val
  <1>. QED BY <1>1, <1>3, <1>4, <1>5, <1>6, <1>7 DEF TextInv, Values!Give

------------------------------------------------------------------------------
\* At first every string is empty.
LEMMA InitText == Init => TextInv /\ Values!Init
  <1>. SUFFICES ASSUME Init PROVE TextInv /\ Values!Init
    OBVIOUS
  <1>. <<>> \in Text /\ <<>> \in Cells /\ 0 \in Nat
    BY EmptySeq DEF Text, Cells
  <1>1. TextTypeOK
    BY DEF Init, TextTypeOK, Text, Cells
  <1>2. \A o \in Objects : Val(o) = <<>> /\ Is(o, <<>>)
    BY DEF Init, Val, Value, Is
  <1>3. \A o \in Objects : ValueOK(o)
    BY <1>2 DEF ValueOK
  <1>4. \A t \in Threads : RunOK(t)
    BY DEF Init, RunOK
  <1>5. Values!Init
    BY <1>2 DEF Init, Values!Init, Val
  <1>. QED BY <1>1, <1>3, <1>4, <1>5 DEF TextInv

\* A step inside a call is the end of the call for StringValues, or nothing.
LEMMA StepText ==
    ASSUME IInv, TextInv, NEW t \in Threads, Step(t)
    PROVE  TextInv' /\ (Values!End(t) \/ UNCHANGED <<[o \in Objects |-> Val(o)], owner, call>>)
  <1>1. TextInv' /\ ValStep(t)
    <2>1. ~Restore(t)
      BY DEF Restore, TextInv, RunOK
    <2>. QED BY <2>1, CountText, AllocText, CopyCharsText, DecRefCntText, FreeBlockText, DropText,
                ShareText, AddRefText, WriteText DEF Step
  <1>2. owner' = owner
    BY DEF Step, Count, Alloc, CopyChars, DecRefCnt, FreeBlock, Drop, Share, AddRef, Write, Restore, GoOn
  <1>3. CASE Stutters
    BY <1>1, <1>2, <1>3 DEF Stutters
  <1>4. ASSUME NEW r \in Values!Outcomes(call[t]), EndsWith(t, r) PROVE Values!End(t)
    <2>. DEFINE val == [o \in Objects |-> IF pc[owner[o]] = "idle" THEN Value(o) ELSE seen[o]]
    <2>1. call[t] # NoCall /\ call' = [call EXCEPT ![t] = NoCall]
      BY <1>4 DEF EndsWith
    <2>2. val' = [val EXCEPT ![call[t].obj] = r]
      <3>1. val = [o \in Objects |-> Val(o)] /\ val' = [o \in Objects |-> Val(o)']
        BY DEF Val
      <3>2. \A o \in Objects : Val(o)' = IF o = call[t].obj THEN r ELSE Val(o)
        BY <1>4 DEF EndsWith
      <3>. HIDE DEF val
      <3>. QED BY <3>1, <3>2
    <2>. QED BY <1>2, <2>1, <2>2 DEF Values!End
  <1>. QED BY <1>1, <1>3, <1>4 DEF ValStep

\* Every step keeps the invariant and is a step of StringValues, or a stutter.
LEMMA NextText ==
    ASSUME IInv, TextInv, "ScanString" \notin Names, [Next]_vars
    PROVE  TextInv' /\ (Values!Next \/ UNCHANGED <<[o \in Objects |-> Val(o)], owner, call>>)
  <1>1. ASSUME NEW t \in Threads, NEW o \in Objects, Begin(t, o) PROVE TextInv' /\ Values!Next
    BY <1>1, BeginText DEF Values!Next
  <1>2. ASSUME NEW t \in Threads, NEW o \in Objects, Give(o, t) PROVE TextInv' /\ Values!Next
    BY <1>2, GiveText DEF Values!Next
  <1>3. ASSUME NEW t \in Threads, Step(t)
        PROVE  TextInv' /\ (Values!Next \/ UNCHANGED <<[o \in Objects |-> Val(o)], owner, call>>)
    BY <1>3, StepText DEF Values!Next
  <1>4. CASE UNCHANGED vars
    <2>1. UNCHANGED <<string, owner, cells, pc, call, lench, buf, seen>>
      BY <1>4 DEF vars, memVars, localVars
    <2>2. \A o \in Objects : Value(o)' = Value(o)
      BY <2>1 DEF Value
    <2>3. \A o \in Objects : Val(o)' = Val(o)
      BY <2>1, <2>2 DEF Val
    <2>4. \A o \in Objects : ValueOK(o)'
      <3>1. ASSUME NEW o \in Objects PROVE ValueOK(o)'
        <4>1. ValueOK(o) /\ (Settled(o)' => Settled(o))
          BY <2>1 DEF TextInv, Settled
        <4>2. Is(o, Val(o)) => Is(o, Val(o))'
          BY <2>1, <2>3 DEF Is
        <4>. QED BY <2>3, <4>1, <4>2 DEF ValueOK
      <3>. QED BY <3>1
    <2>5. \A t \in Threads : RunOK(t)'
      BY <2>1 DEF TextInv, RunOK
    <2>6. TextTypeOK'
      BY <2>1 DEF TextInv, TextTypeOK
    <2>. QED BY <2>1, <2>3, <2>4, <2>5, <2>6 DEF TextInv
  <1>. QED BY <1>1, <1>2, <1>3, <1>4 DEF Next

\* The blocks are what the strings in them say, in every state, whoever shares them.
THEOREM TextInvariance == ASSUME "ScanString" \notin Names PROVE Spec => [](IInv /\ TextInv)
  <1>1. IInv /\ TextInv /\ [Next]_vars => TextInv'
    BY NextText
  <1>. QED BY <1>1, InitText, Invariance, PTL DEF Spec

\* Every variable has its type: in particular every string a thread may look at ends
\* with a 0 inside its block, so that what is read from it is a text.
THEOREM TypeOKAlways == ASSUME "ScanString" \notin Names PROVE Spec => []TypeOK
  <1>1. IInv /\ TextInv => TypeOK
    BY DEF IInv, TextInv, TypeOK
  <1>. QED BY <1>1, TextInvariance, PTL

\* CStringBuffer implements StringValues for any threads, texts and blocks: every call
\* but ScanString ends with the value it would give alone, and no other string changes.
THEOREM StringsAreValues == ASSUME "ScanString" \notin Names PROVE Spec => IsStringValues
  <1>1. [o \in Objects |-> Val(o)] = [o \in Objects |-> IF pc[owner[o]] = "idle" THEN Value(o) ELSE seen[o]]
    BY DEF Val
  <1>2. IInv /\ TextInv /\ [Next]_vars =>
          [Values!Next]_<<[o \in Objects |-> IF pc[owner[o]] = "idle" THEN Value(o) ELSE seen[o]], owner, call>>
    BY NextText DEF Val
  <1>. QED BY <1>2, InitText, TextInvariance, PTL DEF Spec, IsStringValues, Values!Spec
=============================================================================
