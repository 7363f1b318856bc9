---------------------------- MODULE StringBuffer ----------------------------
(***************************************************************************)
(* CStringBuffer of CppSources/StringBuffer.cpp: strings that share a      *)
(* reference counted block of TFMEM until one of them is changed.          *)
(*                                                                         *)
(* Every object is used by one thread at a time (its owner, until it is    *)
(* handed over), the blocks by all of them.  Each call of TFMEM runs under *)
(* TFLOCK and is one step; between two of them, and between them and the   *)
(* reads and writes of the characters, other threads run.  A block is the  *)
(* array of its cells; TFalloc returns it zeroed (TFMem!FreeIsZero).       *)
(***************************************************************************)
EXTENDS Naturals, FiniteSets, Sequences

CONSTANTS
    Threads, Objects, Blocks,
    NoBlock, NoCall,
    Chars,         \* the characters a text is made of
    Lower(_),      \* s_isupper, + 0x20
    Texts,         \* the texts calls are made with
    Names,         \* the calls that are made
    Widths,        \* field widths in the formats of ScanString
    Slack,         \* TFalloc may give so many cells more than it was asked for
    MaxLen         \* bound: the length of a string

Nul == "0"    \* the terminating 0

ASSUME StringAssumption ==
    /\ Nul \notin Chars
    /\ \A c \in Chars : Lower(c) \in Chars
    /\ Texts \subseteq Seq(Chars)
    /\ Widths \subseteq Nat /\ Slack \in Nat /\ MaxLen \in Nat
    /\ NoBlock \notin Blocks /\ IsFiniteSet(Objects)

VARIABLES
    string,        \* _string of each object
    owner,         \* the thread that uses the object
    live,          \* the blocks TFMEM has handed out
    refCnt, cells, \* of each block
    pc, call,      \* per thread: the call it is in and how far it got
    lench,         \* per thread: GetLength() of the object in the call
    buf,           \* per thread: buffer of _alloc_Buffer2
    seen           \* history: what the object was when its owner began the call

memVars == <<live, refCnt, cells>>
localVars == <<lench, buf, seen>>
vars == <<string, owner, memVars, pc, call, localVars>>

Pcs == {"idle", "count", "alloc", "copy", "dec", "free", "drop", "share",
        "addref", "write", "restore"}

------------------------------------------------------------------------------
\* the C string in an array of cells: what is before the first 0
Length(m) == CHOOSE i \in 0 .. Len(m) :
                (i < Len(m) => m[i + 1] = Nul) /\ \A j \in 1 .. i : m[j] # Nul
CString(m) == SubSeq(m, 1, Length(m))

Value(o) == IF string[o] = NoBlock THEN <<>> ELSE CString(cells[string[o]])

\* s_strncpy, s_memcpy, s_memmove of the characters s to m + at
Put(m, at, s) == [i \in 1 .. Len(m) |-> IF i \in at + 1 .. at + Len(s) THEN s[i - at] ELSE m[i]]

Z(s) == Append(s, Nul)

Init ==
    /\ string = [o \in Objects |-> NoBlock]
    /\ owner \in [Objects -> Threads]
    /\ live = {}
    /\ refCnt = [b \in Blocks |-> 0]
    /\ cells = [b \in Blocks |-> <<>>]
    /\ pc = [t \in Threads |-> "idle"]
    /\ call = [t \in Threads |-> NoCall]
    /\ lench = [t \in Threads |-> 0]
    /\ buf = [t \in Threads |-> NoBlock]
    /\ seen = [o \in Objects |-> <<>>]

------------------------------------------------------------------------------
\* A call with its arguments; pos, len, text and from are 0, <<>> or obj where
\* it has none.  ScanString keeps in pos the field width and in text svchar.
Calls == [name : Names, obj : Objects, from : Objects,
          text : Texts \cup {<<>>} \cup {<<c>> : c \in Chars},
          pos : 0 .. MaxLen, len : 0 .. MaxLen + 1]

ASSUME NoCallAssumption == NoCall \notin Calls

\* the cells the call needs, the terminating 0 included
Need(c, n) ==
    CASE c.name \in {"SetString", "Fill"} -> Len(c.text) + 1
      [] c.name \in {"AppendString", "InsertString"} -> n + Len(c.text) + 1
      [] c.name = "DeleteString" -> IF c.pos + c.len >= n THEN c.pos + 1 ELSE n - c.len + 1
      [] c.name = "ToLowerCase" -> n + 1
      [] c.name = "SetSize" -> c.len

\* mutant: DeleteString from a shared string forgets what is before the position
Kept_NoHead(c, m, n) ==
    IF c.name = "DeleteString" /\ c.pos + c.len < n THEN SubSeq(m, c.pos + c.len + 1, n + 1)
    ELSE SubSeq(m, 1, IF Need(c, n) < n + 1 THEN Need(c, n) ELSE n + 1)

\* the characters the call takes over into a new block
Kept(c, m, n) ==
    CASE c.name \in {"AppendString", "InsertString", "ToLowerCase"} -> SubSeq(m, 1, n + 1)
      [] c.name \in {"Fill", "SetSize"} ->
            SubSeq(m, 1, IF Need(c, n) - 1 < n + 1 THEN Need(c, n) - 1 ELSE n + 1)
      [] c.name = "DeleteString" ->
            IF c.pos + c.len >= n THEN SubSeq(m, 1, c.pos)
            ELSE SubSeq(m, 1, c.pos) \o SubSeq(m, c.pos + c.len + 1, n + 1)

\* what the call leaves in the cells m once it has them for itself
Edited(c, m, n) ==
    CASE c.name \in {"SetString", "Fill"} -> Put(m, 0, Z(c.text))
      [] c.name = "AppendString" -> Put(m, n, Z(c.text))
      [] c.name = "InsertString" ->
            Put(Put(m, c.pos + Len(c.text), SubSeq(m, c.pos + 1, n + 1)), c.pos, c.text)
      [] c.name = "DeleteString" ->
            Put(m, c.pos, IF c.pos + c.len >= n THEN <<Nul>>
                          ELSE SubSeq(m, c.pos + c.len + 1, n + 1))
      [] c.name = "ToLowerCase" ->
            [i \in 1 .. Len(m) |-> IF i <= Length(m) THEN Lower(m[i]) ELSE m[i]]
      [] c.name = "ScanString" -> Put(m, c.pos, <<Nul>>)

\* DeleteString from the middle of a shared string and SetSize write nothing more
CopyIsAll(c, n) == c.name = "SetSize" \/ (c.name = "DeleteString" /\ c.pos + c.len < n)

------------------------------------------------------------------------------
\* the thread goes on at p with lench = n; at "idle" its call is over
GoOn(t, p, n) ==
    /\ pc' = [pc EXCEPT ![t] = p]
    /\ lench' = [lench EXCEPT ![t] = IF p = "idle" THEN 0 ELSE n]
    /\ IF p = "idle"
       THEN /\ call' = [call EXCEPT ![t] = NoCall]
            /\ seen' = [o \in Objects |-> IF owner[o] = t THEN <<>> ELSE seen[o]]
       ELSE UNCHANGED <<call, seen>>
    /\ UNCHANGED owner

Start(t, c, p) ==
    /\ pc[t] = "idle" /\ owner[c.obj] = t
    /\ pc' = [pc EXCEPT ![t] = p]
    /\ call' = [call EXCEPT ![t] = c]
    /\ lench' = [lench EXCEPT ![t] = Len(Value(c.obj))]
    /\ seen' = [o \in Objects |-> IF owner[o] = t THEN Value(o) ELSE seen[o]]
    /\ UNCHANGED <<string, owner, memVars, buf>>

Plain(name, o) == [name |-> name, obj |-> o, from |-> o, text |-> <<>>, pos |-> 0, len |-> 0]

\* SetString(text), FormatString, SubString, the constructors from a text
CallSetString(t, o) ==
    \E s \in Texts : s # <<>> /\
        Start(t, [Plain("SetString", o) EXCEPT !.text = s],
              IF string[o] = NoBlock THEN "alloc" ELSE "count")

\* Fill, which calls SetSize
CallFill(t, o) ==
    \E s \in Texts : Cardinality({s[i] : i \in DOMAIN s}) <= 1 /\
        Start(t, [Plain("Fill", o) EXCEPT !.text = s],
              IF string[o] = NoBlock THEN "alloc" ELSE "count")

CallSetSize(t, o) ==
    \E n \in 1 .. MaxLen + 1 :
        Start(t, [Plain("SetSize", o) EXCEPT !.len = n],
              IF string[o] = NoBlock THEN "alloc" ELSE "count")

\* Clear, SetSize(0), SetString with no text, the destructor
CallClear(t, o) == string[o] # NoBlock /\ Start(t, Plain("Clear", o), "dec")

CallAppendString(t, o) ==
    \E s \in Texts : s # <<>> /\ Len(Value(o)) + Len(s) <= MaxLen /\
        Start(t, [Plain("AppendString", o) EXCEPT !.text = s],
              IF string[o] = NoBlock THEN "alloc" ELSE "count")

\* at or behind the end InsertString is AppendString
CallInsertString(t, o) ==
    \E s \in Texts : s # <<>> /\ Len(Value(o)) + Len(s) <= MaxLen /\
        \E pos \in 0 .. MaxLen : pos < Len(Value(o)) /\
            Start(t, [Plain("InsertString", o) EXCEPT !.text = s, !.pos = pos], "count")

\* ReplaceString and Trim are sequences of this and InsertString
CallDeleteString(t, o) ==
    \E pos \in 0 .. MaxLen, len \in 1 .. MaxLen : pos < Len(Value(o)) /\
        Start(t, [Plain("DeleteString", o) EXCEPT !.pos = pos, !.len = len], "count")

\* ToUpperCase, Split, SplitAny, SplitQuoted: the same steps, other characters
CallToLowerCase(t, o) == Value(o) # <<>> /\ Start(t, Plain("ToLowerCase", o), "count")

\* SetString(copy), operator =, the copy constructor.  A source that is NULL
\* clears, one that shares the block already is left alone.
CallCopy(t, o) ==
    \E from \in Objects : owner[from] = t /\ string[from] # string[o] /\
        Start(t, [Plain("Copy", o) EXCEPT !.from = from],
              IF string[o] # NoBlock THEN "dec" ELSE "share")

\* ScanString with %<width>d and the like
CallScanString(t, o) ==
    \E w \in Widths : w < Len(Value(o)) /\
        Start(t, [Plain("ScanString", o) EXCEPT !.pos = w, !.text = <<Value(o)[w + 1]>>], "write")

Begin(t, o) ==
    \/ "SetString" \in Names /\ CallSetString(t, o)
    \/ "Fill" \in Names /\ CallFill(t, o)
    \/ "SetSize" \in Names /\ CallSetSize(t, o)
    \/ "Clear" \in Names /\ CallClear(t, o)
    \/ "AppendString" \in Names /\ CallAppendString(t, o)
    \/ "InsertString" \in Names /\ CallInsertString(t, o)
    \/ "DeleteString" \in Names /\ CallDeleteString(t, o)
    \/ "ToLowerCase" \in Names /\ CallToLowerCase(t, o)
    \/ "Copy" \in Names /\ CallCopy(t, o)
    \/ "ScanString" \in Names /\ CallScanString(t, o)

------------------------------------------------------------------------------
\* SetSize, Fill and ToLowerCase measure the string only after TFrefcnt
MeasuresLate(c) == c.name \in {"SetSize", "Fill", "ToLowerCase"}

\* is the block large enough to be changed in place?  SetSize asks for one cell more.
Fits(c, n, room) ==
    IF c.name \in {"SetSize", "Fill"} THEN Need(c, n) < room ELSE Need(c, n) <= room

\* mutant: the count is not asked, only the size
Mine_SizeOnly(c, b, n) == Fits(c, n, Len(cells[b]))

\* may the block be changed in place?
Mine(c, b, n) == Fits(c, n, Len(cells[b])) /\ refCnt[b] <= 1

\* TFsize and TFrefcnt of the block, and what is decided on them
Count(t) ==
    LET c == call[t]
        b == string[c.obj]
        n == IF MeasuresLate(c) THEN Length(cells[b]) ELSE lench[t]
        mine == Mine(c, b, n)
    IN /\ pc[t] = "count"
       /\ GoOn(t, CASE mine /\ c.name = "SetSize" -> "idle"
                    [] mine /\ c.name # "SetSize" -> "write"
                    [] ~mine /\ c.name = "SetString" -> "dec"
                    [] OTHER -> "alloc", n)
       /\ UNCHANGED <<string, memVars, buf>>

\* TFalloc; an object that has no block takes the new one at once
Alloc(t) ==
    LET o == call[t].obj IN
    /\ pc[t] = "alloc"
    /\ \E b \in Blocks \ live, more \in 0 .. Slack :
        /\ live' = live \cup {b}
        /\ refCnt' = [refCnt EXCEPT ![b] = 1]
        /\ cells' = [cells EXCEPT ![b] = [i \in 1 .. Need(call[t], lench[t]) + more |-> Nul]]
        /\ IF string[o] = NoBlock
           THEN /\ string' = [string EXCEPT ![o] = b]
                /\ GoOn(t, IF call[t].name = "SetSize" THEN "idle" ELSE "write", lench[t])
                /\ UNCHANGED buf
           ELSE /\ buf' = [buf EXCEPT ![t] = b]
                /\ GoOn(t, "copy", lench[t])
                /\ UNCHANGED string

\* the characters that are kept, read from the block other objects may use too
CopyChars(t) ==
    /\ pc[t] = "copy"
    /\ cells' = [cells EXCEPT ![buf[t]] =
                    Put(@, 0, Kept(call[t], cells[string[call[t].obj]], lench[t]))]
    /\ GoOn(t, "dec", lench[t])
    /\ UNCHANGED <<string, live, refCnt, buf>>

\* mutant: TFfree whatever the count is
DecRefCnt_FreesAnyway(t) ==
    /\ pc[t] = "dec"
    /\ refCnt' = [refCnt EXCEPT ![string[call[t].obj]] = @ - 1]
    /\ GoOn(t, "free", lench[t])
    /\ UNCHANGED <<string, live, cells, buf>>

\* mutant: TFdecrefcnt alone is taken to give the block back
DecRefCnt_NeverFrees(t) ==
    /\ pc[t] = "dec"
    /\ refCnt' = [refCnt EXCEPT ![string[call[t].obj]] = @ - 1]
    /\ GoOn(t, "drop", lench[t])
    /\ UNCHANGED <<string, live, cells, buf>>

\* _free_Buffer: TFdecrefcnt, which knows only the blocks that are handed out ...
DecRefCnt(t) ==
    LET b == string[call[t].obj] IN
    /\ pc[t] = "dec"
    /\ refCnt' = IF b \in live THEN [refCnt EXCEPT ![b] = @ - 1] ELSE refCnt
    /\ GoOn(t, IF b \in live /\ refCnt[b] > 1 THEN "drop" ELSE "free", lench[t])
    /\ UNCHANGED <<string, live, cells, buf>>

\* ... TFfree when the count is 0 ...
FreeBlock(t) ==
    LET b == string[call[t].obj] IN
    /\ pc[t] = "free"
    /\ live' = live \ {b}
    /\ refCnt' = [refCnt EXCEPT ![b] = 0]
    /\ cells' = [cells EXCEPT ![b] = <<>>]
    /\ GoOn(t, "drop", lench[t])
    /\ UNCHANGED <<string, buf>>

\* ... _string = NULL, and then the new buffer if there is one
Drop(t) ==
    LET c == call[t] IN
    /\ pc[t] = "drop"
    /\ string' = [string EXCEPT ![c.obj] = buf[t]]
    /\ buf' = [buf EXCEPT ![t] = NoBlock]
    /\ GoOn(t, CASE c.name = "SetString" -> "alloc"
                 [] c.name = "Copy" /\ string[c.from] # NoBlock -> "share"
                 [] c.name \notin {"Clear", "Copy", "SetString"} /\ ~CopyIsAll(c, lench[t]) -> "write"
                 [] OTHER -> "idle", lench[t])
    /\ UNCHANGED memVars

\* _string = copy._string
Share(t) ==
    /\ pc[t] = "share"
    /\ string' = [string EXCEPT ![call[t].obj] = string[call[t].from]]
    /\ GoOn(t, "addref", lench[t])
    /\ UNCHANGED <<memVars, buf>>

\* mutant: the copy is not counted
AddRef_Missing(t) ==
    pc[t] = "addref" /\ GoOn(t, "idle", lench[t]) /\ UNCHANGED <<string, memVars, buf>>

\* addRef(): TFincrefcnt
AddRef(t) ==
    /\ pc[t] = "addref"
    /\ refCnt' = [refCnt EXCEPT ![string[call[t].obj]] = @ + 1]
    /\ GoOn(t, "idle", lench[t])
    /\ UNCHANGED <<string, live, cells, buf>>

\* the characters are changed in place
Write(t) ==
    LET c == call[t] IN
    /\ pc[t] = "write"
    /\ cells' = [cells EXCEPT ![string[c.obj]] = Edited(c, @, lench[t])]
    /\ GoOn(t, IF c.name = "ScanString" THEN "restore" ELSE "idle", lench[t])
    /\ UNCHANGED <<string, live, refCnt, buf>>

\* ScanString: *(pS + fieldwidth) = svchar
Restore(t) ==
    LET c == call[t] IN
    /\ pc[t] = "restore"
    /\ cells' = [cells EXCEPT ![string[c.obj]] = Put(@, c.pos, c.text)]
    /\ GoOn(t, "idle", lench[t])
    /\ UNCHANGED <<string, live, refCnt, buf>>

\* an object is handed to another thread between two calls
Give(o, t) ==
    /\ pc[owner[o]] = "idle" /\ pc[t] = "idle" /\ owner[o] # t
    /\ owner' = [owner EXCEPT ![o] = t]
    /\ UNCHANGED <<string, memVars, pc, call, localVars>>

Step(t) ==
    \/ Count(t) \/ Alloc(t) \/ CopyChars(t) \/ DecRefCnt(t) \/ FreeBlock(t) \/ Drop(t)
    \/ Share(t) \/ AddRef(t) \/ Write(t) \/ Restore(t)

Next ==
    \E t \in Threads :
        \/ \E o \in Objects : Begin(t, o) \/ Give(o, t)
        \/ Step(t)

Spec == Init /\ [][Next]_vars

------------------------------------------------------------------------------
\* pointers, counts and where the threads are
LinkTypeOK ==
    /\ string \in [Objects -> Blocks \cup {NoBlock}]
    /\ owner \in [Objects -> Threads]
    /\ live \subseteq Blocks
    /\ refCnt \in [Blocks -> Nat]
    /\ pc \in [Threads -> Pcs]
    /\ buf \in [Threads -> Blocks \cup {NoBlock}]

\* characters, lengths and arguments
TextTypeOK ==
    /\ cells \in [Blocks -> Seq(Chars \cup {Nul})]
    /\ call \in [Threads -> Calls \cup {NoCall}]
    /\ lench \in [Threads -> Nat]
    /\ seen \in [Objects -> Seq(Chars)]

\* Every variable has its type: counts are never below 0, an object points to a
\* block or to none, every character is one or the terminating 0.
TypeOK == LinkTypeOK /\ TextTypeOK

\* where a thread's object points to a block it is not, or no longer, counted for
Uncounted == {"free", "drop", "addref"}

\* the objects TFincrefcnt was called for, or that got the block from TFalloc
Holders(b) == {o \in Objects : string[o] = b /\
    ~ \E t \in Threads : pc[t] \in Uncounted /\ call[t].obj = o}

\* The count of a block in use is the number of objects that hold it, plus the
\* thread that is filling it: _free_Buffer (92-102), addRef and _alloc_Buffer2
\* (80-90) of all threads together never lose or gain one.
RefCountsHolders ==
    \A b \in live : refCnt[b] = Cardinality(Holders(b)) + Cardinality({t \in Threads : buf[t] = b})

\* No object a thread may look at points to a block that TFfree got back, and
\* every block in use can still be given back by somebody.
NoneFreedNoneLost ==
    /\ \A b \in Blocks : Holders(b) # {} => b \in live
    /\ \A b \in live : \/ Holders(b) # {}
                       \/ \E t \in Threads : buf[t] = b
                       \/ \E t \in Threads : pc[t] = "free" /\ string[call[t].obj] = b

\* When a call writes characters in place no other object holds the block, although
\* the count it decided on was read before the lock was released (TFrefcnt).  Only
\* ScanString does not ask: see ScanIsConst.
WritesItsOwn ==
    \A t \in Threads : pc[t] = "write" /\ call[t].name # "ScanString" =>
        Holders(string[call[t].obj]) = {call[t].obj}

\* ScanString is declared const (StringBuffer.h:84-85): while it runs, no object of a
\* thread that is not in a call changes.
ScanIsConst ==
    \A t \in Threads : pc[t] = "restore" =>
        \A o \in Objects :
            string[o] = string[call[t].obj] /\ pc[owner[o]] = "idle" => Value(o) = seen[call[t].obj]

\* What the objects are for their users: an object whose owner is in a call is
\* still what it was when the call began.
Values == INSTANCE StringValues WITH
    val <- [o \in Objects |-> IF pc[owner[o]] = "idle" THEN Value(o) ELSE seen[o]],
    running <- call

\* Strings that share memory behave as strings of their own: every call of every
\* thread ends with the value it would give alone, and no other string changes.
IsStringValues == Values!Spec
=============================================================================
