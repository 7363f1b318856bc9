------------------------------- MODULE TFMem --------------------------------
(***************************************************************************)
(* The allocator of CSources/TFMEM.C, release build, __MT__.               *)
(*                                                                         *)
(* A region is one block got from malloc.  An item is a MEMITEM header at  *)
(* <<region, offset>> followed by its payload; it is in _defaultpoola      *)
(* while it is handed out and in _defaultpoolf while it is not.  Small     *)
(* requests are served from a region cut into MAX_MEMITEMS items, the      *)
(* first of which carries mode ALLOCBLOCK.  TFLOCK is held over every      *)
(* operation (TFrealloc: three times), so each is one step; what is not    *)
(* under the lock is the test for the pools and their creation.            *)
(*                                                                         *)
(* The B-trees are the sets of items they hold.  A search for a size looks *)
(* into one leaf, the last whose key is not above it                       *)
(* (_TFBTreeLowerBoundHelper), and a key may be that of an item that left  *)
(* the tree (_TFBTreeRemove, line 641) and was made smaller since: what it *)
(* meets first is any item that fits, or none although there is one.       *)
(***************************************************************************)
EXTENDS Naturals, FiniteSets, Sequences, FiniteSetsExt

CONSTANTS
    Threads,
    Starters,      \* threads that may call TFalloc before the pools exist
    Requests,      \* the sizes asked for
    HeaderSize,    \* sizeof(MEMITEM)
    MAX_MEMITEMS,
    MidLimit, SmallLimit,              \* 256 and 1024
    SmallGrain, MidGrain, LargeGrain,  \* 16, 32 and 4
    Slack,         \* 16, what TFrealloc leaves unused
    MaxHeap,       \* bound: malloc gives no more bytes than that
    MaxRefs,       \* bound: refCnt
    MaxHeld,       \* bound: blocks held when a thread calls TFalloc
    NoItem         \* LPtrCheck(result)

ASSUME SizesAssumption ==
    /\ Requests \subseteq Nat \ {0}
    /\ {HeaderSize, MAX_MEMITEMS, SmallGrain, MidGrain, LargeGrain} \subseteq Nat \ {0}
    /\ {MidLimit, SmallLimit, Slack, MaxHeap, MaxRefs, MaxHeld} \subseteq Nat
    /\ Starters \subseteq Threads
    /\ NoItem \notin (Nat \X Nat)

VARIABLES
    regions,       \* the length of every block got from malloc
    poolaOpen, poolfOpen,          \* _defaultpoola, _defaultpoolf # NULL
    defaultpoola, defaultpoolf,    \* the items in them
    item,          \* header of every item ever laid out
    dirty,         \* bytes <<region, position>> that are not zero
    owners,        \* per item: the threads that hold a reference
    asked,         \* per item: the size its owner may use
    filled,        \* per item: how many of its bytes were written (history)
    pc, sz, ptr,   \* per thread: the call it is in and its arguments
    newp           \* per thread: p1 of TFrealloc

poolVars == <<poolaOpen, poolfOpen, defaultpoola, defaultpoolf>>
heapVars == <<regions, item, dirty>>
ownerVars == <<owners, asked, filled>>
callVars == <<pc, sz, ptr, newp>>
vars == <<poolVars, heapVars, ownerVars, callVars>>

Modes == {"SMALLBLOCK", "LARGEBLOCK", "ALLOCBLOCK"}
Pcs == {"idle", "openA", "openF", "test", "alloc", "reallocAlloc", "reallocCopy", "free"}

NoFunction == [p \in {} |-> 0]
\* f with the value v at p
With(f, p, v) == [q \in DOMAIN f \cup {p} |-> IF q = p THEN v ELSE f[q]]

Init ==
    /\ regions = <<>>
    /\ poolaOpen = FALSE /\ poolfOpen = FALSE
    /\ defaultpoola = {} /\ defaultpoolf = {}
    /\ item = NoFunction /\ dirty = {}
    /\ owners = NoFunction /\ asked = NoFunction /\ filled = NoFunction
    /\ pc = [t \in Threads |-> "idle"]
    /\ sz = [t \in Threads |-> 0]
    /\ ptr = [t \in Threads |-> NoItem]
    /\ newp = [t \in Threads |-> NoItem]

-----------------------------------------------------------------------------
(* Layout                                                                  *)

\* fault: rounds down
RoundTo_Down(n, grain) == (n \div grain) * grain

RoundTo(n, grain) == ((n + grain - 1) \div grain) * grain

BufSize(n) ==
    IF n < MidLimit THEN RoundTo(n, SmallGrain)
    ELSE IF n < SmallLimit THEN RoundTo(n, MidGrain)
    ELSE RoundTo(n, LargeGrain)

IsSmall(n) == n < SmallLimit

Region(p) == p[1]
Offset(p) == p[2]
PayloadStart(p) == Offset(p) + HeaderSize
\* the first n payload bytes of p
Payload(p, n) == {Region(p)} \X (PayloadStart(p) .. (PayloadStart(p) + n - 1))
Extent(p) == Offset(p) .. (PayloadStart(p) + item[p].size - 1)

\* a search of the free items that would do with any of fit may miss them
MayMiss(fit) == defaultpoolf = {} \/ fit # defaultpoolf

Exact(n) == {p \in defaultpoolf : item[p].size = n}
Fitting(S, n) == {p \in S : item[p].size >= n}

\* the walk from the lower bound of n to the first item of S, S being all
\* free items or those that are not SMALLBLOCK
LowerBound(S, n) == Fitting(S, n) \cup (IF MayMiss(Fitting(S, n)) THEN {NoItem} ELSE {})

-----------------------------------------------------------------------------
(* Calls.  A thread calls with blocks it holds a reference to.             *)

Ready(t) == pc[t] = "idle" /\ poolaOpen /\ poolfOpen
Owns(t, p) == p \in DOMAIN owners /\ t \in owners[p]

Return(t) ==
    /\ pc' = [pc EXCEPT ![t] = "idle"]
    /\ sz' = [sz EXCEPT ![t] = 0]
    /\ ptr' = [ptr EXCEPT ![t] = NoItem]
    /\ newp' = [newp EXCEPT ![t] = NoItem]

Goto(t, label) == pc' = [pc EXCEPT ![t] = label]

Held == {p \in DOMAIN owners : owners[p] # {}}

\* the first call of TFalloc: _TFinit when there is no _defaultpoola
CallAlloc(t) ==
    \E n \in Requests :
        /\ pc[t] = "idle" /\ t \in Starters /\ ~(poolaOpen /\ poolfOpen)
        /\ sz' = [sz EXCEPT ![t] = n]
        /\ Goto(t, IF poolaOpen THEN "test" ELSE "openA")
        /\ UNCHANGED <<poolVars, heapVars, ownerVars, ptr, newp>>

\* _TFinit takes no lock; whatever the pools held is forgotten
OpenA(t) ==
    /\ pc[t] = "openA"
    /\ poolaOpen' = TRUE /\ defaultpoola' = {}
    /\ Goto(t, "openF")
    /\ UNCHANGED <<poolfOpen, defaultpoolf, heapVars, ownerVars, sz, ptr, newp>>

OpenF(t) ==
    /\ pc[t] = "openF"
    /\ poolfOpen' = TRUE /\ defaultpoolf' = {}
    /\ Goto(t, "test")
    /\ UNCHANGED <<poolaOpen, defaultpoola, heapVars, ownerVars, sz, ptr, newp>>

TestPools(t) ==
    /\ pc[t] = "test"
    /\ \/ poolaOpen /\ poolfOpen /\ Goto(t, "alloc") /\ UNCHANGED <<sz, ptr, newp>>
       \/ ~(poolaOpen /\ poolfOpen) /\ Return(t)
    /\ UNCHANGED <<poolVars, heapVars, ownerVars>>

-----------------------------------------------------------------------------
(* The locked part of TFalloc                                              *)

\* t is in TFalloc with size n, called by itself or by TFrealloc
Alloc(t, n) ==
    \/ Ready(t) /\ n \in Requests /\ Cardinality(Held) < MaxHeld
    \/ pc[t] \in {"alloc", "reallocAlloc"} /\ n = sz[t]

\* item p is handed to t; inside TFrealloc the old block is copied next
HandOut(t, p, n) ==
    /\ asked' = With(asked, p, n) /\ filled' = With(filled, p, 0)
    /\ \/ /\ pc[t] # "reallocAlloc"
          /\ owners' = With(owners, p, {t})
          /\ Return(t)
       \/ /\ pc[t] = "reallocAlloc"
          /\ owners' = With(owners, p, {})
          /\ newp' = [newp EXCEPT ![t] = p]
          /\ Goto(t, "reallocCopy") /\ UNCHANGED <<sz, ptr>>

\* fault: the zeroed header is not counted up
Header_NoRef(size, mode) == [size |-> size, refCnt |-> 0, mode |-> mode]

Header(size, mode) == [size |-> size, refCnt |-> 1, mode |-> mode]

HeapUsed == MapThenSumSet(LAMBDA r : regions[r], DOMAIN regions)
\* malloc gives a region of n bytes, which are zeroed, or NULL
Malloc(n) == HeapUsed + n <= MaxHeap /\ regions' = Append(regions, n)
NewRegion == <<Len(regions) + 1, 0>>

\* the free items a block for MAX_MEMITEMS items may be cut from
Cuttable == {p \in defaultpoolf : item[p].mode # "SMALLBLOCK"}
CutSize(n) == (BufSize(n) + HeaderSize) * MAX_MEMITEMS

AllocFails(t, n) ==
    /\ Alloc(t, n)
    /\ \/ ~IsSmall(n) /\ NoItem \in LowerBound(defaultpoolf, BufSize(n))
       \/ /\ IsSmall(n)
          /\ MayMiss(Exact(BufSize(n)))
          /\ NoItem \in LowerBound(Cuttable, CutSize(n))
    /\ Return(t)
    /\ UNCHANGED <<poolVars, heapVars, ownerVars>>

\* sz >= SmallLimit: the smallest free item that is large enough, of any mode
AllocLargeReused(t, n) ==
    /\ Alloc(t, n) /\ ~IsSmall(n)
    /\ \E p \in LowerBound(defaultpoolf, BufSize(n)) \ {NoItem} :
          /\ item' = [item EXCEPT ![p].size = BufSize(n), ![p].refCnt = 1]
          /\ defaultpoolf' = defaultpoolf \ {p}
          /\ defaultpoola' = defaultpoola \cup {p}
          /\ HandOut(t, p, n)
    /\ UNCHANGED <<poolaOpen, poolfOpen, regions, dirty>>

AllocLargeNew(t, n) ==
    /\ Alloc(t, n) /\ ~IsSmall(n)
    /\ NoItem \in LowerBound(defaultpoolf, BufSize(n))
    /\ Malloc(BufSize(n) + HeaderSize)
    /\ item' = With(item, NewRegion, Header(BufSize(n), "LARGEBLOCK"))
    /\ defaultpoola' = defaultpoola \cup {NewRegion}
    /\ HandOut(t, NewRegion, n)
    /\ UNCHANGED <<poolaOpen, poolfOpen, defaultpoolf, dirty>>

\* sz < SmallLimit: a free item of exactly this size
AllocSmallReused(t, n) ==
    /\ Alloc(t, n) /\ IsSmall(n)
    /\ \E p \in Exact(BufSize(n)) :
          /\ item' = [item EXCEPT ![p].refCnt = 1]
          /\ defaultpoolf' = defaultpoolf \ {p}
          /\ defaultpoola' = defaultpoola \cup {p}
          /\ HandOut(t, p, n)
    /\ UNCHANGED <<poolaOpen, poolfOpen, regions, dirty>>

\* fault: one item too many
Siblings_OneMore(p, size) ==
    {<<Region(p), Offset(p) + k * (size + HeaderSize)>> : k \in 1 .. MAX_MEMITEMS}

\* the items that follow p when its block is cut into items of size bytes
Siblings(p, size) ==
    {<<Region(p), Offset(p) + k * (size + HeaderSize)>> : k \in 1 .. (MAX_MEMITEMS - 1)}

\* fault: the first item keeps the mode of zeroed memory
Cut_NoMode(t, p, n) ==
    LET new == Siblings(p, BufSize(n))
    IN  /\ item' = [q \in DOMAIN item \cup new \cup {p} |->
                       IF q \in new \cup {p} THEN Header(BufSize(n), "SMALLBLOCK") ELSE item[q]]
        /\ defaultpoolf' = (defaultpoolf \ {p}) \cup new
        /\ defaultpoola' = defaultpoola \cup {p}
        /\ HandOut(t, p, n)

\* p becomes the first item of a cut block and is handed out
Cut(t, p, n) ==
    LET new == Siblings(p, BufSize(n))
    IN  /\ item' = [q \in DOMAIN item \cup new \cup {p} |->
                       IF q = p THEN Header(BufSize(n), "ALLOCBLOCK")
                       ELSE IF q \in new THEN Header(BufSize(n), "SMALLBLOCK") ELSE item[q]]
        /\ defaultpoolf' = (defaultpoolf \ {p}) \cup new
        /\ defaultpoola' = defaultpoola \cup {p}
        /\ HandOut(t, p, n)

\* none found: cut a free block that is no SMALLBLOCK ...
AllocSmallCut(t, n) ==
    /\ Alloc(t, n) /\ IsSmall(n)
    /\ MayMiss(Exact(BufSize(n)))
    /\ \E p \in LowerBound(Cuttable, CutSize(n)) \ {NoItem} : Cut(t, p, n)
    /\ UNCHANGED <<poolaOpen, poolfOpen, regions, dirty>>

\* ... or a new one
AllocSmallNew(t, n) ==
    /\ Alloc(t, n) /\ IsSmall(n)
    /\ MayMiss(Exact(BufSize(n)))
    /\ NoItem \in LowerBound(Cuttable, CutSize(n))
    /\ Malloc(CutSize(n))
    /\ Cut(t, NewRegion, n)
    /\ UNCHANGED <<poolaOpen, poolfOpen, dirty>>

-----------------------------------------------------------------------------
(* TFfree, TFincrefcnt, TFdecrefcnt and TFrealloc                          *)

\* a reference is passed on, as CStringBuffer::addRef does: TFincrefcnt
Share(t) ==
    \E p \in DOMAIN owners, u \in Threads :
        /\ Ready(t) /\ Owns(t, p) /\ u \notin owners[p] /\ item[p].refCnt < MaxRefs
        /\ item' = [item EXCEPT ![p].refCnt = @ + 1]
        /\ owners' = [owners EXCEPT ![p] = @ \cup {u}]
        /\ UNCHANGED <<poolVars, regions, dirty, asked, filled, callVars>>

\* fault: every release frees
Release_Frees(t) ==
    \E p \in DOMAIN owners :
        /\ Ready(t) /\ Owns(t, p)
        /\ owners' = [owners EXCEPT ![p] = @ \ {t}]
        /\ Goto(t, "free") /\ ptr' = [ptr EXCEPT ![t] = p]
        /\ UNCHANGED <<poolVars, heapVars, asked, filled, sz, newp>>

\* TFdecrefcnt; the caller frees when it returns 0 (CStringBuffer::_free_Buffer)
Release(t) ==
    \E p \in DOMAIN owners :
        /\ Ready(t) /\ Owns(t, p)
        /\ owners' = [owners EXCEPT ![p] = @ \ {t}]
        /\ \/ /\ p \in defaultpoola
              /\ item' = [item EXCEPT ![p].refCnt = @ - 1]
              /\ \/ /\ item[p].refCnt = 1 /\ Goto(t, "free")
                    /\ ptr' = [ptr EXCEPT ![t] = p] /\ UNCHANGED <<sz, newp>>
                 \/ item[p].refCnt # 1 /\ UNCHANGED callVars
           \/ /\ p \notin defaultpoola /\ Goto(t, "free")
              /\ ptr' = [ptr EXCEPT ![t] = p] /\ UNCHANGED <<sz, newp, item>>
        /\ UNCHANGED <<poolVars, regions, dirty, asked, filled>>

\* TFfree, or TFrealloc to 0 bytes, by the only owner
GiveUp(t) ==
    \E p \in DOMAIN owners :
        /\ Ready(t) /\ owners[p] = {t}
        /\ owners' = [owners EXCEPT ![p] = {}]
        /\ Goto(t, "free") /\ ptr' = [ptr EXCEPT ![t] = p]
        /\ UNCHANGED <<poolVars, heapVars, asked, filled, sz, newp>>

\* fault: no memset
Wiped_Nothing(p) == {}
\* fault: counts the reference down once more
Reset_CountsDown(p) == [item[p] EXCEPT !.refCnt = @ - 1]

\* what TFfree zeroes, and the header it leaves
Wiped(p) == Payload(p, item[p].size)
Reset(p) == [item[p] EXCEPT !.refCnt = 1]

\* TFfree; a pointer that is not in _defaultpoola is ignored
Free(t) ==
    /\ pc[t] = "free"
    /\ \/ /\ ptr[t] \in defaultpoola
          /\ item' = [item EXCEPT ![ptr[t]] = Reset(ptr[t])]
          /\ dirty' = dirty \ Wiped(ptr[t])
          /\ defaultpoola' = defaultpoola \ {ptr[t]}
          /\ defaultpoolf' = defaultpoolf \cup {ptr[t]}
       \/ /\ ptr[t] \notin defaultpoola
          /\ UNCHANGED <<item, dirty, defaultpoola, defaultpoolf>>
    /\ asked' = [asked EXCEPT ![ptr[t]] = 0] /\ filled' = [filled EXCEPT ![ptr[t]] = 0]
    /\ Return(t)
    /\ UNCHANGED <<poolaOpen, poolfOpen, regions, owners>>

\* the owner fills what it asked for
Write(t) ==
    \E p \in DOMAIN owners :
        /\ pc[t] = "idle" /\ Owns(t, p)
        /\ dirty' = dirty \cup Payload(p, asked[p])
        /\ filled' = [filled EXCEPT ![p] = Max({@, asked[p]})]
        /\ UNCHANGED <<poolVars, regions, item, owners, asked, callVars>>

\* TFrealloc, by the only owner: the pointers of others would dangle.  A block
\* at most Slack bytes too large stays (the difference is unsigned).
ReallocTest(t) ==
    \E p \in DOMAIN owners, n \in Requests :
        /\ Ready(t) /\ owners[p] = {t}
        /\ \/ /\ item[p].size >= n /\ item[p].size - n <= Slack
              /\ asked' = [asked EXCEPT ![p] = n]
              /\ UNCHANGED callVars
           \/ /\ ~(item[p].size >= n /\ item[p].size - n <= Slack)
              /\ sz' = [sz EXCEPT ![t] = n]
              /\ ptr' = [ptr EXCEPT ![t] = p]
              /\ Goto(t, "reallocAlloc") /\ UNCHANGED <<newp, asked>>
        /\ UNCHANGED <<poolVars, heapVars, owners, filled>>

\* fault: zeroes all of the new block
Copied_Zeroed(p, q, n) == {}

\* the bytes of q that are not zero once the first n of p are copied there
Copied(p, q, n) ==
    {b \in Payload(q, Min({item[p].size, n})) :
        <<Region(p), PayloadStart(p) + (b[2] - PayloadStart(q))>> \in dirty}

\* reference count and contents go to the new block, the rest of it is zeroed
ReallocCopy(t) ==
    LET p == ptr[t]
        q == newp[t]
    IN  /\ pc[t] = "reallocCopy"
        /\ item' = [item EXCEPT ![q].refCnt = item[p].refCnt]
        /\ dirty' = (dirty \ Payload(q, sz[t])) \cup Copied(p, q, sz[t])
        /\ owners' = [owners EXCEPT ![q] = owners[p], ![p] = {}]
        /\ filled' = [filled EXCEPT ![q] = Min({filled[p], sz[t]})]
        /\ Goto(t, "free") /\ UNCHANGED <<sz, ptr, newp>>
        /\ UNCHANGED <<poolVars, regions, asked>>

-----------------------------------------------------------------------------
Allocating(t) ==
    \E n \in Requests :
        \/ AllocFails(t, n) \/ AllocLargeReused(t, n) \/ AllocLargeNew(t, n)
        \/ AllocSmallReused(t, n) \/ AllocSmallCut(t, n) \/ AllocSmallNew(t, n)

Next ==
    \E t \in Threads :
        \/ CallAlloc(t) \/ OpenA(t) \/ OpenF(t) \/ TestPools(t) \/ Allocating(t)
        \/ Share(t) \/ Release(t) \/ GiveUp(t) \/ Free(t) \/ Write(t)
        \/ ReallocTest(t) \/ ReallocCopy(t)

Spec == Init /\ [][Next]_vars

-----------------------------------------------------------------------------
Items == defaultpoola \cup defaultpoolf

\* Every header lies in a region that was got from malloc and has its type; the
\* pools hold items only.
TypeOK ==
    /\ regions \in Seq(Nat)
    /\ poolaOpen \in BOOLEAN /\ poolfOpen \in BOOLEAN
    /\ Items \subseteq DOMAIN item
    /\ \A p \in DOMAIN item :
          /\ Region(p) \in 1 .. Len(regions) /\ Offset(p) \in Nat
          /\ item[p] \in [size : Nat, refCnt : Nat, mode : Modes]
    /\ DOMAIN owners \subseteq DOMAIN item /\ DOMAIN asked = DOMAIN owners
    /\ pc \in [Threads -> Pcs]

\* No two items overlap, header and payload, and none reaches past its region,
\* however often blocks were handed back, reused for smaller requests and cut.
ItemsDisjoint ==
    /\ \A p \in Items : PayloadStart(p) + item[p].size <= regions[Region(p)]
    /\ \A p, q \in Items : (p # q /\ Region(p) = Region(q)) => Extent(p) \cap Extent(q) = {}

\* An owner may use as many bytes as it asked for.
BigEnough == \A p \in DOMAIN owners : owners[p] # {} => p \in defaultpoola /\ asked[p] <= item[p].size

\* _TFexit frees what carries LARGEBLOCK or ALLOCBLOCK: that is each region,
\* once, by the address malloc gave.
ExitFreesEachRegionOnce ==
    /\ \A p \in Items : item[p].mode # "SMALLBLOCK" => Offset(p) = 0
    /\ \A r \in 1 .. Len(regions) : \E p \in Items : p = <<r, 0>> /\ item[p].mode # "SMALLBLOCK"

\* A free block is zero, so every block TFalloc hands out is.
FreeIsZero == \A p \in defaultpoolf : Payload(p, item[p].size) \cap dirty = {}

\* the calls that are to free p, or to fill it for TFrealloc
Handling(p) == {t \in Threads : \/ pc[t] = "free" /\ ptr[t] = p
                                \/ pc[t] = "reallocCopy" /\ newp[t] = p}

\* No block is given away, lost or freed twice: a block that is handed out has
\* owners, and refCnt counts them (the block TFrealloc is moving included), or
\* it has none and is the matter of exactly one call under way (TFdecrefcnt and
\* TFfree are two locked sections, TFrealloc is three).
RefCountsOwners ==
    /\ defaultpoola \cap defaultpoolf = {}
    /\ \A p \in defaultpoola \cap DOMAIN owners :
          IF owners[p] = {} THEN Cardinality(Handling(p)) = 1
          ELSE Handling(p) = {} /\ item[p].refCnt = Cardinality(owners[p])

\* What an owner wrote is in its block, and what it did not write is zero, from
\* TFalloc through every TFrealloc, in place or moved over three locked sections,
\* whatever the others allocate, cut, write, move and free meanwhile.
ContentsKept ==
    \A p \in DOMAIN owners : owners[p] # {} =>
        /\ filled[p] <= item[p].size
        /\ Payload(p, item[p].size) \cap dirty = Payload(p, filled[p])
=============================================================================
