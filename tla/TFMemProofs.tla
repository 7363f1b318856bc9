----------------------------- MODULE TFMemProofs -----------------------------
(***************************************************************************)
(* Proof of what TFMem promises, for any sizes, limits and numbers of      *)
(* threads and regions, as long as one thread makes the first call         *)
(* (OneStarter; two would create the pools twice, TFMEM.C line 1109).      *)
(*                                                                         *)
(* The blocks of a region lie one after the other (Apart).  To keep that   *)
(* over a cut, the pieces must lie inside the block that is cut.  What is  *)
(* written lies in blocks that are handed out, so the free ones stay zero; *)
(* that needs the owner's view (Own): every handed out block has an owner  *)
(* or is the one a call is about to free or to fill.  What is written in a *)
(* block that is handed out is a prefix of it (Contents), whoever has it.  *)
(***************************************************************************)
EXTENDS TFMem, FiniteSetTheorems, TLAPS

OneStarter == \A s, u \in Starters : s = u

Pointers == (Nat \X Nat) \cup {NoItem}

Types ==
    /\ pc \in [Threads -> Pcs] /\ sz \in [Threads -> Nat]
    /\ ptr \in [Threads -> Pointers] /\ newp \in [Threads -> Pointers]

Phase ==
    /\ poolaOpen \in BOOLEAN /\ poolfOpen \in BOOLEAN
    /\ poolfOpen => poolaOpen
    /\ ~poolfOpen => Items = {} /\ DOMAIN owners = {} /\ regions = <<>> /\ dirty = {}
    /\ \A t \in Threads : pc[t] = "openA" => t \in Starters /\ ~poolaOpen
    /\ \A t \in Threads : pc[t] = "openF" => t \in Starters /\ ~poolfOpen /\ poolaOpen
    /\ \A t \in Threads : pc[t] \in {"alloc", "reallocAlloc", "reallocCopy", "free"} => poolfOpen

Layout ==
    /\ regions \in Seq(Nat)
    /\ defaultpoola \cap defaultpoolf = {} /\ DOMAIN item = Items
    /\ \A p \in Items :
          /\ p \in Nat \X Nat /\ Region(p) \in 1 .. Len(regions)
          /\ item[p] \in [size : Nat, refCnt : Nat, mode : Modes]
          /\ PayloadStart(p) + item[p].size <= regions[Region(p)]

Beyond(p, q) == PayloadStart(p) + item[p].size <= Offset(q)

Apart == \A p, q \in Items : p # q /\ Region(p) = Region(q) => Beyond(p, q) \/ Beyond(q, p)

Zero == FreeIsZero /\ \A b \in dirty : b[1] \in 1 .. Len(regions)

Heap == Layout /\ Apart /\ ExitFreesEachRegionOnce /\ Zero

Owners ==
    /\ DOMAIN asked = DOMAIN owners /\ DOMAIN owners \subseteq Items /\ defaultpoola \subseteq DOMAIN owners
    /\ \A p \in DOMAIN owners :
          /\ IsFiniteSet(owners[p]) /\ owners[p] \subseteq Threads /\ asked[p] \in Nat
          /\ owners[p] # {} => p \in defaultpoola /\ item[p].refCnt = Cardinality(owners[p])
    /\ \A p \in defaultpoola : asked[p] <= item[p].size

\* the block a call is to free or to fill, that nobody owns
Mine(t) == IF pc[t] = "free" THEN {ptr[t]} ELSE IF pc[t] = "reallocCopy" THEN {newp[t]} ELSE {}

Orphans ==
    /\ \A t \in Threads : \A p \in Mine(t) : p \in defaultpoola /\ owners[p] = {}
    /\ \A t, u \in Threads : t # u => Mine(t) \cap Mine(u) = {}
    /\ \A p \in defaultpoola : owners[p] = {} => \E t \in Threads : p \in Mine(t)

Calls ==
    \A t \in Threads :
        /\ pc[t] \in {"openA", "openF", "test", "alloc", "reallocAlloc", "reallocCopy"} => sz[t] \in Requests
        /\ pc[t] \in {"reallocAlloc", "reallocCopy"} => ptr[t] \in DOMAIN owners /\ owners[ptr[t]] = {t}
        /\ pc[t] = "reallocCopy" => asked[newp[t]] = sz[t] /\ filled[newp[t]] = 0

Own == Owners /\ Orphans /\ Calls

Contents ==
    /\ DOMAIN filled = DOMAIN owners
    /\ \A p \in defaultpoola :
          /\ filled[p] \in Nat /\ filled[p] <= item[p].size
          /\ Payload(p, item[p].size) \cap dirty = Payload(p, filled[p])

IInv == Types /\ Phase /\ Heap /\ Own /\ Contents

-----------------------------------------------------------------------------
(* Sizes                                                                   *)

LEMMA Sizes ==
    /\ HeaderSize \in Nat \ {0} /\ MAX_MEMITEMS \in Nat \ {0}
    /\ SmallGrain \in Nat \ {0} /\ MidGrain \in Nat \ {0} /\ LargeGrain \in Nat \ {0}
    /\ MidLimit \in Nat /\ SmallLimit \in Nat /\ Slack \in Nat /\ MaxRefs \in Nat
    /\ Requests \subseteq Nat \ {0} /\ Starters \subseteq Threads /\ NoItem \notin Nat \X Nat
BY SizesAssumption DEF SizesAssumption

LEMMA RoundToIsEnough ==
    ASSUME NEW n \in Nat, NEW g \in Nat \ {0}
    PROVE  RoundTo(n, g) \in Nat /\ RoundTo(n, g) >= n
<1> DEFINE q == (n + g - 1) \div g
<1>1. q \in Nat /\ n + g - 1 = g * q + ((n + g - 1) % g) /\ (n + g - 1) % g \in 0 .. (g - 1)
  OBVIOUS
<1>2. q * g = g * q /\ q * g \in Nat
  BY <1>1
<1> QED  BY <1>1, <1>2 DEF RoundTo

\* TFalloc rounds up.
LEMMA BufSizeIsEnough ==
    ASSUME NEW n \in Requests
    PROVE  n \in Nat /\ BufSize(n) \in Nat /\ BufSize(n) >= n
<1>1. n \in Nat
  BY Sizes
<1> QED  BY <1>1, Sizes, RoundToIsEnough DEF BufSize

\* Pieces of s bytes lie one after the other.
LEMMA Pieces ==
    ASSUME NEW s \in Nat, NEW k \in Nat, NEW j \in Nat, k < j
    PROVE  k * s + s <= j * s
<1>1. PICK d \in Nat : j = k + 1 + d
  <2>1. j - k - 1 \in Nat /\ j = k + 1 + (j - k - 1)
    OBVIOUS
  <2> QED  BY <2>1
<1>2. j * s = k * s + s + d * s
  BY <1>1
<1>3. d * s \in Nat
  OBVIOUS
<1> QED  BY <1>2, <1>3

LEMMA InPayload ==
    ASSUME NEW p \in Nat \X Nat, NEW n \in Nat, NEW b \in Payload(p, n)
    PROVE  /\ b[1] = Region(p) /\ b[2] \in Nat
           /\ PayloadStart(p) <= b[2] /\ b[2] < PayloadStart(p) + n
BY Sizes DEF Payload, Region, PayloadStart, Offset

LEMMA AtPayload ==
    ASSUME NEW p \in Nat \X Nat, NEW k \in Nat, NEW n \in Nat
    PROVE  <<Region(p), PayloadStart(p) + k>> \in Payload(p, n) <=> k < n
<1>1. PayloadStart(p) \in Nat
  BY Sizes DEF PayloadStart, Offset
<1> QED  BY <1>1 DEF Payload

LEMMA FromPayload ==
    ASSUME NEW p \in Nat \X Nat, NEW n \in Nat, NEW b \in Payload(p, n)
    PROVE  \E k \in Nat : k < n /\ b = <<Region(p), PayloadStart(p) + k>>
<1>1. PayloadStart(p) \in Nat
  BY Sizes DEF PayloadStart, Offset
<1>2. b = <<Region(p), b[2]>> /\ b[2] \in PayloadStart(p) .. (PayloadStart(p) + n - 1)
  BY DEF Payload
<1>3. b[2] - PayloadStart(p) \in Nat /\ b[2] - PayloadStart(p) < n
      /\ b[2] = PayloadStart(p) + (b[2] - PayloadStart(p))
  BY <1>1, <1>2
<1> QED  BY <1>2, <1>3

\* A shorter prefix lies in a longer one.
LEMMA PayloadPrefix ==
    ASSUME NEW p \in Nat \X Nat, NEW n \in Nat, NEW m \in Nat, n <= m
    PROVE  Payload(p, n) \subseteq Payload(p, m)
<1>1. PayloadStart(p) \in Nat
  BY Sizes DEF PayloadStart, Offset
<1> QED  BY <1>1 DEF Payload

LEMMA PayloadsApart ==
    ASSUME Layout, Apart, NEW p \in Items, NEW q \in Items, p # q,
           NEW n \in Nat, NEW m \in Nat, n <= item[p].size, m <= item[q].size
    PROVE  Payload(p, n) \cap Payload(q, m) = {}
<1> SUFFICES ASSUME NEW b \in Payload(p, n), b \in Payload(q, m) PROVE FALSE
  OBVIOUS
<1>1. p \in Nat \X Nat /\ q \in Nat \X Nat /\ item[p].size \in Nat /\ item[q].size \in Nat
  BY DEF Layout
<1>2. /\ b[1] = Region(p) /\ b[2] \in Nat /\ PayloadStart(p) <= b[2] /\ b[2] < PayloadStart(p) + n
      /\ b[1] = Region(q) /\ PayloadStart(q) <= b[2] /\ b[2] < PayloadStart(q) + m
  BY <1>1, InPayload
<1>3. Beyond(p, q) \/ Beyond(q, p)
  BY <1>2 DEF Apart
<1>4. PayloadStart(p) = Offset(p) + HeaderSize /\ PayloadStart(q) = Offset(q) + HeaderSize
      /\ Offset(p) \in Nat /\ Offset(q) \in Nat
  BY <1>1 DEF PayloadStart, Offset
<1> QED  BY <1>1, <1>2, <1>3, <1>4, Sizes DEF Beyond

-----------------------------------------------------------------------------
(* The properties are in the invariant                                     *)

LEMMA TypesFromIInv == IInv => TypeOK
BY DEF IInv, Types, Phase, Heap, Layout, Own, Owners, TypeOK, Region, Offset

LEMMA DisjointFromIInv == IInv => ItemsDisjoint
<1> SUFFICES ASSUME IInv PROVE ItemsDisjoint
  OBVIOUS
<1> USE DEF IInv, Heap
<1>1. \A p \in Items : PayloadStart(p) + item[p].size <= regions[Region(p)]
  BY DEF Layout
<1>2. ASSUME NEW p \in Items, NEW q \in Items, p # q, Region(p) = Region(q), NEW x \in Extent(p) \cap Extent(q)
      PROVE  FALSE
  <2>1. Beyond(p, q) \/ Beyond(q, p)
    BY <1>2 DEF Apart
  <2>2. Offset(p) \in Nat /\ Offset(q) \in Nat /\ item[p].size \in Nat /\ item[q].size \in Nat
    BY DEF Layout, Offset
  <2> QED  BY <1>2, <2>1, <2>2, Sizes DEF Extent, Beyond, PayloadStart
<1> QED  BY <1>1, <1>2 DEF ItemsDisjoint

LEMMA RestFromIInv ==
    IInv => BigEnough /\ ExitFreesEachRegionOnce /\ FreeIsZero
BY DEF IInv, Heap, Zero, Own, Owners, BigEnough

LEMMA RefCountsFromIInv == IInv => RefCountsOwners
<1> SUFFICES ASSUME IInv, NEW p \in defaultpoola \cap DOMAIN owners
             PROVE  IF owners[p] = {} THEN Cardinality(Handling(p)) = 1
                    ELSE Handling(p) = {} /\ item[p].refCnt = Cardinality(owners[p])
  BY DEF IInv, Heap, Layout, RefCountsOwners
<1>1. Handling(p) = {t \in Threads : p \in Mine(t)}
  BY DEF Handling, Mine
<1>2. CASE owners[p] = {}
  <2>1. PICK t \in Threads : p \in Mine(t)
    BY <1>2 DEF IInv, Own, Orphans
  <2>2. Handling(p) = {t}
    BY <1>1, <2>1 DEF IInv, Own, Orphans
  <2> QED  BY <1>2, <2>2, FS_Singleton
<1>3. CASE owners[p] # {}
  <2>1. Handling(p) = {}
    BY <1>1, <1>3 DEF IInv, Own, Orphans
  <2> QED  BY <1>3, <2>1 DEF IInv, Own, Owners
<1> QED  BY <1>2, <1>3

LEMMA ContentsFromIInv == IInv => ContentsKept
BY DEF IInv, Own, Owners, Contents, ContentsKept

LEMMA InitIInv == Init => IInv
<1> SUFFICES ASSUME Init PROVE IInv
  OBVIOUS
<1>1. Types
  BY DEF Init, Types, Pcs, Pointers
<1>2. Phase
  BY DEF Init, Phase, Items, NoFunction
<1>3. Heap
  BY DEF Init, Heap, Layout, Apart, ExitFreesEachRegionOnce, Zero, FreeIsZero, Items, NoFunction
<1>4. Own
  BY DEF Init, Own, Owners, Orphans, Calls, Mine, Items, NoFunction
<1>5. Contents
  BY DEF Init, Contents, NoFunction
<1> QED  BY <1>1, <1>2, <1>3, <1>4, <1>5 DEF IInv

-----------------------------------------------------------------------------
(* Steps that lay out no block                                             *)

\* Blocks that only shrink stay apart, whichever pool they are in.
LEMMA SameShape ==
    ASSUME Layout, Apart, ExitFreesEachRegionOnce,
           regions' = regions, Items' = Items, (defaultpoola \cap defaultpoolf = {})',
           DOMAIN item' = DOMAIN item,
           \A q \in Items : /\ item'[q] \in [size : Nat, refCnt : Nat, mode : Modes]
                            /\ item'[q].size <= item[q].size /\ item'[q].mode = item[q].mode
    PROVE  Layout' /\ Apart' /\ ExitFreesEachRegionOnce'
<1>1. \A q \in Items : /\ PayloadStart(q) \in Nat /\ Offset(q) \in Nat /\ regions[Region(q)] \in Nat
                       /\ item[q].size \in Nat /\ item'[q].size \in Nat
  <2>1. \A q \in Items : /\ q \in Nat \X Nat /\ Region(q) \in 1 .. Len(regions)
                         /\ item[q].size \in Nat /\ item'[q].size \in Nat
    BY DEF Layout
  <2>2. \A q \in Items : PayloadStart(q) \in Nat /\ Offset(q) \in Nat
    BY <2>1, Sizes DEF PayloadStart, Offset
  <2>3. \A q \in Items : regions[Region(q)] \in Nat
    BY <2>1 DEF Layout
  <2> QED  BY <2>1, <2>2, <2>3
<1>2. Layout'
  <2>1. /\ regions' \in Seq(Nat) /\ (defaultpoola \cap defaultpoolf = {})' /\ DOMAIN item' = Items'
    BY DEF Layout
  <2>2. ASSUME NEW q \in Items
        PROVE  /\ q \in Nat \X Nat /\ Region(q) \in 1 .. Len(regions')
               /\ PayloadStart(q) + item'[q].size <= regions'[Region(q)]
    <3>1. PayloadStart(q) + item[q].size <= regions[Region(q)] /\ item'[q].size <= item[q].size
      BY DEF Layout
    <3>2. \A s, b, c, r \in Nat : s + b <= r /\ c <= b => s + c <= r
      OBVIOUS
    <3>3. PayloadStart(q) + item'[q].size <= regions'[Region(q)]
      BY <1>1, <3>1, <3>2
    <3> QED  BY <3>3 DEF Layout
  <2> QED  BY <2>1, <2>2 DEF Layout
<1>3. Apart'
  <2>1. \A p, q \in Items : Beyond(p, q) => Beyond(p, q)'
    BY <1>1 DEF Beyond
  <2> QED  BY <2>1 DEF Apart
<1>4. ExitFreesEachRegionOnce'
  BY DEF ExitFreesEachRegionOnce
<1> QED  BY <1>2, <1>3, <1>4

LEMMA SameHeap == ASSUME Heap, UNCHANGED <<regions, item, dirty, defaultpoola, defaultpoolf>> PROVE Heap'
BY DEF Heap, Layout, Apart, Beyond, ExitFreesEachRegionOnce, Zero, FreeIsZero, Items

\* Nothing is written and no block changes its size or its history.
LEMMA SameContents ==
    ASSUME Contents, DOMAIN owners' = DOMAIN owners, UNCHANGED <<filled, dirty>>,
           defaultpoola' \subseteq defaultpoola,
           \A p \in defaultpoola' : item'[p].size = item[p].size
    PROVE  Contents'
BY DEF Contents, Payload, PayloadStart, Region, Offset

\* A reference is counted up or down.
LEMMA CountedHeap ==
    ASSUME Heap, NEW p \in Items, NEW n \in Nat, item' = [item EXCEPT ![p].refCnt = n],
           UNCHANGED <<regions, defaultpoola, defaultpoolf>>
    PROVE  /\ Layout' /\ Apart' /\ ExitFreesEachRegionOnce' /\ Items' = Items
           /\ \A q \in Items : item'[q].size = item[q].size
<1>1. /\ Items' = Items /\ (defaultpoola \cap defaultpoolf = {})' /\ DOMAIN item' = DOMAIN item
      /\ Items = DOMAIN item
  BY DEF Items, Heap, Layout
<1>2. \A q \in Items : item'[q] = IF q = p THEN [item[q] EXCEPT !.refCnt = n] ELSE item[q]
  BY <1>1
<1>3. \A q \in Items : /\ item'[q] \in [size : Nat, refCnt : Nat, mode : Modes]
                       /\ item'[q].size = item[q].size /\ item'[q].mode = item[q].mode
  BY <1>2 DEF Heap, Layout
<1>4. \A q \in Items : item'[q].size <= item[q].size
  BY <1>3 DEF Heap, Layout
<1> QED  BY <1>1, <1>3, <1>4, SameShape DEF Heap

\* TFalloc before it has the lock.
LEMMA StartStep ==
    ASSUME OneStarter, IInv, NEW t \in Threads, CallAlloc(t) \/ OpenA(t) \/ OpenF(t) \/ TestPools(t)
    PROVE  IInv'
<1> USE DEF poolVars, heapVars, ownerVars, callVars
<1>1. UNCHANGED <<heapVars, ownerVars>> /\ (UNCHANGED <<ptr, newp>> \/ Return(t))
  BY DEF CallAlloc, OpenA, OpenF, TestPools
<1>2. UNCHANGED <<defaultpoola, defaultpoolf>>
  BY DEF IInv, Phase, Items, CallAlloc, OpenA, OpenF, TestPools
<1>3. /\ pc[t] \in {"idle", "openA", "openF", "test"}
      /\ pc'[t] \in {"idle", "openA", "openF", "test", "alloc"} /\ sz'[t] \in Nat
      /\ pc'[t] \in {"openA", "openF", "test", "alloc"} => sz'[t] \in Requests
      /\ pc' \in [Threads -> Pcs] /\ sz' \in [Threads -> Nat]
      /\ \A u \in Threads \ {t} : pc'[u] = pc[u] /\ sz'[u] = sz[u]
  BY Sizes DEF IInv, Types, Own, Calls, CallAlloc, OpenA, OpenF, TestPools, Goto, Return, Pcs
<1>4. /\ ptr' \in [Threads -> Pointers] /\ newp' \in [Threads -> Pointers]
      /\ \A u \in Threads \ {t} : ptr'[u] = ptr[u] /\ newp'[u] = newp[u]
  BY <1>1 DEF IInv, Types, Return, Pointers
<1>5. Types'
  BY <1>3, <1>4 DEF Types
<1>6. Heap'
  BY <1>1, <1>2, SameHeap DEF IInv
<1>7. Own'
  <2>1. Owners'
    BY <1>1, <1>2 DEF IInv, Own, Owners, Items
  <2>2. \A u \in Threads : Mine(u)' = Mine(u)
    BY <1>3, <1>4 DEF Mine
  <2>3. Orphans'
    BY <1>1, <1>2, <2>2 DEF IInv, Own, Orphans
  <2>4. Calls'
    BY <1>1, <1>3, <1>4 DEF IInv, Own, Calls
  <2> QED  BY <2>1, <2>3, <2>4 DEF Own
<1>8. Phase'
  <2>1. ~poolfOpen' => Items' = {} /\ DOMAIN owners' = {} /\ regions' = <<>> /\ dirty' = {}
    BY <1>1, <1>2 DEF IInv, Phase, Items, CallAlloc, OpenA, OpenF, TestPools
  <2>2. CASE CallAlloc(t)
    BY <2>1, <2>2, <1>3 DEF CallAlloc, IInv, Phase, Goto, Types
  <2>3. CASE OpenA(t)
    BY <2>1, <2>3, <1>3 DEF OpenA, IInv, Phase, Goto, Types, OneStarter
  <2>4. CASE OpenF(t)
    BY <2>1, <2>4, <1>3 DEF OpenF, IInv, Phase, Goto, Types, OneStarter
  <2>5. CASE TestPools(t)
    BY <2>1, <2>5, <1>3 DEF TestPools, IInv, Phase, Goto, Return, Types
  <2> QED  BY <2>2, <2>3, <2>4, <2>5
<1>9. Contents'
  BY <1>1, <1>2, SameContents DEF IInv
<1> QED  BY <1>5, <1>6, <1>7, <1>8, <1>9 DEF IInv

\* What is true of a step once the pools are open.
LEMMA OpenPhase ==
    ASSUME Phase, Types, Types', poolfOpen, UNCHANGED <<poolaOpen, poolfOpen>>, NEW t \in Threads,
           \A u \in Threads \ {t} : pc'[u] = pc[u], pc'[t] \notin {"openA", "openF"}
    PROVE  Phase'
BY DEF Phase

LEMMA OpenWhenCalled ==
    ASSUME Phase, NEW t \in Threads, Ready(t) \/ pc[t] \in {"alloc", "reallocAlloc", "reallocCopy", "free"}
    PROVE  poolfOpen /\ poolaOpen
BY DEF Phase, Ready

-----------------------------------------------------------------------------
(* Steps of an owner                                                       *)

\* The blocks somebody owns are handed out and below Items.
LEMMA OwnedFacts ==
    ASSUME IInv, NEW p \in DOMAIN owners
    PROVE  /\ p \in Items /\ p \in Nat \X Nat /\ p \in DOMAIN asked /\ asked[p] \in Nat
           /\ item[p] \in [size : Nat, refCnt : Nat, mode : Modes]
           /\ owners[p] \subseteq Threads /\ IsFiniteSet(owners[p])
           /\ owners[p] # {} => /\ p \in defaultpoola /\ p \notin defaultpoolf
                                /\ item[p].refCnt = Cardinality(owners[p])
                                /\ asked[p] <= item[p].size
BY DEF IInv, Heap, Layout, Own, Owners

LEMMA ShareStep == ASSUME IInv, NEW t \in Threads, Share(t) PROVE IInv'
<1> USE DEF poolVars, heapVars, ownerVars, callVars
<1>1. PICK p \in DOMAIN owners, u \in Threads :
          /\ Ready(t) /\ Owns(t, p) /\ u \notin owners[p]
          /\ item' = [item EXCEPT ![p].refCnt = @ + 1]
          /\ owners' = [owners EXCEPT ![p] = @ \cup {u}]
          /\ UNCHANGED <<poolVars, regions, dirty, asked, filled, callVars>>
  BY DEF Share
<1>2. /\ owners[p] # {} /\ t \in owners[p] /\ p \in defaultpoola /\ p \in Items
      /\ item[p].refCnt = Cardinality(owners[p])
      /\ item[p].refCnt \in Nat /\ IsFiniteSet(owners[p]) /\ owners[p] \subseteq Threads
  BY <1>1, OwnedFacts DEF Owns
<1>3. item' = [item EXCEPT ![p].refCnt = item[p].refCnt + 1]
  BY <1>1
<1>4. Layout' /\ Apart' /\ ExitFreesEachRegionOnce' /\ Items' = Items
      /\ \A q \in Items : item'[q].size = item[q].size
  <2>1. item[p].refCnt + 1 \in Nat
    BY <1>2
  <2> QED  BY <1>1, <1>2, <1>3, <2>1, CountedHeap DEF IInv
<1>5. Heap'
  <2>1. Zero'
    BY <1>1, <1>4 DEF IInv, Heap, Zero, FreeIsZero, Items
  <2> QED  BY <1>4, <2>1 DEF Heap
<1>6. Owners'
  <2>1. IsFiniteSet(owners[p] \cup {u}) /\ Cardinality(owners[p] \cup {u}) = Cardinality(owners[p]) + 1
    BY <1>1, <1>2, FS_AddElement
  <2>2. /\ DOMAIN owners' = DOMAIN owners
        /\ \A q \in DOMAIN owners : owners'[q] = IF q = p THEN owners[p] \cup {u} ELSE owners[q]
    BY <1>1
  <2>3. \A q \in Items : item'[q] = IF q = p THEN [item[p] EXCEPT !.refCnt = item[p].refCnt + 1] ELSE item[q]
    BY <1>3 DEF IInv, Heap, Layout
  <2>4. item'[p].refCnt = item[p].refCnt + 1
    BY <1>2, <2>3 DEF IInv, Heap, Layout
  <2> QED  BY <1>1, <1>2, <1>4, <2>1, <2>2, <2>3, <2>4 DEF IInv, Own, Owners
<1>7. Orphans'
  <2>1. \A v \in Threads : Mine(v)' = Mine(v)
    BY <1>1 DEF Mine
  <2>2. \A q \in DOMAIN owners : owners'[q] = {} <=> owners[q] = {}
    BY <1>1, <1>2
  <2>3. defaultpoola \subseteq DOMAIN owners
    BY DEF IInv, Own, Owners
  <2> QED  BY <1>1, <2>1, <2>2, <2>3 DEF IInv, Own, Orphans
<1>8. Calls'
  <2>1. \A v \in Threads : pc[v] \in {"reallocAlloc", "reallocCopy"} => ptr[v] # p
    BY <1>1, <1>2 DEF IInv, Own, Calls, Ready
  <2> QED  BY <1>1, <2>1 DEF IInv, Own, Calls
<1>9. Types' /\ Phase'
  <2>1. Types'
    BY <1>1 DEF IInv, Types
  <2> QED  BY <1>1, <2>1, OpenPhase, OpenWhenCalled DEF IInv, Ready
<1>10. Contents'
  <2>1. \A q \in defaultpoola : q \in Items
    BY DEF Items
  <2> QED  BY <1>1, <1>4, <2>1, SameContents DEF IInv
<1> QED  BY <1>5, <1>6, <1>7, <1>8, <1>9, <1>10 DEF IInv, Own

LEMMA MaxOfTwo ==
    ASSUME NEW a \in Nat, NEW b \in Nat
    PROVE  /\ Max({a, b}) \in Nat /\ Max({a, b}) >= a /\ Max({a, b}) >= b
           /\ Max({a, b}) \in {a, b}
BY DEF Max

LEMMA WriteStep == ASSUME IInv, NEW t \in Threads, Write(t) PROVE IInv'
<1> USE DEF poolVars, heapVars, ownerVars, callVars
<1>1. PICK p \in DOMAIN owners :
          /\ pc[t] = "idle" /\ t \in owners[p] /\ dirty' = dirty \cup Payload(p, asked[p])
          /\ filled' = [filled EXCEPT ![p] = Max({@, asked[p]})]
          /\ UNCHANGED <<poolVars, regions, item, owners, asked, callVars>>
  BY DEF Write, Owns
<1>2. /\ p \in Items /\ p \in defaultpoola /\ p \notin defaultpoolf /\ p \in Nat \X Nat
      /\ asked[p] \in Nat /\ asked[p] <= item[p].size
  BY <1>1, OwnedFacts
<1>3. Layout' /\ Apart' /\ ExitFreesEachRegionOnce'
  BY <1>1 DEF IInv, Heap, Layout, Apart, Beyond, ExitFreesEachRegionOnce, Items
<1>4. Zero'
  <2>1. ASSUME NEW q \in defaultpoolf PROVE Payload(q, item[q].size) \cap dirty' = {}
    <3>1. q \in Items /\ q # p /\ item[q].size \in Nat /\ item[q].size <= item[q].size
      <4>1. q \in Items /\ q # p
        BY <1>2, <2>1 DEF Items
      <4>2. item[q].size \in Nat
        BY <4>1 DEF IInv, Heap, Layout
      <4> QED  BY <4>1, <4>2
    <3>2. Payload(q, item[q].size) \cap Payload(p, asked[p]) = {}
      BY <1>2, <3>1, PayloadsApart DEF IInv, Heap
    <3>3. Payload(q, item[q].size) \cap dirty = {}
      BY DEF IInv, Heap, Zero, FreeIsZero
    <3> QED  BY <1>1, <3>2, <3>3
  <2>2. \A b \in dirty' : b[1] \in 1 .. Len(regions)
    BY <1>1, <1>2, InPayload DEF IInv, Heap, Layout, Zero
  <2> QED  BY <1>1, <2>1, <2>2 DEF Zero, FreeIsZero
<1>5. Own'
  <2>1. Owners'
    BY <1>1 DEF IInv, Own, Owners, Items
  <2>2. \A u \in Threads : Mine(u)' = Mine(u)
    BY <1>1 DEF Mine
  <2>3. Orphans'
    BY <1>1, <2>2 DEF IInv, Own, Orphans
  <2>4. \A u \in Threads : pc[u] = "reallocCopy" => newp[u] # p
    BY <1>1 DEF IInv, Own, Orphans, Mine
  <2>5. Calls'
    BY <1>1, <2>4 DEF IInv, Own, Calls
  <2> QED  BY <2>1, <2>3, <2>5 DEF Own
<1>6. Types' /\ Phase'
  <2>1. poolfOpen
    BY <1>1 DEF IInv, Phase
  <2> QED  BY <1>1, <2>1 DEF IInv, Types, Phase
<1>7. Contents'
  <2>1. p \in DOMAIN filled /\ filled[p] \in Nat /\ filled[p] <= item[p].size
        /\ Payload(p, item[p].size) \cap dirty = Payload(p, filled[p])
    BY <1>2 DEF IInv, Contents
  <2> DEFINE m == Max({filled[p], asked[p]})
  <2>2. /\ filled' = [filled EXCEPT ![p] = m] /\ m \in Nat /\ m <= item[p].size
        /\ filled[p] <= m /\ asked[p] <= m /\ m \in {filled[p], asked[p]}
    BY <1>1, <1>2, <2>1, MaxOfTwo
  <2>3. Payload(p, item[p].size) \cap dirty' = Payload(p, m)
    <3>1. item[p].size \in Nat
      BY <1>2 DEF IInv, Heap, Layout
    <3>2. Payload(p, filled[p]) \subseteq Payload(p, m) /\ Payload(p, asked[p]) \subseteq Payload(p, m)
          /\ Payload(p, asked[p]) \subseteq Payload(p, item[p].size)
      <4> HIDE DEF m
      <4> QED  BY <1>2, <2>1, <2>2, <3>1, PayloadPrefix
    <3>3. Payload(p, m) = Payload(p, filled[p]) \/ Payload(p, m) = Payload(p, asked[p])
      BY <2>2
    <3> QED  BY <1>1, <2>1, <3>2, <3>3
  <2>4. ASSUME NEW q \in defaultpoola, q # p
        PROVE  Payload(q, item[q].size) \cap dirty' = Payload(q, item[q].size) \cap dirty
    <3>1. q \in Items /\ item[q].size \in Nat /\ item[q].size <= item[q].size
      BY DEF IInv, Heap, Layout, Items
    <3>2. Payload(q, item[q].size) \cap Payload(p, asked[p]) = {}
      BY <1>2, <2>4, <3>1, PayloadsApart DEF IInv, Heap
    <3> QED  BY <1>1, <3>2
  <2>5. ASSUME NEW q \in defaultpoola
        PROVE  /\ filled'[q] \in Nat /\ filled'[q] <= item[q].size
               /\ Payload(q, item[q].size) \cap dirty' = Payload(q, filled'[q])
    <3>1. CASE q = p
      BY <2>1, <2>2, <2>3, <3>1
    <3>2. CASE q # p
      BY <2>2, <2>4, <3>2 DEF IInv, Contents
    <3> QED  BY <3>1, <3>2
  <2> QED  BY <1>1, <2>2, <2>5 DEF IInv, Contents, Payload, PayloadStart, Region, Offset
<1> QED  BY <1>3, <1>4, <1>5, <1>6, <1>7 DEF IInv, Heap

LEMMA ReleaseStep == ASSUME IInv, NEW t \in Threads, Release(t) PROVE IInv'
<1> USE DEF poolVars, heapVars, ownerVars, callVars
<1>1. PICK p \in DOMAIN owners :
          /\ Ready(t) /\ Owns(t, p)
          /\ owners' = [owners EXCEPT ![p] = @ \ {t}]
          /\ \/ /\ p \in defaultpoola
                /\ item' = [item EXCEPT ![p].refCnt = @ - 1]
                /\ \/ /\ item[p].refCnt = 1 /\ Goto(t, "free")
                      /\ ptr' = [ptr EXCEPT ![t] = p] /\ UNCHANGED <<sz, newp>>
                   \/ item[p].refCnt # 1 /\ UNCHANGED callVars
             \/ /\ p \notin defaultpoola /\ Goto(t, "free")
                /\ ptr' = [ptr EXCEPT ![t] = p] /\ UNCHANGED <<sz, newp, item>>
          /\ UNCHANGED <<poolVars, regions, dirty, asked, filled>>
  BY DEF Release
<1>2. /\ owners[p] # {} /\ t \in owners[p] /\ p \in defaultpoola /\ p \in Items /\ p \in Nat \X Nat
      /\ item[p].refCnt = Cardinality(owners[p])
      /\ item[p].refCnt \in Nat /\ IsFiniteSet(owners[p]) /\ owners[p] \subseteq Threads
  BY <1>1, OwnedFacts DEF Owns
<1>3. /\ IsFiniteSet(owners[p] \ {t}) /\ Cardinality(owners[p] \ {t}) = Cardinality(owners[p]) - 1
      /\ Cardinality(owners[p] \ {t}) \in Nat
      /\ owners[p] \ {t} = {} <=> item[p].refCnt = 1
  <2>1. IsFiniteSet(owners[p] \ {t}) /\ Cardinality(owners[p] \ {t}) = Cardinality(owners[p]) - 1
    BY <1>2, FS_RemoveElement
  <2>2. Cardinality(owners[p] \ {t}) \in Nat
        /\ (Cardinality(owners[p] \ {t}) = 0 <=> owners[p] \ {t} = {})
    BY <2>1, FS_CardinalityType, FS_EmptySet
  <2> QED  BY <1>2, <2>1, <2>2
<1>4. item' = [item EXCEPT ![p].refCnt = item[p].refCnt - 1] /\ item[p].refCnt - 1 \in Nat
  BY <1>1, <1>2, <1>3
<1>5. Layout' /\ Apart' /\ ExitFreesEachRegionOnce' /\ Items' = Items
      /\ \A q \in Items : item'[q].size = item[q].size
  BY <1>1, <1>2, <1>4, CountedHeap DEF IInv
<1>6. Heap'
  <2>1. Zero'
    BY <1>1, <1>5 DEF IInv, Heap, Zero, FreeIsZero, Items
  <2> QED  BY <1>5, <2>1 DEF Heap
<1>7. /\ DOMAIN owners' = DOMAIN owners
      /\ \A q \in DOMAIN owners : owners'[q] = IF q = p THEN owners[p] \ {t} ELSE owners[q]
  BY <1>1
<1>8. Owners'
  <2>1. \A q \in Items : item'[q] = IF q = p THEN [item[p] EXCEPT !.refCnt = item[p].refCnt - 1] ELSE item[q]
    BY <1>4 DEF IInv, Heap, Layout
  <2>2. item'[p].refCnt = item[p].refCnt - 1
    BY <1>2, <2>1 DEF IInv, Heap, Layout
  <2> QED  BY <1>1, <1>2, <1>3, <1>5, <1>7, <2>1, <2>2 DEF IInv, Own, Owners
<1>9. pc[t] = "idle" /\ \A u \in Threads : p \notin Mine(u)
  BY <1>1, <1>2 DEF Ready, IInv, Own, Orphans
<1>10. /\ \A u \in Threads \ {t} : pc'[u] = pc[u] /\ ptr'[u] = ptr[u]
       /\ newp' = newp /\ sz' = sz /\ pc' \in [Threads -> Pcs] /\ ptr' \in [Threads -> Pointers]
       /\ IF item[p].refCnt = 1 THEN pc'[t] = "free" /\ ptr'[t] = p ELSE pc'[t] = "idle" /\ ptr'[t] = ptr[t]
  BY <1>1, <1>2, <1>9 DEF Goto, IInv, Types, Pcs, Pointers
<1>11. Orphans'
  <2>1. \A u \in Threads \ {t} : Mine(u)' = Mine(u)
    BY <1>10 DEF Mine
  <2>2. Mine(t) = {} /\ Mine(t)' = IF item[p].refCnt = 1 THEN {p} ELSE {}
    BY <1>9, <1>10 DEF Mine
  <2>3. defaultpoola \subseteq DOMAIN owners /\ defaultpoola' = defaultpoola
    BY <1>1 DEF IInv, Own, Owners
  <2>4. owners'[p] = {} <=> item[p].refCnt = 1
    BY <1>3, <1>7
  <2>5. \A u \in Threads : \A q \in Mine(u)' : q \in defaultpoola /\ owners'[q] = {}
    BY <1>2, <1>7, <2>1, <2>2, <2>3, <2>4 DEF IInv, Own, Orphans
  <2>6. \A u, v \in Threads : u # v => Mine(u)' \cap Mine(v)' = {}
    BY <1>9, <2>1, <2>2 DEF IInv, Own, Orphans
  <2>7. \A q \in defaultpoola : owners'[q] = {} => \E u \in Threads : q \in Mine(u)'
    BY <1>7, <2>1, <2>2, <2>3, <2>4 DEF IInv, Own, Orphans
  <2> QED  BY <2>3, <2>5, <2>6, <2>7 DEF Orphans
<1>12. Calls'
  <2>1. \A v \in Threads : pc[v] \in {"reallocAlloc", "reallocCopy"} => ptr[v] # p
    BY <1>2, <1>9 DEF IInv, Own, Calls
  <2> QED  BY <1>1, <1>7, <1>9, <1>10, <2>1 DEF IInv, Own, Calls
<1>13. Types' /\ Phase'
  <2>1. Types'
    BY <1>10 DEF IInv, Types
  <2> QED  BY <1>1, <1>10, <2>1, OpenPhase, OpenWhenCalled DEF IInv
<1>14. Contents'
  <2>1. \A q \in defaultpoola : q \in Items
    BY DEF Items
  <2> QED  BY <1>1, <1>5, <1>7, <2>1, SameContents DEF IInv
<1> QED  BY <1>6, <1>8, <1>11, <1>12, <1>13, <1>14 DEF IInv, Own

\* TFfree by the only owner: the block goes from its owner to the call.
LEMMA GiveUpStep == ASSUME IInv, NEW t \in Threads, GiveUp(t) PROVE IInv'
<1> USE DEF poolVars, heapVars, ownerVars, callVars
<1>1. PICK p \in DOMAIN owners :
          /\ Ready(t) /\ owners[p] = {t}
          /\ owners' = [owners EXCEPT ![p] = {}]
          /\ pc' = [pc EXCEPT ![t] = "free"] /\ ptr' = [ptr EXCEPT ![t] = p]
          /\ UNCHANGED <<poolVars, heapVars, asked, filled, sz, newp>>
  BY DEF GiveUp, Goto
<1>2. /\ pc[t] = "idle" /\ poolfOpen /\ p \in defaultpoola /\ p \in Items /\ p \in Nat \X Nat
      /\ \A u \in Threads : p \notin Mine(u)
  <2>1. pc[t] = "idle" /\ poolfOpen /\ owners[p] # {}
    BY <1>1 DEF Ready
  <2> QED  BY <2>1, OwnedFacts DEF IInv, Own, Orphans
<1>3. /\ DOMAIN owners' = DOMAIN owners
      /\ \A q \in DOMAIN owners : owners'[q] = IF q = p THEN {} ELSE owners[q]
  BY <1>1
<1>4. /\ \A u \in Threads \ {t} : pc'[u] = pc[u] /\ ptr'[u] = ptr[u]
      /\ pc'[t] = "free" /\ ptr'[t] = p /\ Types'
  BY <1>1, <1>2 DEF IInv, Types, Pcs, Pointers
<1>5. Heap'
  BY <1>1, SameHeap DEF IInv
<1>6. Owners'
  BY <1>1, <1>3, FS_EmptySet DEF IInv, Own, Owners, Items
<1>7. Orphans'
  <2>1. \A u \in Threads \ {t} : Mine(u)' = Mine(u)
    BY <1>1, <1>4 DEF Mine
  <2>2. Mine(t) = {} /\ Mine(t)' = {p}
    BY <1>2, <1>4 DEF Mine
  <2>3. defaultpoola \subseteq DOMAIN owners
    BY DEF IInv, Own, Owners
  <2> QED  BY <1>1, <1>2, <1>3, <2>1, <2>2, <2>3 DEF IInv, Own, Orphans
<1>8. Calls'
  <2>1. \A u \in Threads : pc[u] \in {"reallocAlloc", "reallocCopy"} => ptr[u] # p
    BY <1>1, <1>2 DEF IInv, Own, Calls
  <2> QED  BY <1>1, <1>3, <1>4, <2>1 DEF IInv, Own, Calls
<1>9. Phase'
  BY <1>1, <1>2, <1>4, OpenPhase DEF IInv
<1>10. Contents'
  BY <1>1, <1>3, SameContents DEF IInv
<1> QED  BY <1>4, <1>5, <1>6, <1>7, <1>8, <1>9, <1>10 DEF IInv, Own

LEMMA FreeStep == ASSUME IInv, NEW t \in Threads, Free(t) PROVE IInv'
<1> USE DEF poolVars, heapVars, ownerVars, callVars
<1> DEFINE p == ptr[t]
<1>1. p \in Mine(t) /\ p \in defaultpoola /\ owners[p] = {} /\ pc[t] = "free"
  BY DEF Free, Mine, IInv, Own, Orphans
<1>2. /\ item' = [item EXCEPT ![p] = Reset(p)] /\ dirty' = dirty \ Wiped(p)
      /\ defaultpoola' = defaultpoola \ {p} /\ defaultpoolf' = defaultpoolf \cup {p}
      /\ asked' = [asked EXCEPT ![p] = 0] /\ filled' = [filled EXCEPT ![p] = 0] /\ Return(t)
      /\ UNCHANGED <<poolaOpen, poolfOpen, regions, owners>>
  BY <1>1 DEF Free
<1>3. /\ p \in Items /\ p \in Nat \X Nat /\ p \in DOMAIN item /\ p \in DOMAIN owners /\ DOMAIN asked = DOMAIN owners
      /\ item[p] \in [size : Nat, refCnt : Nat, mode : Modes]
  BY <1>1 DEF IInv, Heap, Layout, Items, Own, Owners
<1>4. Items' = Items /\ (defaultpoola \cap defaultpoolf = {})'
  BY <1>1, <1>2 DEF Items, IInv, Heap, Layout
<1>5. \A q \in Items : item'[q] = IF q = p THEN [item[p] EXCEPT !.refCnt = 1] ELSE item[q]
  BY <1>2 DEF Reset, IInv, Heap, Layout
<1>6. \A q \in Items : /\ item'[q] \in [size : Nat, refCnt : Nat, mode : Modes]
                       /\ item'[q].size = item[q].size /\ item'[q].mode = item[q].mode
                       /\ item[q].size \in Nat
  <2>1. \A q \in Items : item[q] \in [size : Nat, refCnt : Nat, mode : Modes]
    BY DEF IInv, Heap, Layout
  <2>2. /\ [item[p] EXCEPT !.refCnt = 1] \in [size : Nat, refCnt : Nat, mode : Modes]
        /\ [item[p] EXCEPT !.refCnt = 1].size = item[p].size
        /\ [item[p] EXCEPT !.refCnt = 1].mode = item[p].mode
    BY <1>3
  <2> QED  BY <1>5, <2>1, <2>2
<1>7. Layout' /\ Apart' /\ ExitFreesEachRegionOnce'
  <2>1. \A q \in Items : item'[q].size <= item[q].size
    BY <1>6
  <2>2. DOMAIN item' = DOMAIN item
    BY <1>2
  <2> QED  BY <1>2, <1>4, <1>6, <2>1, <2>2, SameShape DEF IInv, Heap
<1>8. Zero'
  <2>1. \A q \in defaultpoolf' : Payload(q, item'[q].size) \cap dirty' = {}
    BY <1>2, <1>3, <1>4, <1>6 DEF IInv, Heap, Zero, FreeIsZero, Wiped, Items
  <2>2. \A b \in dirty' : b[1] \in 1 .. Len(regions')
    BY <1>2 DEF IInv, Heap, Zero
  <2> QED  BY <2>1, <2>2 DEF Zero, FreeIsZero, Payload, PayloadStart, Region, Offset
<1>9. Owners'
  <2>1. /\ DOMAIN asked' = DOMAIN owners' /\ DOMAIN owners' = DOMAIN owners
        /\ \A q \in DOMAIN owners : asked'[q] = IF q = p THEN 0 ELSE asked[q]
    BY <1>2, <1>3
  <2>2. \A q \in defaultpoola' : q # p /\ q \in defaultpoola
    BY <1>2
  <2> QED  BY <1>1, <1>2, <1>4, <1>5, <1>6, <2>1, <2>2 DEF IInv, Own, Owners
<1>10. /\ \A u \in Threads \ {t} : pc'[u] = pc[u] /\ ptr'[u] = ptr[u] /\ newp'[u] = newp[u] /\ sz'[u] = sz[u]
       /\ pc'[t] = "idle" /\ Types'
  BY <1>2 DEF Return, IInv, Types, Pcs, Pointers
<1>11. Orphans'
  <2>1. \A u \in Threads \ {t} : Mine(u)' = Mine(u)
    BY <1>10 DEF Mine
  <2>2. Mine(t)' = {} /\ Mine(t) = {p}
    BY <1>1, <1>10 DEF Mine
  <2> QED  BY <1>1, <1>2, <2>1, <2>2 DEF IInv, Own, Orphans
<1>12. Calls'
  <2>1. \A u \in Threads \ {t} : pc[u] = "reallocCopy" => newp[u] # p /\ newp[u] \in DOMAIN owners
    BY <1>1 DEF IInv, Own, Orphans, Mine, Owners
  <2> QED  BY <1>2, <1>3, <1>10, <2>1 DEF IInv, Own, Calls
<1>13. Phase'
  BY <1>1, <1>2, <1>10, OpenPhase, OpenWhenCalled DEF IInv
<1>14. Contents'
  <2>1. DOMAIN filled' = DOMAIN owners'
    BY <1>2 DEF IInv, Contents
  <2>2. ASSUME NEW q \in defaultpoola'
        PROVE  /\ filled'[q] \in Nat /\ filled'[q] <= item'[q].size
               /\ Payload(q, item'[q].size) \cap dirty' = Payload(q, filled'[q])
    <3>1. q \in defaultpoola /\ q # p /\ q \in Items
      BY <1>2 DEF Items
    <3>2. filled'[q] = filled[q] /\ item'[q].size = item[q].size /\ item[q].size \in Nat
      BY <1>2, <1>6, <3>1
    <3>3. item[q].size <= item[q].size /\ item[p].size <= item[p].size /\ item[p].size \in Nat
      BY <1>3, <3>2
    <3>4. Payload(q, item[q].size) \cap Payload(p, item[p].size) = {}
      BY <1>3, <3>1, <3>2, <3>3, PayloadsApart DEF IInv, Heap
    <3>5. filled[q] \in Nat /\ filled[q] <= item[q].size
          /\ Payload(q, item[q].size) \cap dirty = Payload(q, filled[q])
      BY <3>1 DEF IInv, Contents
    <3> QED  BY <1>2, <3>2, <3>4, <3>5 DEF Wiped
  <2> QED  BY <2>1, <2>2 DEF Contents, Payload, PayloadStart, Region, Offset
<1> QED  BY <1>7, <1>8, <1>9, <1>10, <1>11, <1>12, <1>13, <1>14 DEF IInv, Heap, Own

LEMMA ReallocTestStep == ASSUME IInv, NEW t \in Threads, ReallocTest(t) PROVE IInv'
<1> USE DEF poolVars, heapVars, ownerVars, callVars
<1>1. PICK p \in DOMAIN owners, n \in Requests :
          /\ Ready(t) /\ owners[p] = {t}
          /\ \/ /\ item[p].size >= n
                /\ asked' = [asked EXCEPT ![p] = n]
                /\ UNCHANGED callVars
             \/ /\ sz' = [sz EXCEPT ![t] = n]
                /\ ptr' = [ptr EXCEPT ![t] = p]
                /\ Goto(t, "reallocAlloc") /\ UNCHANGED <<newp, asked>>
          /\ UNCHANGED <<poolVars, heapVars, owners, filled>>
  BY DEF ReallocTest
<1>2. pc[t] = "idle" /\ n \in Nat /\ poolfOpen /\ p \in Nat \X Nat /\ p \in DOMAIN asked /\ p \in defaultpoola
  BY <1>1, Sizes, OwnedFacts DEF Ready
<1>3. Heap'
  BY <1>1, SameHeap DEF IInv
<1>4. /\ \A u \in Threads \ {t} : pc'[u] = pc[u] /\ ptr'[u] = ptr[u] /\ sz'[u] = sz[u]
      /\ newp' = newp /\ Types' /\ pc'[t] \in {"idle", "reallocAlloc"}
      /\ pc'[t] = "reallocAlloc" => ptr'[t] = p /\ sz'[t] = n
  BY <1>1, <1>2 DEF Goto, IInv, Types, Pcs, Pointers
<1>5. /\ DOMAIN asked' = DOMAIN asked
      /\ \A q \in DOMAIN asked : asked'[q] = asked[q] \/ (q = p /\ asked'[q] = n /\ n <= item[p].size)
  BY <1>1, <1>2 DEF IInv, Heap, Layout, Items
<1>6. Owners'
  BY <1>1, <1>2, <1>5 DEF IInv, Own, Owners, Items
<1>7. Orphans'
  <2>1. \A u \in Threads : Mine(u)' = Mine(u)
    BY <1>2, <1>4 DEF Mine
  <2> QED  BY <1>1, <2>1 DEF IInv, Own, Orphans
<1>8. Calls'
  <2>1. \A u \in Threads : pc[u] = "reallocCopy" => newp[u] # p /\ newp[u] \in DOMAIN asked
    BY <1>1 DEF IInv, Own, Orphans, Mine, Owners
  <2> QED  BY <1>1, <1>2, <1>4, <1>5, <2>1 DEF IInv, Own, Calls
<1>9. Phase'
  BY <1>1, <1>2, <1>4, OpenPhase DEF IInv
<1>10. Contents'
  BY <1>1, SameContents DEF IInv
<1> QED  BY <1>3, <1>4, <1>6, <1>7, <1>8, <1>9, <1>10 DEF IInv, Own

\* What a thread between the two halves of TFrealloc knows.
LEMMA CopyFacts ==
    ASSUME IInv, NEW t \in Threads, pc[t] = "reallocCopy"
    PROVE  /\ ptr[t] \in DOMAIN owners /\ owners[ptr[t]] = {t} /\ ptr[t] \in Items
           /\ ptr[t] \in defaultpoola /\ ptr[t] \in Nat \X Nat /\ item[ptr[t]].size \in Nat
           /\ item[ptr[t]].refCnt = 1 /\ asked[ptr[t]] \in Nat /\ asked[ptr[t]] <= item[ptr[t]].size
           /\ newp[t] \in DOMAIN owners /\ owners[newp[t]] = {} /\ newp[t] \in Items
           /\ newp[t] \in defaultpoola /\ newp[t] \in Nat \X Nat /\ item[newp[t]].size \in Nat
           /\ sz[t] \in Nat /\ sz[t] <= item[newp[t]].size /\ newp[t] # ptr[t]
           /\ filled[newp[t]] = 0
<1>1. ptr[t] \in DOMAIN owners /\ owners[ptr[t]] = {t} /\ asked[newp[t]] = sz[t] /\ sz[t] \in Nat
      /\ filled[newp[t]] = 0
  BY Sizes DEF IInv, Own, Calls
<1>2. newp[t] \in defaultpoola /\ owners[newp[t]] = {} /\ newp[t] \in DOMAIN owners
  BY DEF IInv, Own, Orphans, Mine, Owners
<1>3. Cardinality({t}) = 1
  BY FS_Singleton
<1> QED  BY <1>1, <1>2, <1>3, OwnedFacts DEF IInv, Own, Owners

LEMMA MinOfTwo ==
    ASSUME NEW a \in Nat, NEW b \in Nat
    PROVE  /\ Min({a, b}) \in Nat /\ Min({a, b}) <= a /\ Min({a, b}) <= b
           /\ Min({a, b}) \in {a, b}
BY DEF Min

\* What arrives in the new block q is what the owner wrote into the old one, p,
\* as far as q is to hold it.
LEMMA CopiedIsPrefix ==
    ASSUME NEW p \in Nat \X Nat, NEW q \in Nat \X Nat, NEW n \in Nat, NEW w \in Nat,
           item[p].size \in Nat, w <= item[p].size,
           Payload(p, item[p].size) \cap dirty = Payload(p, w)
    PROVE  Copied(p, q, n) = Payload(q, Min({w, n}))
<1> DEFINE m == Min({item[p].size, n})
           k == Min({w, n})
           Old(b) == <<Region(p), PayloadStart(p) + (b[2] - PayloadStart(q))>>
<1>1. /\ m \in Nat /\ m <= item[p].size /\ m <= n /\ m \in {item[p].size, n}
      /\ k \in Nat /\ k <= w /\ k <= n /\ k \in {w, n}
  BY MinOfTwo
<1>2. k <= m
  BY <1>1
<1>3. PayloadStart(p) \in Nat /\ PayloadStart(q) \in Nat
  BY Sizes DEF PayloadStart, Offset
<1>4. ASSUME NEW b \in Payload(q, m) PROVE Old(b) \in dirty <=> b \in Payload(q, k)
  <2> HIDE DEF m, k
  <2>1. PICK i \in Nat : i < m /\ b = <<Region(q), PayloadStart(q) + i>>
    BY <1>1, <1>4, FromPayload
  <2>2. b[2] - PayloadStart(q) = i
    BY <1>3, <2>1
  <2>3. Old(b) = <<Region(p), PayloadStart(p) + i>>
    BY <2>2
  <2>4. i < item[p].size
    BY <1>1, <2>1
  <2>5. Old(b) \in Payload(p, item[p].size)
    BY <2>3, <2>4, AtPayload
  <2>6. Old(b) \in dirty <=> Old(b) \in Payload(p, w)
    BY <2>5
  <2>7. Old(b) \in Payload(p, w) <=> i < w
    BY <2>3, AtPayload
  <2>8. b \in Payload(q, k) <=> i < k
    BY <1>1, <2>1, AtPayload
  <2>9. i < w <=> i < k
    BY <1>1, <2>1
  <2> QED  BY <2>6, <2>7, <2>8, <2>9
<1>5. Payload(q, k) \subseteq Payload(q, m)
  <2> HIDE DEF m, k
  <2> QED  BY <1>1, <1>2, PayloadPrefix
<1>6. Copied(p, q, n) = {b \in Payload(q, m) : Old(b) \in dirty}
  BY DEF Copied
<1>7. \A b \in Payload(q, m) : Old(b) \in dirty <=> b \in Payload(q, k)
  BY <1>4
<1> HIDE DEF m, k, Old
<1>8. Copied(p, q, n) = Payload(q, k)
  BY <1>5, <1>6, <1>7
<1> QED  BY <1>8 DEF k

LEMMA ReallocCopyStep == ASSUME IInv, NEW t \in Threads, ReallocCopy(t) PROVE IInv'
<1> USE DEF poolVars, heapVars, ownerVars, callVars
<1> DEFINE p == ptr[t]
           q == newp[t]
           m == Min({item[p].size, sz[t]})
<1>1. /\ pc[t] = "reallocCopy" /\ pc' = [pc EXCEPT ![t] = "free"]
      /\ item' = [item EXCEPT ![q].refCnt = item[p].refCnt]
      /\ dirty' = (dirty \ Payload(q, sz[t])) \cup Copied(p, q, sz[t])
      /\ owners' = [owners EXCEPT ![q] = owners[p], ![p] = {}]
      /\ filled' = [filled EXCEPT ![q] = Min({filled[p], sz[t]})]
      /\ UNCHANGED <<poolVars, regions, asked, sz, ptr, newp>>
  BY DEF ReallocCopy, Goto
<1>2. /\ p \in DOMAIN owners /\ owners[p] = {t} /\ p \in Items /\ p \in defaultpoola
      /\ p \in Nat \X Nat /\ item[p].size \in Nat /\ item[p].refCnt = 1
      /\ q \in DOMAIN owners /\ owners[q] = {} /\ q \in Items /\ q \in defaultpoola
      /\ q \in Nat \X Nat /\ item[q].size \in Nat
      /\ sz[t] \in Nat /\ sz[t] <= item[q].size /\ q # p /\ filled[q] = 0
  BY <1>1, CopyFacts
<1>3. Layout' /\ Apart' /\ ExitFreesEachRegionOnce' /\ Items' = Items
      /\ \A r \in Items : item'[r].size = item[r].size
  <2>1. item[p].refCnt \in Nat
    BY <1>2
  <2> QED  BY <1>1, <1>2, <2>1, CountedHeap DEF IInv
<1>4. Zero'
  <2>1. m \in Nat /\ m <= item[q].size
    BY <1>2, MinOfTwo
  <2>2. Copied(p, q, sz[t]) \subseteq Payload(q, m)
    BY DEF Copied
  <2>3. ASSUME NEW r \in defaultpoolf PROVE Payload(r, item[r].size) \cap dirty' = {}
    <3>1. r \in Items /\ r # q /\ item[r].size \in Nat /\ item[r].size <= item[r].size
      <4>1. r \in Items /\ q \in defaultpoola
        BY <1>2 DEF Items
      <4>2. r # q
        BY <4>1 DEF IInv, Heap, Layout
      <4>3. item[r].size \in Nat
        BY <4>1 DEF IInv, Heap, Layout
      <4> QED  BY <4>1, <4>2, <4>3
    <3>2. Payload(r, item[r].size) \cap Payload(q, m) = {}
      BY <1>2, <2>1, <3>1, PayloadsApart DEF IInv, Heap
    <3>3. Payload(r, item[r].size) \cap dirty = {}
      BY DEF IInv, Heap, Zero, FreeIsZero
    <3> QED  BY <1>1, <2>2, <3>2, <3>3
  <2>4. \A b \in dirty' : b[1] \in 1 .. Len(regions')
    <3>1. \A b \in Payload(q, m) : b[1] \in 1 .. Len(regions)
      <4>1. Region(q) \in 1 .. Len(regions)
        BY <1>2 DEF IInv, Heap, Layout
      <4>2. q \in Nat \X Nat /\ m \in Nat
        BY <1>2, <2>1
      <4> HIDE DEF m, q
      <4> QED  BY <4>1, <4>2, InPayload
    <3> QED  BY <1>1, <2>2, <3>1 DEF IInv, Heap, Zero
  <2>5. \A r \in defaultpoolf : Payload(r, item'[r].size) = Payload(r, item[r].size)
    BY <1>3 DEF Items
  <2> QED  BY <1>1, <2>3, <2>4, <2>5 DEF Zero, FreeIsZero, Payload, PayloadStart, Region, Offset
<1>5. /\ DOMAIN owners' = DOMAIN owners
      /\ \A r \in DOMAIN owners : owners'[r] = IF r = p THEN {} ELSE IF r = q THEN {t} ELSE owners[r]
  BY <1>1, <1>2
<1>6. Owners'
  <2>1. \A r \in Items : item'[r] = IF r = q THEN [item[q] EXCEPT !.refCnt = 1] ELSE item[r]
    BY <1>1, <1>2 DEF IInv, Heap, Layout
  <2>2. item'[q].refCnt = 1
    BY <1>2, <2>1 DEF IInv, Heap, Layout
  <2>3. IsFiniteSet({t}) /\ Cardinality({t}) = 1 /\ IsFiniteSet({})
    BY FS_Singleton, FS_EmptySet
  <2>4. /\ DOMAIN asked' = DOMAIN owners' /\ DOMAIN owners' \subseteq Items'
        /\ defaultpoola' \subseteq DOMAIN owners'
        /\ \A r \in defaultpoola' : asked'[r] <= item'[r].size
    <3>1. \A r \in defaultpoola : r \in Items
      BY DEF Items
    <3> QED  BY <1>1, <1>3, <1>5, <3>1 DEF IInv, Own, Owners
  <2>5. ASSUME NEW r \in DOMAIN owners
        PROVE  /\ IsFiniteSet(owners'[r]) /\ owners'[r] \subseteq Threads /\ asked'[r] \in Nat
               /\ owners'[r] # {} => r \in defaultpoola /\ item'[r].refCnt = Cardinality(owners'[r])
    <3>1. CASE r = p
      BY <1>1, <1>5, <2>3, <2>5, <3>1 DEF IInv, Own, Owners
    <3>2. CASE r = q
      BY <1>1, <1>2, <1>5, <2>2, <2>3, <2>5, <3>2 DEF IInv, Own, Owners
    <3>3. CASE r # p /\ r # q
      <4>1. r \in Items
        BY DEF IInv, Own, Owners
      <4> QED  BY <1>1, <1>5, <2>1, <2>5, <3>3, <4>1 DEF IInv, Own, Owners
    <3> QED  BY <3>1, <3>2, <3>3
  <2> QED  BY <1>1, <1>5, <2>4, <2>5 DEF Owners
<1>7. Orphans'
  <2>1. \A u \in Threads \ {t} : Mine(u)' = Mine(u)
    BY <1>1 DEF Mine
  <2>2. Mine(t) = {q} /\ Mine(t)' = {p}
    BY <1>1 DEF Mine, IInv, Types
  <2>3. \A u \in Threads \ {t} : p \notin Mine(u) /\ q \notin Mine(u)
    BY <1>2, <2>2 DEF IInv, Own, Orphans
  <2>4. defaultpoola \subseteq DOMAIN owners /\ defaultpoola' = defaultpoola
    BY <1>1 DEF IInv, Own, Owners
  <2>5. \A u \in Threads : \A r \in Mine(u)' : r \in defaultpoola /\ owners'[r] = {}
    BY <1>2, <1>5, <2>1, <2>2, <2>3, <2>4 DEF IInv, Own, Orphans
  <2>6. \A u, v \in Threads : u # v => Mine(u)' \cap Mine(v)' = {}
    BY <2>1, <2>2, <2>3 DEF IInv, Own, Orphans
  <2>7. \A r \in defaultpoola : owners'[r] = {} => \E u \in Threads : r \in Mine(u)'
    BY <1>2, <1>5, <2>1, <2>2, <2>4 DEF IInv, Own, Orphans
  <2> QED  BY <2>4, <2>5, <2>6, <2>7 DEF Orphans
<1>8. Calls'
  <2>1. \A u \in Threads \ {t} : pc[u] \in {"reallocAlloc", "reallocCopy"} => ptr[u] # p /\ ptr[u] # q
    BY <1>2 DEF IInv, Own, Calls
  <2>2. \A u \in Threads \ {t} : pc[u] = "reallocCopy" => newp[u] # q /\ newp[u] \in DOMAIN filled
    BY <1>1 DEF IInv, Own, Orphans, Mine, Owners, Contents
  <2>3. \A u \in Threads \ {t} : pc[u] = "reallocCopy" => filled'[newp[u]] = 0
    BY <1>1, <2>2 DEF IInv, Own, Calls
  <2> QED  BY <1>1, <1>5, <2>1, <2>3 DEF IInv, Own, Calls, Types
<1>9. Types' /\ Phase'
  <2>1. Types' /\ pc'[t] = "free" /\ \A u \in Threads \ {t} : pc'[u] = pc[u]
    BY <1>1 DEF IInv, Types, Pcs
  <2> QED  BY <1>1, <2>1, OpenPhase, OpenWhenCalled DEF IInv
<1>10. Contents'
  <2> DEFINE w == Min({filled[p], sz[t]})
  <2>1. /\ filled[p] \in Nat /\ filled[p] <= item[p].size
        /\ Payload(p, item[p].size) \cap dirty = Payload(p, filled[p])
        /\ Payload(q, item[q].size) \cap dirty = Payload(q, 0)
    BY <1>2 DEF IInv, Contents
  <2>2. w \in Nat /\ w <= sz[t] /\ w <= item[q].size
    <3>1. w \in Nat /\ w <= sz[t]
      BY <1>2, <2>1, MinOfTwo
    <3> QED  BY <1>2, <3>1
  <2>3. Copied(p, q, sz[t]) = Payload(q, w)
    BY <1>2, <2>1, CopiedIsPrefix
  <2>4. DOMAIN filled' = DOMAIN owners' /\ DOMAIN filled = DOMAIN owners
        /\ \A r \in DOMAIN owners : filled'[r] = IF r = q THEN w ELSE filled[r]
    BY <1>1, <1>5 DEF IInv, Contents
  <2> HIDE DEF w
  <2>5. Payload(q, item[q].size) \cap dirty' = Payload(q, w)
    <3>1. Payload(q, 0) = {}
      <4> SUFFICES ASSUME NEW b \in Payload(q, 0) PROVE FALSE
        OBVIOUS
      <4>1. \E k \in Nat : k < 0
        <5>1. q \in Nat \X Nat /\ 0 \in Nat
          BY <1>2
        <5> HIDE DEF q
        <5> QED  BY <5>1, FromPayload
      <4> QED  BY <4>1
    <3>2. Payload(q, w) \subseteq Payload(q, item[q].size)
      <4>1. q \in Nat \X Nat /\ item[q].size \in Nat
        BY <1>2
      <4> HIDE DEF q
      <4> QED  BY <2>2, <4>1, PayloadPrefix
    <3> QED  BY <1>1, <2>1, <2>3, <3>1, <3>2
  <2>6. ASSUME NEW r \in defaultpoola, r # q
        PROVE  Payload(r, item[r].size) \cap dirty' = Payload(r, item[r].size) \cap dirty
    <3>1. r \in Items /\ item[r].size \in Nat /\ item[r].size <= item[r].size
      BY DEF IInv, Heap, Layout, Items
    <3>2. Payload(r, item[r].size) \cap Payload(q, sz[t]) = {}
      BY <1>2, <2>6, <3>1, PayloadsApart DEF IInv, Heap
    <3>3. Payload(r, item[r].size) \cap Payload(q, w) = {}
      BY <1>2, <2>2, <2>6, <3>1, PayloadsApart DEF IInv, Heap
    <3> QED  BY <1>1, <2>3, <3>2, <3>3
  <2>7. ASSUME NEW r \in defaultpoola
        PROVE  /\ filled'[r] \in Nat /\ filled'[r] <= item'[r].size
               /\ Payload(r, item'[r].size) \cap dirty' = Payload(r, filled'[r])
    <3>1. r \in DOMAIN owners /\ item'[r].size = item[r].size
      BY <1>3 DEF IInv, Own, Owners, Items
    <3>2. CASE r = q
      <4>1. filled'[r] = w /\ item'[r].size = item[q].size
        BY <2>4, <3>1, <3>2
      <4> QED  BY <2>2, <2>5, <3>2, <4>1
    <3>3. CASE r # q
      <4>1. filled'[r] = filled[r]
        BY <2>4, <3>1, <3>3
      <4>2. /\ filled[r] \in Nat /\ filled[r] <= item[r].size
            /\ Payload(r, item[r].size) \cap dirty = Payload(r, filled[r])
        BY DEF IInv, Contents
      <4> QED  BY <2>6, <3>1, <3>3, <4>1, <4>2
    <3> QED  BY <3>2, <3>3
  <2>8. defaultpoola' = defaultpoola
    BY <1>1
  <2> QED  BY <2>4, <2>7, <2>8 DEF Contents, Payload, PayloadStart, Region, Offset
<1> QED  BY <1>3, <1>4, <1>6, <1>7, <1>8, <1>9, <1>10 DEF IInv, Heap, Own

-----------------------------------------------------------------------------
(* TFalloc under the lock                                                  *)

LEMMA AllocFacts ==
    ASSUME IInv, NEW t \in Threads, NEW n \in Requests, Alloc(t, n)
    PROVE  /\ pc[t] \in {"idle", "alloc", "reallocAlloc"} /\ poolfOpen /\ poolaOpen
           /\ pc[t] = "reallocAlloc" => sz[t] = n
           /\ Mine(t) = {}
BY OpenWhenCalled DEF Alloc, Ready, Mine, IInv

LEMMA FailStep == ASSUME IInv, NEW t \in Threads, NEW n \in Requests, AllocFails(t, n) PROVE IInv'
<1> USE DEF poolVars, heapVars, ownerVars, callVars
<1>1. Return(t) /\ UNCHANGED <<poolVars, heapVars, ownerVars>> /\ Mine(t) = {} /\ poolfOpen
  BY AllocFacts DEF AllocFails
<1>2. /\ \A u \in Threads \ {t} : pc'[u] = pc[u] /\ ptr'[u] = ptr[u] /\ newp'[u] = newp[u] /\ sz'[u] = sz[u]
      /\ pc'[t] = "idle" /\ Types'
  BY <1>1 DEF Return, IInv, Types, Pcs, Pointers
<1>3. Heap'
  BY <1>1, SameHeap DEF IInv
<1>4. \A u \in Threads : Mine(u)' = Mine(u)
  BY <1>1, <1>2 DEF Mine
<1>5. Own'
  <2>1. Owners'
    BY <1>1 DEF IInv, Own, Owners, Items
  <2>2. Orphans'
    BY <1>1, <1>4 DEF IInv, Own, Orphans
  <2>3. Calls'
    BY <1>1, <1>2 DEF IInv, Own, Calls
  <2> QED  BY <2>1, <2>2, <2>3 DEF Own
<1>6. Phase'
  BY <1>1, <1>2, OpenPhase DEF IInv
<1>7. Contents'
  BY <1>1, SameContents DEF IInv
<1> QED  BY <1>2, <1>3, <1>5, <1>6, <1>7 DEF IInv

\* A thread whose call returns is idle, and no other thread notices.
LEMMA ReturnTypes ==
    ASSUME Types, NEW t \in Threads, Return(t)
    PROVE  /\ \A u \in Threads \ {t} : pc'[u] = pc[u] /\ ptr'[u] = ptr[u] /\ newp'[u] = newp[u] /\ sz'[u] = sz[u]
           /\ pc'[t] = "idle" /\ Types'
BY DEF Return, Types, Pcs, Pointers

\* Whatever block p TFalloc found or made, this is what handing it out does.
LEMMA HandOutStep ==
    ASSUME IInv, NEW t \in Threads, NEW n \in Requests, Alloc(t, n),
           NEW p \in Nat \X Nat, p \notin defaultpoola, HandOut(t, p, n),
           defaultpoola' = defaultpoola \cup {p}, UNCHANGED <<poolaOpen, poolfOpen>>,
           item'[p].refCnt = 1, item'[p].size >= n,
           \A q \in defaultpoola : item'[q] = item[q], Items \cup {p} \subseteq Items',
           dirty' = dirty, item'[p].size \in Nat, Payload(p, item'[p].size) \cap dirty = {}
    PROVE  Types' /\ Phase' /\ Own' /\ Contents'
<1>1. /\ pc[t] \in {"idle", "alloc", "reallocAlloc"} /\ poolfOpen /\ n \in Nat /\ Mine(t) = {}
      /\ pc[t] = "reallocAlloc" => sz[t] = n
  BY AllocFacts, Sizes
<1>2. /\ DOMAIN asked' = DOMAIN asked \cup {p}
      /\ \A q \in DOMAIN asked \cup {p} : asked'[q] = IF q = p THEN n ELSE asked[q]
      /\ DOMAIN filled' = DOMAIN filled \cup {p}
      /\ \A q \in DOMAIN filled \cup {p} : filled'[q] = IF q = p THEN 0 ELSE filled[q]
  BY DEF HandOut, With
<1>3. PICK o \in {{}, {t}} :
          /\ DOMAIN owners' = DOMAIN owners \cup {p}
          /\ \A q \in DOMAIN owners \cup {p} : owners'[q] = IF q = p THEN o ELSE owners[q]
          /\ IF o = {} THEN /\ pc[t] = "reallocAlloc" /\ newp' = [newp EXCEPT ![t] = p]
                            /\ Goto(t, "reallocCopy") /\ UNCHANGED <<sz, ptr>>
             ELSE Return(t)
  <2>1. CASE pc[t] # "reallocAlloc"
    <3>1. {t} # {} /\ owners' = With(owners, p, {t}) /\ Return(t)
      BY <2>1 DEF HandOut
    <3> QED  BY <3>1 DEF With
  <2>2. CASE pc[t] = "reallocAlloc"
    <3>1. /\ owners' = With(owners, p, {}) /\ newp' = [newp EXCEPT ![t] = p]
          /\ Goto(t, "reallocCopy") /\ UNCHANGED <<sz, ptr>>
      BY <2>2 DEF HandOut
    <3> QED  BY <2>2, <3>1 DEF With
  <2> QED  BY <2>1, <2>2
<1>4. /\ \A u \in Threads \ {t} : pc'[u] = pc[u] /\ ptr'[u] = ptr[u] /\ newp'[u] = newp[u] /\ sz'[u] = sz[u]
      /\ pc'[t] = IF o = {} THEN "reallocCopy" ELSE "idle"
      /\ o = {} => newp'[t] = p /\ ptr'[t] = ptr[t] /\ sz'[t] = n
      /\ Types'
  <2>0. Types
    BY DEF IInv
  <2>1. CASE o = {}
    <3>1. newp' = [newp EXCEPT ![t] = p] /\ Goto(t, "reallocCopy") /\ UNCHANGED <<sz, ptr>>
          /\ sz[t] = n
      BY <1>1, <1>3, <2>1
    <3> QED  BY <2>0, <2>1, <3>1 DEF Goto, Types, Pcs, Pointers
  <2>2. CASE o # {}
    <3>1. Return(t)
      BY <1>3, <2>2
    <3> QED  BY <2>0, <2>2, <3>1, ReturnTypes
  <2> QED  BY <2>1, <2>2
<1>5. Phase'
  <2>1. pc'[t] \notin {"openA", "openF"}
    BY <1>4
  <2> QED  BY <1>1, <1>4, <2>1, OpenPhase DEF IInv
<1>6. /\ DOMAIN asked = DOMAIN owners /\ DOMAIN owners \subseteq Items /\ defaultpoola \subseteq DOMAIN owners
      /\ DOMAIN filled = DOMAIN owners
  BY DEF IInv, Own, Owners, Contents
<1>7. Owners'
  <2>1. /\ DOMAIN asked' = DOMAIN owners' /\ DOMAIN owners' \subseteq Items'
        /\ defaultpoola' \subseteq DOMAIN owners'
    BY <1>2, <1>3, <1>6
  <2>2. \A q \in defaultpoola' : asked'[q] <= item'[q].size
    BY <1>1, <1>2, <1>6 DEF IInv, Own, Owners
  <2>3. IsFiniteSet(o) /\ o \subseteq Threads /\ (o # {} => Cardinality(o) = 1)
    <3>1. CASE o = {}
      BY <3>1, FS_EmptySet
    <3>2. CASE o = {t}
      BY <3>2, FS_Singleton
    <3> QED  BY <3>1, <3>2
  <2>4. ASSUME NEW q \in DOMAIN owners \cup {p}
        PROVE  /\ IsFiniteSet(owners'[q]) /\ owners'[q] \subseteq Threads /\ asked'[q] \in Nat
               /\ owners'[q] # {} => q \in defaultpoola' /\ item'[q].refCnt = Cardinality(owners'[q])
    <3>1. CASE q = p
      BY <1>1, <1>2, <1>3, <2>3, <3>1
    <3>2. CASE q # p
      BY <1>2, <1>3, <1>6, <2>4, <3>2 DEF IInv, Own, Owners
    <3> QED  BY <3>1, <3>2
  <2>5. \A q \in DOMAIN owners' :
            /\ IsFiniteSet(owners'[q]) /\ owners'[q] \subseteq Threads /\ asked'[q] \in Nat
            /\ owners'[q] # {} => q \in defaultpoola' /\ item'[q].refCnt = Cardinality(owners'[q])
    BY <1>3, <2>4
  <2> QED  BY <2>1, <2>2, <2>5 DEF Owners
<1>8. Orphans'
  <2>1. \A u \in Threads \ {t} : Mine(u)' = Mine(u) /\ p \notin Mine(u)
    <3>1. \A u \in Threads \ {t} : Mine(u)' = Mine(u)
      BY <1>4 DEF Mine
    <3>2. \A u \in Threads : p \notin Mine(u)
      BY DEF IInv, Own, Orphans
    <3> QED  BY <3>1, <3>2
  <2>2. Mine(t)' = IF o = {} THEN {p} ELSE {}
    BY <1>4 DEF Mine
  <2>3. \A u \in Threads : \A q \in Mine(u)' : q \in defaultpoola' /\ owners'[q] = {}
    BY <1>3, <1>6, <2>1, <2>2 DEF IInv, Own, Orphans
  <2>4. \A u, v \in Threads : u # v => Mine(u)' \cap Mine(v)' = {}
    BY <2>1, <2>2 DEF IInv, Own, Orphans
  <2>5. ASSUME NEW q \in defaultpoola', owners'[q] = {} PROVE \E u \in Threads : q \in Mine(u)'
    <3>1. CASE q = p
      BY <1>3, <2>2, <2>5, <3>1
    <3>2. CASE q # p
      <4>1. q \in defaultpoola /\ owners[q] = {}
        BY <1>3, <1>6, <2>5, <3>2
      <4>2. PICK u \in Threads : q \in Mine(u)
        BY <4>1 DEF IInv, Own, Orphans
      <4> QED  BY <1>1, <2>1, <4>2
    <3> QED  BY <3>1, <3>2
  <2> QED  BY <2>3, <2>4, <2>5 DEF Orphans
<1>9. Calls'
  <2>1. \A u \in Threads : pc[u] \in {"reallocAlloc", "reallocCopy"} =>
            ptr[u] \in DOMAIN owners /\ owners[ptr[u]] = {u} /\ ptr[u] # p
    BY <1>6 DEF IInv, Own, Owners, Calls
  <2>2. \A u \in Threads : pc[u] = "reallocCopy" => newp[u] \in DOMAIN asked /\ newp[u] # p
    BY <1>6 DEF IInv, Own, Orphans, Mine
  <2>3. ASSUME NEW u \in Threads, u # t
        PROVE  /\ pc'[u] \in {"openA", "openF", "test", "alloc", "reallocAlloc", "reallocCopy"} => sz'[u] \in Requests
               /\ pc'[u] \in {"reallocAlloc", "reallocCopy"} =>
                      ptr'[u] \in DOMAIN owners' /\ owners'[ptr'[u]] = {u}
               /\ pc'[u] = "reallocCopy" => asked'[newp'[u]] = sz'[u] /\ filled'[newp'[u]] = 0
    BY <1>2, <1>3, <1>4, <1>6, <2>1, <2>2, <2>3 DEF IInv, Own, Calls
  <2>4. /\ pc'[t] \in {"openA", "openF", "test", "alloc", "reallocAlloc", "reallocCopy"} => sz'[t] \in Requests
        /\ pc'[t] \in {"reallocAlloc", "reallocCopy"} =>
               ptr'[t] \in DOMAIN owners' /\ owners'[ptr'[t]] = {t}
        /\ pc'[t] = "reallocCopy" => asked'[newp'[t]] = sz'[t] /\ filled'[newp'[t]] = 0
    BY <1>2, <1>3, <1>4, <2>1
  <2> QED  BY <2>3, <2>4 DEF Calls
<1>10. Contents'
  <2>1. ASSUME NEW q \in defaultpoola'
        PROVE  /\ filled'[q] \in Nat /\ filled'[q] <= item'[q].size
               /\ Payload(q, item'[q].size) \cap dirty' = Payload(q, filled'[q])
    <3>1. CASE q = p
      <4>1. Payload(p, 0) = {} /\ filled'[p] = 0
        BY <1>2, FromPayload
      <4> QED  BY <3>1, <4>1
    <3>2. CASE q # p
      <4>1. q \in defaultpoola /\ filled'[q] = filled[q] /\ item'[q] = item[q]
        BY <1>2, <1>6, <2>1, <3>2
      <4> QED  BY <4>1 DEF IInv, Contents
    <3> QED  BY <3>1, <3>2
  <2>2. DOMAIN filled' = DOMAIN owners'
    BY <1>2, <1>3, <1>6
  <2> QED  BY <2>1, <2>2 DEF Contents, Payload, PayloadStart, Region, Offset
<1> QED  BY <1>4, <1>5, <1>7, <1>8, <1>9, <1>10 DEF Own

\* A free block becomes a handed out one, no larger than it was.
LEMMA ReusedIsFine ==
    ASSUME IInv, NEW t \in Threads, NEW n \in Requests, Alloc(t, n),
           NEW p \in defaultpoolf, BufSize(n) <= item[p].size, HandOut(t, p, n),
           DOMAIN item' = DOMAIN item, \A q \in Items \ {p} : item'[q] = item[q],
           item'[p] = [size |-> BufSize(n), refCnt |-> 1, mode |-> item[p].mode],
           defaultpoolf' = defaultpoolf \ {p}, defaultpoola' = defaultpoola \cup {p},
           UNCHANGED <<poolaOpen, poolfOpen, regions, dirty>>
    PROVE  IInv'
<1>2. /\ BufSize(n) \in Nat /\ BufSize(n) >= n /\ n \in Nat
  BY BufSizeIsEnough
<1>3. /\ p \in Items /\ p \notin defaultpoola /\ p \in Nat \X Nat
      /\ item[p] \in [size : Nat, refCnt : Nat, mode : Modes]
  BY DEF Items, IInv, Heap, Layout
<1>5. Items' = Items /\ (defaultpoola \cap defaultpoolf = {})'
  BY <1>3 DEF Items, IInv, Heap, Layout
<1>6. \A q \in Items : /\ item'[q] \in [size : Nat, refCnt : Nat, mode : Modes]
                       /\ item'[q].size <= item[q].size /\ item'[q].mode = item[q].mode
                       /\ item[q].size \in Nat
  <2>1. \A q \in Items : item[q] \in [size : Nat, refCnt : Nat, mode : Modes]
    BY DEF IInv, Heap, Layout
  <2> QED  BY <1>2, <1>3, <2>1
<1>7. Layout' /\ Apart' /\ ExitFreesEachRegionOnce'
  BY <1>5, <1>6, SameShape DEF IInv, Heap
<1>8. Zero'
  <2>1. \A q \in defaultpoolf' : q \in Items /\ q # p /\ q \in defaultpoolf
    BY DEF Items
  <2> QED  BY <2>1 DEF IInv, Heap, Zero, FreeIsZero, Payload, PayloadStart, Region, Offset
<1>9. Types' /\ Phase' /\ Own' /\ Contents'
  <2>1. item'[p].refCnt = 1 /\ item'[p].size >= n /\ item'[p].size = BufSize(n)
    BY <1>2
  <2>4. Payload(p, BufSize(n)) \cap dirty = {}
    <3>1. Payload(p, BufSize(n)) \subseteq Payload(p, item[p].size)
      BY <1>2, <1>3, PayloadPrefix
    <3> QED  BY <3>1 DEF IInv, Heap, Zero, FreeIsZero
  <2>2. \A q \in defaultpoola : item'[q] = item[q]
    BY <1>3 DEF Items
  <2>3. Items \cup {p} \subseteq Items'
    BY <1>3, <1>5
  <2> QED  BY <1>2, <1>3, <2>1, <2>2, <2>3, <2>4, HandOutStep
<1> QED  BY <1>7, <1>8, <1>9 DEF IInv, Heap

LEMMA ReusedStep ==
    ASSUME IInv, NEW t \in Threads, NEW n \in Requests, AllocLargeReused(t, n) \/ AllocSmallReused(t, n)
    PROVE  IInv'
<1>1. /\ BufSize(n) \in Nat /\ Alloc(t, n) /\ UNCHANGED <<poolaOpen, poolfOpen, regions, dirty>>
  BY BufSizeIsEnough DEF AllocLargeReused, AllocSmallReused
<1>2. \A p \in defaultpoolf :
          p \in DOMAIN item /\ item[p] \in [size : Nat, refCnt : Nat, mode : Modes] /\ item[p].size \in Nat
  BY DEF Items, IInv, Heap, Layout
<1>3. CASE AllocLargeReused(t, n)
  <2>1. PICK p \in LowerBound(defaultpoolf, BufSize(n)) \ {NoItem} :
            /\ item' = [item EXCEPT ![p].size = BufSize(n), ![p].refCnt = 1]
            /\ defaultpoolf' = defaultpoolf \ {p}
            /\ defaultpoola' = defaultpoola \cup {p}
            /\ HandOut(t, p, n)
    BY <1>3 DEF AllocLargeReused
  <2>2. p \in defaultpoolf /\ item[p].size >= BufSize(n)
    BY DEF LowerBound, Fitting
  <2>3. BufSize(n) <= item[p].size
    BY <1>1, <1>2, <2>2
  <2>4. /\ DOMAIN item' = DOMAIN item /\ \A q \in Items \ {p} : item'[q] = item[q]
        /\ item'[p] = [size |-> BufSize(n), refCnt |-> 1, mode |-> item[p].mode]
    BY <1>2, <2>1, <2>2 DEF IInv, Heap, Layout
  <2> QED  BY <1>1, <2>1, <2>2, <2>3, <2>4, ReusedIsFine
<1>4. CASE AllocSmallReused(t, n)
  <2>1. PICK p \in defaultpoolf :
            /\ item[p].size = BufSize(n)
            /\ item' = [item EXCEPT ![p].refCnt = 1]
            /\ defaultpoolf' = defaultpoolf \ {p}
            /\ defaultpoola' = defaultpoola \cup {p}
            /\ HandOut(t, p, n)
    BY <1>4 DEF AllocSmallReused, Exact
  <2>2. BufSize(n) <= item[p].size
    BY <1>1, <2>1
  <2>3. /\ DOMAIN item' = DOMAIN item /\ \A q \in Items \ {p} : item'[q] = item[q]
        /\ item'[p] = [size |-> BufSize(n), refCnt |-> 1, mode |-> item[p].mode]
    BY <1>2, <2>1 DEF IInv, Heap, Layout
  <2> QED  BY <1>1, <2>1, <2>2, <2>3, ReusedIsFine
<1> QED  BY <1>3, <1>4

\* A block that lies behind all others.
LEMMA LargeNewStep == ASSUME IInv, NEW t \in Threads, NEW n \in Requests, AllocLargeNew(t, n) PROVE IInv'
<1> DEFINE p == NewRegion
           b == BufSize(n)
<1>1. /\ Alloc(t, n) /\ HandOut(t, p, n)
      /\ regions' = Append(regions, b + HeaderSize)
      /\ item' = With(item, p, Header(b, "LARGEBLOCK"))
      /\ defaultpoola' = defaultpoola \cup {p}
      /\ UNCHANGED <<poolaOpen, poolfOpen, defaultpoolf, dirty>>
  BY DEF AllocLargeNew, Malloc
<1>2. /\ b \in Nat /\ b >= n /\ n \in Nat
  BY BufSizeIsEnough
<1>3. /\ regions \in Seq(Nat) /\ Len(regions) \in Nat /\ b + HeaderSize \in Nat
      /\ regions' \in Seq(Nat) /\ Len(regions') = Len(regions) + 1
      /\ \A r \in 1 .. Len(regions) : regions'[r] = regions[r]
      /\ regions'[Len(regions) + 1] = b + HeaderSize
  BY <1>1, <1>2, Sizes DEF IInv, Heap, Layout
<1>4. /\ p \in Nat \X Nat /\ Region(p) = Len(regions) + 1 /\ Offset(p) = 0 /\ PayloadStart(p) = HeaderSize
      /\ p = <<Len(regions) + 1, 0>>
  BY <1>3, Sizes DEF NewRegion, Region, Offset, PayloadStart
<1>5. \A q \in Items : /\ q \in Nat \X Nat /\ Region(q) \in 1 .. Len(regions) /\ Region(q) # Region(p) /\ q # p
                       /\ item[q] \in [size : Nat, refCnt : Nat, mode : Modes]
                       /\ PayloadStart(q) + item[q].size <= regions[Region(q)]
  <2>1. \A q \in Items : /\ q \in Nat \X Nat /\ Region(q) \in 1 .. Len(regions)
                         /\ item[q] \in [size : Nat, refCnt : Nat, mode : Modes]
                         /\ PayloadStart(q) + item[q].size <= regions[Region(q)]
    BY DEF IInv, Heap, Layout
  <2>2. Region(p) \notin 1 .. Len(regions)
    BY <1>3, <1>4
  <2> QED  BY <2>1, <2>2
<1>6. /\ Items' = Items \cup {p} /\ DOMAIN item' = Items' /\ (defaultpoola \cap defaultpoolf = {})'
      /\ \A q \in Items : item'[q] = item[q]
      /\ item'[p] = [size |-> b, refCnt |-> 1, mode |-> "LARGEBLOCK"]
  BY <1>1, <1>5 DEF Items, With, Header, IInv, Heap, Layout
<1>7. Layout'
  <2>1. ASSUME NEW q \in Items'
        PROVE  /\ q \in Nat \X Nat /\ Region(q) \in 1 .. Len(regions')
               /\ item'[q] \in [size : Nat, refCnt : Nat, mode : Modes]
               /\ PayloadStart(q) + item'[q].size <= regions'[Region(q)]
    <3>1. CASE q = p
      BY <1>2, <1>3, <1>4, <1>6, <3>1, Sizes DEF Modes
    <3>2. CASE q \in Items
      <4>1. Region(q) \in 1 .. Len(regions) /\ regions'[Region(q)] = regions[Region(q)] /\ item'[q] = item[q]
        BY <1>3, <1>5, <1>6, <3>2
      <4>2. Region(q) \in 1 .. Len(regions')
        BY <1>3, <4>1
      <4> QED  BY <1>5, <3>2, <4>1, <4>2
    <3> QED  BY <1>6, <3>1, <3>2
  <2> QED  BY <1>3, <1>6, <2>1 DEF Layout, PayloadStart, Region, Offset
<1>8. Apart'
  BY <1>5, <1>6 DEF Apart, Beyond, PayloadStart, Region, Offset, IInv, Heap
<1>9. ExitFreesEachRegionOnce'
  <2>1. \A q \in Items' : item'[q].mode # "SMALLBLOCK" => Offset(q) = 0
    BY <1>4, <1>6 DEF IInv, Heap, ExitFreesEachRegionOnce
  <2>2. ASSUME NEW r \in 1 .. Len(regions')
        PROVE  \E q \in Items' : q = <<r, 0>> /\ item'[q].mode # "SMALLBLOCK"
    <3>1. CASE r = Len(regions) + 1
      BY <1>4, <1>6, <3>1
    <3>2. CASE r \in 1 .. Len(regions)
      BY <1>6, <3>2 DEF IInv, Heap, ExitFreesEachRegionOnce
    <3> QED  BY <1>3, <3>1, <3>2
  <2> QED  BY <2>1, <2>2 DEF ExitFreesEachRegionOnce, Offset
<1>10. Zero'
  <2>1. \A q \in defaultpoolf : item'[q] = item[q]
    BY <1>6 DEF Items
  <2>2. \A c \in dirty : c[1] \in 1 .. Len(regions')
    BY <1>3 DEF IInv, Heap, Zero
  <2> QED  BY <1>1, <2>1, <2>2 DEF IInv, Heap, Zero, FreeIsZero, Payload, PayloadStart, Region, Offset
<1>11. Types' /\ Phase' /\ Own' /\ Contents'
  <2>1. p \notin defaultpoola /\ \A q \in defaultpoola : item'[q] = item[q]
    BY <1>5, <1>6 DEF Items
  <2>2. item'[p].refCnt = 1 /\ item'[p].size >= n /\ item'[p].size = b
    BY <1>2, <1>6
  <2>3. Payload(p, b) \cap dirty = {}
    BY <1>3, <1>4 DEF Payload, IInv, Heap, Zero
  <2> QED  BY <1>1, <1>2, <1>4, <1>6, <2>1, <2>2, <2>3, HandOutStep
<1> QED  BY <1>7, <1>8, <1>9, <1>10, <1>11 DEF IInv, Heap

\* The pieces of a block that is cut start at multiples of their size, the
\* first where the block starts, and end before what the cut asked for.
LEMMA PieceAt ==
    ASSUME NEW p \in Nat \X Nat, Offset(p) = 0, NEW n \in Requests,
           NEW q \in Siblings(p, BufSize(n)) \cup {p}
    PROVE  \E k \in Nat : /\ k < MAX_MEMITEMS /\ q \in Nat \X Nat /\ Region(q) = Region(p)
                          /\ Offset(q) = k * (BufSize(n) + HeaderSize)
                          /\ q \in Siblings(p, BufSize(n)) => k > 0
<1> DEFINE s == BufSize(n) + HeaderSize
<1>1. s \in Nat /\ MAX_MEMITEMS \in Nat \ {0}
  BY BufSizeIsEnough, Sizes
<1>2. CASE q \in Siblings(p, BufSize(n))
  <2>1. PICK k \in 1 .. (MAX_MEMITEMS - 1) : q = <<Region(p), Offset(p) + k * s>>
    BY <1>2 DEF Siblings
  <2>2. k \in Nat /\ k < MAX_MEMITEMS /\ k > 0 /\ k * s \in Nat
    BY <1>1
  <2> QED  BY <2>1, <2>2 DEF Region, Offset
<1>3. CASE q = p /\ q \notin Siblings(p, BufSize(n))
  <2>1. 0 * s = 0 /\ 0 < MAX_MEMITEMS
    BY <1>1
  <2> QED  BY <1>3, <2>1
<1> QED  BY <1>2, <1>3

LEMMA PieceFacts ==
    ASSUME NEW p \in Nat \X Nat, Offset(p) = 0, NEW n \in Requests,
           NEW q \in Siblings(p, BufSize(n)) \cup {p}
    PROVE  /\ q \in Nat \X Nat /\ Region(q) = Region(p) /\ Offset(q) \in Nat
           /\ PayloadStart(q) = Offset(q) + HeaderSize
           /\ PayloadStart(q) + BufSize(n) <= CutSize(n)
           /\ q \in Siblings(p, BufSize(n)) => q # p
<1> DEFINE s == BufSize(n) + HeaderSize
<1>1. s \in Nat /\ s > 0 /\ BufSize(n) \in Nat /\ HeaderSize \in Nat /\ MAX_MEMITEMS \in Nat
      /\ s * MAX_MEMITEMS = MAX_MEMITEMS * s
  BY BufSizeIsEnough, Sizes
<1>2. PICK k \in Nat : /\ k < MAX_MEMITEMS /\ q \in Nat \X Nat /\ Region(q) = Region(p)
                       /\ Offset(q) = k * s
                       /\ q \in Siblings(p, BufSize(n)) => k > 0
  BY PieceAt
<1>3. Offset(q) \in Nat /\ Offset(q) + s <= CutSize(n)
  <2>1. k * s + s <= MAX_MEMITEMS * s
    BY <1>1, <1>2, Pieces
  <2> QED  BY <1>1, <1>2, <2>1 DEF CutSize
<1>4. q \in Siblings(p, BufSize(n)) => q # p
  <2>1. k > 0 => 0 * s + s <= k * s
    BY <1>1, Pieces
  <2>2. k > 0 => Offset(q) > 0
    BY <1>1, <1>2, <2>1
  <2> QED  BY <1>2, <2>2
<1>5. PayloadStart(q) = Offset(q) + HeaderSize
  BY DEF PayloadStart
<1>6. PayloadStart(q) + BufSize(n) <= CutSize(n)
  <2>1. Offset(q) + (BufSize(n) + HeaderSize) <= CutSize(n) /\ CutSize(n) \in Nat
    BY <1>1, <1>3 DEF CutSize
  <2> QED  BY <1>1, <1>3, <1>5, <2>1
<1> QED  BY <1>2, <1>3, <1>4, <1>5, <1>6

LEMMA PiecesApart ==
    ASSUME NEW p \in Nat \X Nat, Offset(p) = 0, NEW n \in Requests,
           NEW q \in Siblings(p, BufSize(n)) \cup {p}, NEW r \in Siblings(p, BufSize(n)) \cup {p}, q # r
    PROVE  PayloadStart(q) + BufSize(n) <= Offset(r) \/ PayloadStart(r) + BufSize(n) <= Offset(q)
<1> DEFINE s == BufSize(n) + HeaderSize
<1>1. s \in Nat /\ BufSize(n) \in Nat /\ HeaderSize \in Nat
  BY BufSizeIsEnough, Sizes
<1>2. PICK k \in Nat : q \in Nat \X Nat /\ Region(q) = Region(p) /\ Offset(q) = k * s
  BY PieceAt
<1>3. PICK j \in Nat : r \in Nat \X Nat /\ Region(r) = Region(p) /\ Offset(r) = j * s
  BY PieceAt
<1>4. k < j \/ j < k
  <2>1. Offset(q) # Offset(r)
    BY <1>2, <1>3 DEF Region, Offset
  <2> QED  BY <1>2, <1>3, <2>1
<1>5. Offset(q) + s <= Offset(r) \/ Offset(r) + s <= Offset(q)
  BY <1>1, <1>2, <1>3, <1>4, Pieces
<1>6. Offset(q) \in Nat /\ Offset(r) \in Nat
  BY <1>2, <1>3 DEF Offset
<1>7. PayloadStart(q) + BufSize(n) = Offset(q) + s /\ PayloadStart(r) + BufSize(n) = Offset(r) + s
  BY <1>1, <1>6 DEF PayloadStart
<1> QED  BY <1>5, <1>7

\* Block p, of which nothing but its own bytes and zeroes is known up to
\* CutSize, is cut and its first piece handed out.
LEMMA CutIsFine ==
    ASSUME IInv, NEW t \in Threads, NEW n \in Requests, Alloc(t, n),
           NEW p \in Nat \X Nat, p \notin defaultpoola, Offset(p) = 0, Cut(t, p, n),
           UNCHANGED <<poolaOpen, poolfOpen, dirty>>,
           regions' \in Seq(Nat), Region(p) \in 1 .. Len(regions'), CutSize(n) <= regions'[Region(p)],
           \A r \in 1 .. Len(regions) : r \in 1 .. Len(regions') /\ regions'[r] = regions[r],
           \A r \in 1 .. Len(regions') : r \in 1 .. Len(regions) \/ r = Region(p),
           \A q \in Items : q # p /\ Region(q) = Region(p) => CutSize(n) <= Offset(q),
           \A x \in HeaderSize .. (CutSize(n) - 1) : <<Region(p), x>> \notin dirty
    PROVE  IInv'
<1> DEFINE b == BufSize(n)
           new == Siblings(p, b)
<1>1. /\ b \in Nat /\ b >= n /\ n \in Nat /\ HeaderSize \in Nat \ {0} /\ CutSize(n) \in Nat
  BY BufSizeIsEnough, Sizes DEF CutSize
<1>2. /\ item' = [q \in DOMAIN item \cup new \cup {p} |->
                     IF q = p THEN Header(b, "ALLOCBLOCK")
                     ELSE IF q \in new THEN Header(b, "SMALLBLOCK") ELSE item[q]]
      /\ defaultpoolf' = (defaultpoolf \ {p}) \cup new
      /\ defaultpoola' = defaultpoola \cup {p}
      /\ HandOut(t, p, n)
  BY DEF Cut
<1>3. /\ DOMAIN item = Items /\ defaultpoola \cap defaultpoolf = {} /\ Items = defaultpoola \cup defaultpoolf
      /\ \A q \in Items : /\ q \in Nat \X Nat /\ Region(q) \in 1 .. Len(regions)
                          /\ item[q] \in [size : Nat, refCnt : Nat, mode : Modes]
                          /\ PayloadStart(q) + item[q].size <= regions[Region(q)]
  BY DEF IInv, Heap, Layout, Items
<1>4. \A q \in new \cup {p} :
          /\ q \in Nat \X Nat /\ Region(q) = Region(p) /\ Offset(q) \in Nat
          /\ PayloadStart(q) = Offset(q) + HeaderSize /\ PayloadStart(q) \in Nat
          /\ PayloadStart(q) + b <= CutSize(n) /\ Offset(q) < CutSize(n)
          /\ q \in new => q # p
  <2> SUFFICES ASSUME NEW q \in new \cup {p}
               PROVE  /\ q \in Nat \X Nat /\ Region(q) = Region(p) /\ Offset(q) \in Nat
                      /\ PayloadStart(q) = Offset(q) + HeaderSize /\ PayloadStart(q) \in Nat
                      /\ PayloadStart(q) + b <= CutSize(n) /\ Offset(q) < CutSize(n)
                      /\ q \in new => q # p
    OBVIOUS
  <2>1. /\ q \in Nat \X Nat /\ Region(q) = Region(p) /\ Offset(q) \in Nat
        /\ PayloadStart(q) = Offset(q) + HeaderSize
        /\ PayloadStart(q) + b <= CutSize(n)
        /\ q \in new => q # p
    BY PieceFacts
  <2>2. \A o, h, m, c \in Nat : h > 0 /\ o + h + m <= c => o + h \in Nat /\ o < c
    OBVIOUS
  <2>3. HeaderSize \in Nat /\ HeaderSize > 0 /\ b \in Nat /\ CutSize(n) \in Nat
    BY <1>1
  <2>4. Offset(q) + HeaderSize + b <= CutSize(n)
    BY <2>1
  <2>5. Offset(q) + HeaderSize \in Nat /\ Offset(q) < CutSize(n)
    <3> HIDE DEF b
    <3> QED  BY <2>1, <2>2, <2>3, <2>4
  <2> QED  BY <2>1, <2>5
<1>5. \A q \in new : q \notin Items
  <2> SUFFICES ASSUME NEW q \in new, q \in Items PROVE FALSE
    OBVIOUS
  <2>1. CutSize(n) <= Offset(q) /\ Offset(q) < CutSize(n) /\ Offset(q) \in Nat
    BY <1>3, <1>4
  <2> QED  BY <1>1, <2>1
<1>6. /\ Items' = Items \cup new \cup {p} /\ DOMAIN item' = Items' /\ (defaultpoola \cap defaultpoolf = {})'
      /\ \A q \in Items \ {p} : item'[q] = item[q] /\ q \notin new
      /\ \A q \in new \cup {p} : item'[q].size = b
      /\ \A q \in new : item'[q] = [size |-> b, refCnt |-> 1, mode |-> "SMALLBLOCK"]
      /\ item'[p] = [size |-> b, refCnt |-> 1, mode |-> "ALLOCBLOCK"]
  <2>1. Items' = Items \cup new \cup {p} /\ (defaultpoola \cap defaultpoolf = {})'
    BY <1>2, <1>3, <1>4, <1>5 DEF Items
  <2>2. DOMAIN item' = Items'
    BY <1>2, <1>3, <2>1
  <2>3. \A q \in Items \ {p} : item'[q] = item[q] /\ q \notin new
    BY <1>2, <1>3, <1>5
  <2>4. \A q \in new : item'[q] = [size |-> b, refCnt |-> 1, mode |-> "SMALLBLOCK"]
    BY <1>2, <1>4 DEF Header
  <2>5. item'[p] = [size |-> b, refCnt |-> 1, mode |-> "ALLOCBLOCK"]
    BY <1>2 DEF Header
  <2> QED  BY <2>1, <2>2, <2>3, <2>4, <2>5
<1>7. Layout'
  <2>1. ASSUME NEW q \in Items'
        PROVE  /\ q \in Nat \X Nat /\ Region(q) \in 1 .. Len(regions')
               /\ item'[q] \in [size : Nat, refCnt : Nat, mode : Modes]
               /\ PayloadStart(q) + item'[q].size <= regions'[Region(q)]
    <3>1. CASE q \in new \cup {p}
      <4>1. item'[q] \in [size : Nat, refCnt : Nat, mode : Modes]
        BY <1>1, <1>6, <3>1 DEF Modes
      <4>2. PayloadStart(q) \in Nat /\ regions'[Region(p)] \in Nat
        BY <1>4, <3>1
      <4>3. PayloadStart(q) + b <= regions'[Region(p)]
        <5>1. PayloadStart(q) + b <= CutSize(n) /\ CutSize(n) <= regions'[Region(p)]
          BY <1>4, <3>1
        <5>2. \A x, y, z, w \in Nat : x + y <= z /\ z <= w => x + y <= w
          OBVIOUS
        <5> QED  BY <1>1, <4>2, <5>1, <5>2
      <4> QED  BY <1>4, <1>6, <3>1, <4>1, <4>3
    <3>2. CASE q \in Items \ {p}
      BY <1>3, <1>6, <3>2
    <3> QED  BY <1>6, <3>1, <3>2
  <2> QED  BY <1>6, <2>1 DEF Layout, PayloadStart, Region, Offset
<1>8. Apart'
  <2> SUFFICES ASSUME NEW q \in Items', NEW r \in Items', q # r, Region(q) = Region(r)
               PROVE  \/ PayloadStart(q) + item'[q].size <= Offset(r)
                      \/ PayloadStart(r) + item'[r].size <= Offset(q)
    BY DEF Apart, Beyond, PayloadStart, Region, Offset
  <2>1. ASSUME NEW x \in new \cup {p}, NEW y \in Items \ {p}, Region(x) = Region(y)
        PROVE  PayloadStart(x) + item'[x].size <= Offset(y)
    <3>1. CutSize(n) <= Offset(y) /\ PayloadStart(x) + b <= CutSize(n) /\ item'[x].size = b
      BY <1>4, <1>6, <2>1
    <3>2. Offset(y) \in Nat /\ PayloadStart(x) \in Nat
      <4>1. y \in Nat \X Nat
        BY <1>3, <2>1
      <4> QED  BY <1>4, <2>1, <4>1 DEF Offset
    <3> QED  BY <1>1, <3>1, <3>2
  <2>2. CASE q \in new \cup {p} /\ r \in Items \ {p}
    BY <2>1, <2>2
  <2>3. CASE r \in new \cup {p} /\ q \in Items \ {p}
    BY <2>1, <2>3
  <2>4. CASE q \in Items \ {p} /\ r \in Items \ {p}
    BY <1>6, <2>4 DEF IInv, Heap, Apart, Beyond
  <2>5. CASE q \in new \cup {p} /\ r \in new \cup {p}
    <3>1. item'[q].size = b /\ item'[r].size = b
      BY <1>6, <2>5
    <3> QED  BY <2>5, <3>1, PiecesApart
  <2> QED  BY <1>6, <2>2, <2>3, <2>4, <2>5
<1>9. ExitFreesEachRegionOnce'
  <2>1. \A q \in Items' : item'[q].mode # "SMALLBLOCK" => Offset(q) = 0
    BY <1>6 DEF IInv, Heap, ExitFreesEachRegionOnce
  <2>2. ASSUME NEW r \in 1 .. Len(regions')
        PROVE  \E q \in Items' : q = <<r, 0>> /\ item'[q].mode # "SMALLBLOCK"
    <3>1. CASE r = Region(p)
      <4>1. p = <<r, 0>>
        BY <3>1 DEF Region, Offset
      <4> QED  BY <1>6, <4>1
    <3>2. CASE r # Region(p)
      <4>1. PICK q \in Items : q = <<r, 0>> /\ item[q].mode # "SMALLBLOCK"
        BY <2>2, <3>2 DEF IInv, Heap, ExitFreesEachRegionOnce
      <4>2. q # p
        BY <3>2, <4>1 DEF Region
      <4> QED  BY <1>6, <4>1, <4>2
    <3> QED  BY <3>1, <3>2
  <2> QED  BY <2>1, <2>2 DEF ExitFreesEachRegionOnce, Offset
<1>10. Zero'
  <2>1. ASSUME NEW q \in defaultpoolf' PROVE Payload(q, item'[q].size) \cap dirty = {}
    <3>1. CASE q \in new
      <4> SUFFICES ASSUME NEW c \in Payload(q, b), c \in dirty PROVE FALSE
        BY <1>6, <3>1
      <4>1. /\ c[1] = Region(p) /\ c[2] \in Nat /\ PayloadStart(q) <= c[2] /\ c[2] < PayloadStart(q) + b
        <5>1. q \in Nat \X Nat /\ b \in Nat /\ Region(q) = Region(p)
          BY <1>1, <1>4, <3>1
        <5> QED  BY <5>1, InPayload
      <4>2. c = <<Region(p), c[2]>>
        <5>1. Region(q) = Region(p) /\ c \in {Region(q)} \X (PayloadStart(q) .. (PayloadStart(q) + b - 1))
          BY <1>4, <3>1 DEF Payload
        <5> QED  BY <5>1
      <4>3. PayloadStart(q) \in Nat /\ PayloadStart(q) + b <= CutSize(n) /\ PayloadStart(q) >= HeaderSize
        BY <1>1, <1>4, <3>1
      <4>4. c[2] \in HeaderSize .. (CutSize(n) - 1)
        BY <1>1, <4>1, <4>3
      <4> QED  BY <4>2, <4>4
    <3>2. CASE q \in defaultpoolf \ {p}
      BY <1>3, <1>6, <3>2 DEF IInv, Heap, Zero, FreeIsZero
    <3> QED  BY <1>2, <3>1, <3>2
  <2>2. \A c \in dirty : c[1] \in 1 .. Len(regions')
    BY DEF IInv, Heap, Zero
  <2> QED  BY <2>1, <2>2 DEF Zero, FreeIsZero, Payload, PayloadStart, Region, Offset
<1>11. Types' /\ Phase' /\ Own' /\ Contents'
  <2>1. \A q \in defaultpoola : item'[q] = item[q]
    BY <1>3, <1>6
  <2>2. item'[p].refCnt = 1 /\ item'[p].size >= n /\ item'[p].size = b
    BY <1>1, <1>6
  <2>3. ASSUME NEW c \in Payload(p, b) PROVE c \notin dirty
    <3>1. PICK k \in Nat : k < b /\ c = <<Region(p), PayloadStart(p) + k>>
      BY <1>1, FromPayload
    <3>2. PayloadStart(p) = HeaderSize /\ HeaderSize + b <= CutSize(n)
      BY <1>1, <1>4 DEF PayloadStart
    <3>3. PayloadStart(p) + k \in HeaderSize .. (CutSize(n) - 1)
      <4> HIDE DEF b
      <4> QED  BY <1>1, <3>1, <3>2
    <3> QED  BY <3>1, <3>3
  <2> QED  BY <1>1, <1>2, <1>6, <2>1, <2>2, <2>3, HandOutStep
<1> QED  BY <1>7, <1>8, <1>9, <1>10, <1>11 DEF IInv, Heap

LEMMA SmallCutStep == ASSUME IInv, NEW t \in Threads, NEW n \in Requests, AllocSmallCut(t, n) PROVE IInv'
<1>1. PICK p \in LowerBound(Cuttable, CutSize(n)) \ {NoItem} : Cut(t, p, n)
  BY DEF AllocSmallCut
<1>2. Alloc(t, n) /\ UNCHANGED <<poolaOpen, poolfOpen, regions, dirty>>
  BY DEF AllocSmallCut
<1>3. p \in defaultpoolf /\ item[p].mode # "SMALLBLOCK" /\ item[p].size >= CutSize(n)
  BY DEF LowerBound, Fitting, Cuttable
<1>4. /\ p \in Items /\ p \notin defaultpoola /\ p \in Nat \X Nat /\ Region(p) \in 1 .. Len(regions)
      /\ item[p].size \in Nat /\ PayloadStart(p) + item[p].size <= regions[Region(p)]
      /\ regions \in Seq(Nat) /\ regions[Region(p)] \in Nat
  BY <1>3 DEF Items, IInv, Heap, Layout
<1>5. Offset(p) = 0 /\ PayloadStart(p) = HeaderSize
  <2>1. Offset(p) = 0
    BY <1>3, <1>4 DEF IInv, Heap, ExitFreesEachRegionOnce
  <2> QED  BY <2>1, Sizes DEF PayloadStart
<1>6. CutSize(n) \in Nat /\ HeaderSize \in Nat \ {0}
  BY BufSizeIsEnough, Sizes DEF CutSize
<1>7. CutSize(n) <= item[p].size
  BY <1>3, <1>4, <1>6
<1>8. CutSize(n) <= regions[Region(p)]
  BY <1>4, <1>5, <1>6, <1>7
<1>9. ASSUME NEW q \in Items, q # p, Region(q) = Region(p) PROVE CutSize(n) <= Offset(q)
  <2>1. Beyond(p, q) \/ Beyond(q, p)
    BY <1>4, <1>9 DEF IInv, Heap, Apart
  <2>2. Offset(q) \in Nat /\ item[q].size \in Nat /\ PayloadStart(q) = Offset(q) + HeaderSize
    BY <1>9 DEF IInv, Heap, Layout, Offset, PayloadStart
  <2>3. HeaderSize + item[p].size <= Offset(q) \/ Offset(q) + HeaderSize + item[q].size <= 0
    BY <1>5, <2>1, <2>2 DEF Beyond
  <2>4. HeaderSize + item[p].size <= Offset(q)
    BY <1>6, <2>2, <2>3
  <2>5. \A h, s, c, o \in Nat : h + s <= o /\ c <= s => c <= o
    OBVIOUS
  <2>6. item[p].size \in Nat /\ CutSize(n) \in Nat /\ HeaderSize \in Nat
    BY <1>4, <1>6
  <2> QED  BY <1>7, <2>2, <2>4, <2>5, <2>6
<1>10. ASSUME NEW x \in HeaderSize .. (CutSize(n) - 1) PROVE <<Region(p), x>> \notin dirty
  <2>0. \A h, s, c \in Nat : c <= s => \A y \in h .. (c - 1) : y \in h .. (h + s - 1)
    OBVIOUS
  <2>1. x \in PayloadStart(p) .. (PayloadStart(p) + item[p].size - 1)
    BY <1>4, <1>5, <1>6, <1>7, <2>0
  <2>2. <<Region(p), x>> \in Payload(p, item[p].size)
    BY <2>1 DEF Payload
  <2> QED  BY <1>3, <2>2 DEF IInv, Heap, Zero, FreeIsZero
<1> QED  BY <1>1, <1>2, <1>4, <1>5, <1>8, <1>9, <1>10, CutIsFine

LEMMA SmallNewStep == ASSUME IInv, NEW t \in Threads, NEW n \in Requests, AllocSmallNew(t, n) PROVE IInv'
<1> DEFINE p == NewRegion
<1>1. /\ Alloc(t, n) /\ Cut(t, p, n) /\ regions' = Append(regions, CutSize(n))
      /\ UNCHANGED <<poolaOpen, poolfOpen, dirty>>
  BY DEF AllocSmallNew, Malloc
<1>2. CutSize(n) \in Nat /\ HeaderSize \in Nat
  BY BufSizeIsEnough, Sizes DEF CutSize
<1>3. /\ regions \in Seq(Nat) /\ Len(regions) \in Nat
      /\ regions' \in Seq(Nat) /\ Len(regions') = Len(regions) + 1
      /\ \A r \in 1 .. Len(regions) : r \in 1 .. Len(regions') /\ regions'[r] = regions[r]
      /\ \A r \in 1 .. Len(regions') : r \in 1 .. Len(regions) \/ r = Len(regions) + 1
      /\ regions'[Len(regions) + 1] = CutSize(n)
  BY <1>1, <1>2 DEF IInv, Heap, Layout
<1>4. p \in Nat \X Nat /\ Region(p) = Len(regions) + 1 /\ Offset(p) = 0 /\ Region(p) \notin 1 .. Len(regions)
      /\ Region(p) \in 1 .. Len(regions')
  BY <1>3 DEF NewRegion, Region, Offset
<1>5. \A q \in Items : Region(q) # Region(p)
  BY <1>4 DEF IInv, Heap, Layout
<1>6. p \notin defaultpoola
  BY <1>5 DEF Items
<1>7. \A x \in HeaderSize .. (CutSize(n) - 1) : <<Region(p), x>> \notin dirty
  BY <1>4 DEF IInv, Heap, Zero
<1>8. CutSize(n) <= regions'[Region(p)]
  BY <1>2, <1>3, <1>4
<1>9. /\ \A r \in 1 .. Len(regions') : r \in 1 .. Len(regions) \/ r = Region(p)
      /\ \A q \in Items : q # p /\ Region(q) = Region(p) => CutSize(n) <= Offset(q)
  BY <1>3, <1>4, <1>5
<1> QED  BY <1>1, <1>3, <1>4, <1>6, <1>7, <1>8, <1>9, CutIsFine

-----------------------------------------------------------------------------
(* The whole specification                                                 *)

LEMMA AllocatingStep == ASSUME IInv, NEW t \in Threads, Allocating(t) PROVE IInv'
<1>1. PICK n \in Requests :
          \/ AllocFails(t, n) \/ AllocLargeReused(t, n) \/ AllocLargeNew(t, n)
          \/ AllocSmallReused(t, n) \/ AllocSmallCut(t, n) \/ AllocSmallNew(t, n)
  BY DEF Allocating
<1> QED  BY <1>1, FailStep, ReusedStep, LargeNewStep, SmallCutStep, SmallNewStep

LEMMA NextKeeps == ASSUME OneStarter, IInv, [Next]_vars PROVE IInv'
<1>1. CASE UNCHANGED vars
  <2> USE <1>1 DEF vars, poolVars, heapVars, ownerVars, callVars
  <2>1. Heap'
    BY SameHeap DEF IInv
  <2>2. Types' /\ Phase'
    BY DEF IInv, Types, Phase, Items
  <2>3. \A u \in Threads : Mine(u)' = Mine(u)
    BY DEF Mine
  <2>4. Owners' /\ Calls'
    BY DEF IInv, Own, Owners, Calls, Items
  <2>5. Orphans'
    BY <2>3 DEF IInv, Own, Orphans
  <2>6. Contents'
    BY SameContents DEF IInv
  <2> QED  BY <2>1, <2>2, <2>4, <2>5, <2>6 DEF IInv, Own
<1>2. CASE Next
  <2>1. PICK t \in Threads :
            \/ CallAlloc(t) \/ OpenA(t) \/ OpenF(t) \/ TestPools(t) \/ Allocating(t)
            \/ Share(t) \/ Release(t) \/ GiveUp(t) \/ Free(t) \/ Write(t)
            \/ ReallocTest(t) \/ ReallocCopy(t)
    BY <1>2 DEF Next
  <2> QED  BY <2>1, StartStep, AllocatingStep, ShareStep, ReleaseStep, GiveUpStep, FreeStep, WriteStep,
              ReallocTestStep, ReallocCopyStep
<1> QED  BY <1>1, <1>2

LEMMA InductiveInvariant == ASSUME OneStarter PROVE Spec => []IInv
<1>1. IInv /\ [Next]_vars => IInv'
  BY NextKeeps
<1> QED  BY InitIInv, <1>1, PTL DEF Spec

\* Headers, pools and calls keep their types (TFMEM.C, MEMITEM and the pools).
THEOREM TypeCorrect == ASSUME OneStarter PROVE Spec => []TypeOK
BY InductiveInvariant, TypesFromIInv, PTL

\* However blocks were handed back, reused for less and cut, no two of them
\* overlap and none reaches past its region (TFalloc).
THEOREM BlocksNeverOverlap == ASSUME OneStarter PROVE Spec => []ItemsDisjoint
BY InductiveInvariant, DisjointFromIInv, PTL

\* A block is at least as large as its owner asked, over TFrealloc too, and
\* stays handed out while it has an owner (TFalloc, TFrealloc, TFdecrefcnt).
THEOREM BlocksAreBigEnough == ASSUME OneStarter PROVE Spec => []BigEnough
BY InductiveInvariant, RestFromIInv, PTL

\* What _TFexit frees is each block of malloc, once.
THEOREM ExitIsExact == ASSUME OneStarter PROVE Spec => []ExitFreesEachRegionOnce
BY InductiveInvariant, RestFromIInv, PTL

\* TFalloc hands out zeroed memory without zeroing it: TFfree did.
THEOREM HandedOutZeroed == ASSUME OneStarter PROVE Spec => []FreeIsZero
BY InductiveInvariant, RestFromIInv, PTL

\* A block that is handed out has owners, and the count in its header is their
\* number, or it is the matter of exactly one call: the last one to let go and
\* nobody else frees it (TFincrefcnt, TFdecrefcnt, TFfree, TFrealloc).
THEOREM CountIsOwners == ASSUME OneStarter PROVE Spec => []RefCountsOwners
BY InductiveInvariant, RefCountsFromIInv, PTL

\* What an owner wrote stays in its block and the rest of the block is zero, over
\* every TFrealloc and whatever the other threads do (TFalloc, TFrealloc, TFfree).
THEOREM ContentsStay == ASSUME OneStarter PROVE Spec => []ContentsKept
BY InductiveInvariant, ContentsFromIInv, PTL
=============================================================================
