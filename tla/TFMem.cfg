SPECIFICATION Spec
CONSTANTS
    t1 = t1
    t2 = t2
    NoItem = null
    null = null
    Threads = {t1, t2}
    Starters = {t1}
    Requests <- AllSizes
    HeaderSize = 1
    MAX_MEMITEMS = 2
    MidLimit = 3
    SmallLimit = 4
    SmallGrain = 1
    MidGrain = 4
    LargeGrain = 1
    Slack = 1
    MaxHeap = 12
    MaxRefs = 2
    MaxHeld = 2
INVARIANTS TypeOK ItemsDisjoint BigEnough ExitFreesEachRegionOnce FreeIsZero RefCountsOwners ContentsKept
