SPECIFICATION MCSpec
INVARIANTS ListsLinearizable SkipListsLinearizable TreesLinearizable ReusingListsLinearizable NothingInUseIsFreed TreesStayWhole SsallocIsSound LlistWalkVisitsAll BloomNoFalseNegative LocksKeepOrder
PROPERTIES LlistRefinesRetireList LocksRefineMutex
