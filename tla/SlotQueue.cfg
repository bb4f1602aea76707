CONSTANTS
    t1 = t1
    t2 = t2
    t3 = t3
    Tasks <- MCTasks
    MaxConcurrent = 1
SPECIFICATION FairSlotSpec
INVARIANT NoIdleSlot
PROPERTIES NotOvertaken LineMoves
