CONSTANTS
    a = a
    b = b
    a1 = a1
    a2 = a2
    b1 = b1
    c1 = c1
    c2 = c2
    none = none
    noid = noid
    NoTask = none
    NoID = noid
    IdOf <- MCIdOf
    MaxConcurrent = 1
    Transient <- OneB
    IDs <- TwoIDs
    Tasks <- TasksTwo
    Callers <- OneCaller
    Calls <- SubmitCancel
    Faults <- Failing
SPECIFICATION FairSpec
PROPERTY RunsEnd
