CONSTANTS
    a = a
    b = b
    a1 = a1
    a2 = a2
    b1 = b1
    c1 = c1
    c2 = c2
    none = none
    noid = noid
    NoTask = none
    NoID = noid
    IdOf <- MCIdOf
    MaxConcurrent = 1
    Transient <- Nobody
    IDs <- OneID
    Tasks <- TasksA
    Callers <- TwoCallers
    Calls <- StopAndSubmit
    Faults <- TunnelLost
SPECIFICATION Spec
SYMMETRY Symmetry
INVARIANTS OneRunPerTask TakenOnlyWhileLive TrackedIsActive CancelIsTerminal
