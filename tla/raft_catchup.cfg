CONSTANTS
    Winner = w
    Behind = b
    Third = t
    Server = {w, b, t}
    Command = {c}
    Nil = Nil
    MaxTerm = 4
    MaxLog = 4
    MaxOld = 3
    MaxCrashes = 1
    MaxCalls = 2
    Electable = {}
    KeepCalls = FALSE
SPECIFICATION CatchUpSpec
INVARIANTS TypeOK LogMatching 
PROPERTIES CommittedIsFinal CatchesUp CommandsAreApplied
CHECK_DEADLOCK FALSE
