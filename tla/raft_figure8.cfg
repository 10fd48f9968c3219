CONSTANTS
    Server = {s1, s2, s3}
    Command = {c}
    Nil = Nil
    MaxTerm = 4
    MaxLog = 1
    MaxCrashes = 0
    MaxCalls = 1
    Electable = {s1, s2}
    KeepCalls = TRUE
SPECIFICATION Spec
INVARIANTS LeaderCompleteness StateMachineSafety 
PROPERTIES ImplementsReplicatedLog
SYMMETRY Symmetry
VIEW Seen
CHECK_DEADLOCK FALSE
