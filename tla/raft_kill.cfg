CONSTANTS
    Server = {s1, s2, s3}
    Command = {c}
    Nil = Nil
    MaxTerm = 2
    MaxLog = 0
    MaxCrashes = 2
    MaxCalls = 3
    Electable = {s1, s2, s3}
    KeepCalls = FALSE
SPECIFICATION KillSpec
INVARIANT OneLeaderPerTerm
SYMMETRY Symmetry
CHECK_DEADLOCK FALSE
