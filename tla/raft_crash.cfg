CONSTANTS
    Server = {s1, s2, s3}
    Command = {c}
    Nil = Nil
    MaxTerm = 2
    MaxLog = 1
    MaxCrashes = 1
    MaxCalls = 2
    Electable = {s1, s2}
    KeepCalls = FALSE
SPECIFICATION Spec
INVARIANTS OneLeaderPerTerm VotesAreDurable AcksAreDurable
SYMMETRY Symmetry
VIEW Seen
CHECK_DEADLOCK FALSE
