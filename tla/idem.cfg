CONSTANTS
    r1 = r1
    r2 = r2
    r3 = r3
    r4 = r4
    k1 = k1
    k2 = k2
    b1 = b1
    b2 = b2
    h = h
    Request = {r1, r2, r3, r4}
    Key = {k1, k2}
    Body = {b1, b2}
    Lock = {h}
    None = None
    KeyOf <- MCKeyOf
    BodyOf <- MCBodyOf
    LockOf <- MCLockOf
    MaxFailures = 2
SPECIFICATION FairSpec
INVARIANTS  KeyAndEffectTogether AnswersAreTrue
PROPERTY EveryoneIsServed
CHECK_DEADLOCK FALSE
