CONSTANTS
    Worker = {a, b}
    Pauser = a
    Key = {0, 1, 2}
    None = None
    MaxEpoch = 3
    FENCING = TRUE
    Request = {r1, r2, r3}
    Mode = {"none", "static", "priority", "adaptive"}
    Limit = {1, 2}
    MaxLimit = 2
    MaxPatches = 1
    Endpoint = {"checkout", "report"}
    PoolTotal = 1
    ReportPoolSize = 1
    Client = {q1, q2}
    Policy = {"naive", "budget", "edge"}
    ATTEMPTS = 2
    Unit = 2
    Floor = 1
    Caller = {c1, c2, c3}
    Body = {"x", "y"}
    Impl = {"naive", "lab", "claim", "single", "late", "order"}
    RetryPolicy = {"any", "safe-only"}
    MaxAttempts = 3
    Visit = {v1, v2, v3}
    Fix = {"none", "sticky", "lsn"}
    Thread = {t1, t2, t3, t4}
    PoolSize = 2
    PoolPolicy = {"Unbounded", "BlockForever", "Timeout", "Shed"}
    Hand = {h1, h2, h3}
    JOBS = 3
    BATCH = 2
    Task = {k1, k2, k3, k4}
    MaxRetries = 2
    Pct = 50
    WindowS = 1
    MaxNow = 3
    CreatedAt = {1, 2, 3}
    Id = {1, 2, 3, 4}
    PageLimit = {1, 2, 3}
    MaxPages = 6
    Leg = {l1, l2, l3, l4}
    Hedge = {TRUE, FALSE}
    PerHedge = 2
    Capacity = 1
    MinSamples = 1
    Trip = {p1, p2, p3}
    Budgeted = {TRUE, FALSE}
    PerRetry = 2
    Bank = 1
    Attempts = 2
    MaxFlushes = 1
SPECIFICATION Spec
INVARIANTS ZeroRowsMeanStale LabInv NoLostWakeup BulkheadHolds
    BudgetBoundsTheLoad AmplificationBound
    OneChargePerClaim AnswersMatchTheBody
    SafeMeansSafe ReadsOwnWrites PoolHandsOn EveryJobOnce BudgetOverAllTime WalkIsComplete
    HedgesAreCapped RetriesArePaidFor
SYMMETRY Symmetry
CHECK_DEADLOCK FALSE
