CONSTANTS
    Request = {r1, r2, r3, r4}
    Mode = {"priority"}
    Limit = {2}
    MaxLimit = 2
    MaxPatches = 0
    Endpoint = {"checkout", "search"}
    PoolTotal = 2
    ReportPoolSize = 1
SPECIFICATION LabSpec
INVARIANT CheckoutIsServedFirst
CHECK_DEADLOCK FALSE
