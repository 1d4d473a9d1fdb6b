\* Two resources with one bucket name, two instances, no mishap.
CONSTANTS
    None = None
    Resources = {r1, r2}
    Workers = {w1, w2}
    Orphans = {}
    Names = {n1}
    Unnamed = FALSE
    Regions = {g1}
    Policies <- DeleteIfEmptyOnly
    Accounts = {a1}
    Taken = {}
    Webhook = TRUE
    MaxMishaps = 0
SYMMETRY Interchangeable
SPECIFICATION Spec
CHECK_DEADLOCK FALSE
INVARIANTS OneManagerPerBucket
