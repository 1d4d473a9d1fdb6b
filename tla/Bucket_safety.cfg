\* Two instances, one resource whose name is fixed: adoption, races, conflicts.
CONSTANTS
    None = None
    Resources = {r1}
    Workers = {w1, w2}
    Orphans = {}
    Names = {n1}
    Unnamed = FALSE
    Regions = {g1}
    Policies <- DeleteAllOnly
    Accounts = {a1}
    Taken = {n1}
    Webhook = TRUE
    MaxMishaps = 1
SYMMETRY Interchangeable
SPECIFICATION Spec
CHECK_DEADLOCK FALSE
INVARIANTS TypeOK Exclusion PreexistingNeverAdopted EveryBucketAccountedFor Custody Rightful
PROPERTIES ImplementsExternalResource
