\* One fair instance, three mishaps, both policies, the name may be edited.
CONSTANTS
    None = None
    Resources = {r1}
    Workers = {w1}
    Orphans = {}
    Names = {n1}
    Unnamed = TRUE
    Regions = {g1}
    Policies <- BothPolicies
    Accounts = {a1}
    Taken = {}
    Webhook = TRUE
    MaxMishaps = 3
SPECIFICATION FairSpec
CHECK_DEADLOCK FALSE
INVARIANTS EveryBucketAccountedFor DeletedMeansRemoved SpecMatchesStatus
PROPERTIES ObjectsRemovedOnRequest DeletionCompletes CreationCompletes
