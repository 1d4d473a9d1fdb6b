\* One resource: its name is edited after the bucket is made.
CONSTANTS
    None = None
    Resources = {r1}
    Workers = {w1}
    Orphans = {}
    Names = {n1, n2}
    Unnamed = FALSE
    Regions = {g1}
    Policies <- DeleteIfEmptyOnly
    Accounts = {a1}
    Taken = {}
    Webhook = TRUE
    MaxMishaps = 1
SPECIFICATION Spec
CHECK_DEADLOCK FALSE
PROPERTIES ImmutableOnceCreated
