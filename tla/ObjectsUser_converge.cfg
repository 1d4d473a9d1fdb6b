\* One instance, fair, two mishaps: retries, crashes, edits, replaced keys, removed
\* Secrets, and a Secret that may be there before.
CONSTANTS
    None = None
    Resources = {r1}
    Workers = {w1}
    Orphans = {}
    UserIDs = {u1, u2, u3}
    Keys = {k1, k2}
    Names = {n1}
    TagMaps <- OneOrTwoTags
    SecretRefs = {r1}
    Occupied = {r1}
    MaxMishaps = 2
SPECIFICATION FairSpec
ACTION_CONSTRAINT IDsInOrder
CHECK_DEADLOCK FALSE
INVARIANTS EveryUserAccountedFor
PROPERTIES UsersConverge DeletionCompletes CreationCompletes
