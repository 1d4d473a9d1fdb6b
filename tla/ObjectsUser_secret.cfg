\* One instance, fair: an edit, and the Secret removed while its user is updated.
CONSTANTS
    None = None
    Resources = {r1}
    Workers = {w1}
    Orphans = {}
    UserIDs = {u1}
    Keys = {k1}
    Names = {n1}
    TagMaps <- OnlyNoTags
    SecretRefs = {r1}
    Occupied = {}
    MaxMishaps = 2
SPECIFICATION FairSpec
CHECK_DEADLOCK FALSE
PROPERTIES SecretHasKeys
