\* One instance, fair, an orphaning resource: an edit removes one of two tags.
CONSTANTS
    None = None
    Resources = {r1}
    Workers = {w1}
    Orphans = {r1}
    UserIDs = {u1}
    Keys = {k1}
    Names = {}
    TagMaps <- OneOrTwoTags
    SecretRefs = {}
    Occupied = {}
    MaxMishaps = 1
SPECIFICATION FairSpec
CHECK_DEADLOCK FALSE
PROPERTIES TagsFollowSpec
