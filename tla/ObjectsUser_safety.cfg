\* One resource, two instances of the operator, one mishap.
CONSTANTS
    None = None
    Resources = {r1}
    Workers = {w1, w2}
    Orphans = {}
    UserIDs = {u1, u2, u3}
    Keys = {k1}
    Names = {}
    TagMaps <- OnlyNoTags
    SecretRefs = {}
    Occupied = {}
    MaxMishaps = 1
SYMMETRY Interchangeable
SPECIFICATION Spec
CHECK_DEADLOCK FALSE
INVARIANTS TypeOK CreateIsExclusive AtMostOneUser EveryUserAccountedFor Ownership Mandate
PROPERTIES StatusIDNeverChanges DeletedOnlyOnRequest ImplementsExternalResource
