\* One user, one ProviderConfig, one instance, no mishap.
CONSTANTS
    None = None
    Configs = {c1}
    Users = {u1}
    Workers = {w1}
    MaxMishaps = 0
SPECIFICATION Spec
CHECK_DEADLOCK FALSE
PROPERTIES OutlivesUsers
