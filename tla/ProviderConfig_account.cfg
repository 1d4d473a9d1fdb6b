\* One user that may move from one ProviderConfig to another, one fair instance.
CONSTANTS
    None = None
    Configs = {c1, c2}
    Users = {u1}
    Workers = {w1}
    MaxMishaps = 1
SPECIFICATION FairSpec
CHECK_DEADLOCK FALSE
INVARIANTS TypeOK SettledUsersKeepConfig Accounting
PROPERTIES DeletionCompletes UsersDeleted UsersCounted
