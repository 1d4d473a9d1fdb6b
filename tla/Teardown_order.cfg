\* One Bucket that refers to the Secret, one fair instance, one mishap.
CONSTANTS
    None = None
    Owner = o1
    BucketResources = {b1}
    UserIDs = {u1}
    Region = g1
    Workers = {w1}
    MaxMishaps = 1
SPECIFICATION FairSpec
CHECK_DEADLOCK FALSE
INVARIANTS UserOutlivesBuckets
PROPERTIES SecretOutlivesBuckets TeardownCompletes DeletedBucketsGo
