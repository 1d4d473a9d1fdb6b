---------------------------- MODULE TeardownProofs -----------------------------
(***************************************************************************)
(* Theorems about Teardown, for every number of buckets, operator          *)
(* instances, users and mishaps.                                           *)
(*                                                                         *)
(* A step of one controller leaves the state of the other alone, so what   *)
(* has been proved of each carries over: Users!Provided and Buckets!Held   *)
(* are inductive here, too.  What connects the two is Hosted.              *)
(***************************************************************************)
EXTENDS Teardown, TLAPS

\* Every bucket is hosted by an objects user that exists.
Hosted == \A n \in BucketResources : Buckets!Exists(n) => Users!Live(s3[n].account)

\* The invariant of both.
Together == Users!Provided /\ Buckets!Held /\ Hosted

------------------------------------------------------------------------------
(* What is around a controller. *)

LEMMA CredentialsType ==
    ASSUME secret \in [{Owner} -> Users!Secrets]
    PROVE  /\ Credentials \in [BucketResources -> UserIDs \cup {None}]
           /\ {u \in UserIDs : Users!Live(u)} \in SUBSET UserIDs
BY DEF Credentials, Users!Secrets, Users!NoSecret

\* Who hosts a bucket is a user.
LEMMA AccountType ==
    ASSUME Buckets!Held, NEW n \in BucketResources, Buckets!Exists(n)
    PROVE  s3[n].account \in UserIDs
<1>1. s3[n] \in Buckets!Buckets
  BY DEF Buckets!Held, Buckets!Orderly, Buckets!TypeOK, Buckets!BucketNames
<1>2. QED
  BY <1>1 DEF Buckets!Exists, Buckets!Buckets

\* Names of buckets are those of the resources.
LEMMA NamesDiffer == Buckets!DistinctNames
BY DEF Buckets!DistinctNames, Buckets!GetBucketName, Buckets!Specs

\* A mishap of one controller counts for the other.
LEMMA UserMishaps ==
    ASSUME Users!Provided, [Users!External!Next]_(Users!External!vars)
    PROVE  mishaps \in 0..MaxMishaps /\ mishaps' \in {mishaps, mishaps + 1}
BY DEF Users!Provided, Users!TypeOK, Users!ReconcilerType, Users!External!Next,
       Users!External!vars, Users!External!Ask, Users!External!Withdraw,
       Users!External!Provision, Users!External!Deprovision, Users!External!Release,
       Users!External!Fault

LEMMA BucketMishaps ==
    ASSUME Buckets!Held, [Buckets!External!Next]_(Buckets!External!vars)
    PROVE  mishaps \in 0..MaxMishaps /\ mishaps' \in {mishaps, mishaps + 1}
BY DEF Buckets!Held, Buckets!Orderly, Buckets!TypeOK, Buckets!ReconcilerType,
       Buckets!External!Next,
       Buckets!External!vars, Buckets!External!Ask, Buckets!External!Withdraw,
       Buckets!External!Provision, Buckets!External!Deprovision,
       Buckets!External!Release, Buckets!External!Fault

------------------------------------------------------------------------------
(* Every step of the one is a step aside for the other. *)

\* Both controllers take steps of the abstract life cycle only, or none.
AbstractSteps ==
    /\ [Users!External!Next]_(Users!External!vars)
    /\ [Buckets!External!Next]_(Buckets!External!vars)

\* The step of a controller that is not concerned.
LEMMA BucketsAside ==
    ASSUME Users!Provided, Users!Provided', Buckets!Held, UNCHANGED bucketVars,
           [Users!External!Next]_(Users!External!vars)
    PROVE  Buckets!Held' /\ [Buckets!External!Next]_(Buckets!External!vars)
<1>1. mishaps' \in 0..MaxMishaps /\ mishaps' \in {mishaps, mishaps + 1}
  BY UserMishaps DEF Users!Provided, Users!TypeOK, Users!ReconcilerType
<1>2. secret' \in [{Owner} -> Users!Secrets]
  BY DEF Users!Provided, Users!TypeOK, Users!Secrets
<1>3. /\ Credentials' \in [BucketResources -> UserIDs \cup {None}]
      /\ {u \in UserIDs : Users!Live(u)}' \in SUBSET UserIDs
  BY <1>2 DEF Credentials, Users!Secrets, Users!NoSecret
<1>4. UNCHANGED <<bApi, bCache, bTask, s3, bLost>>
  BY DEF bucketVars
<1>5. QED
  BY <1>1, <1>3, <1>4, Buckets!HeldAside, TeardownAssumption

LEMMA UsersAside ==
    ASSUME Users!Provided, Buckets!Held, Buckets!Held', UNCHANGED userVars,
           [Buckets!External!Next]_(Buckets!External!vars)
    PROVE  Users!Provided' /\ [Users!External!Next]_(Users!External!vars)
<1>1. mishaps' \in 0..MaxMishaps /\ mishaps' \in {mishaps, mishaps + 1}
  BY BucketMishaps DEF Buckets!Held, Buckets!Orderly, Buckets!TypeOK,
                       Buckets!ReconcilerType
<1>2. UNCHANGED <<uApi, uCache, uTask, cloud, secret, uLost>>
  BY DEF userVars
<1>3. QED
  BY <1>1, <1>2, Users!ProvidedAside, TeardownAssumption

\* What the ObjectsUser controller and the outside world do to the users: cloudscale.ch
\* keeps those with buckets.
LEMMA UserStepTogether ==
    ASSUME Together, UserStep
    PROVE  Together' /\ AbstractSteps
<1>1. /\ Users!Provided' /\ [Users!External!Next]_(Users!External!vars)
      /\ KeptByCloud \/ UNCHANGED cloud
  <2>1. CASE Users!Next /\ KeptByCloud
    BY <2>1, Users!ProvidedStep, TeardownAssumption DEF Together
  <2>2. ASSUME NEW w \in Workers, DeletionRefused(w)
        PROVE  /\ Users!Provided' /\ [Users!External!Next]_(Users!External!vars)
               /\ UNCHANGED cloud
    BY <2>2, Users!RefusedDelete, TeardownAssumption DEF DeletionRefused, Together
  <2>3. QED
    BY <2>1, <2>2 DEF UserStep
<1>2. UNCHANGED bucketVars
  BY DEF UserStep
<1>3. Buckets!Held' /\ [Buckets!External!Next]_(Buckets!External!vars)
  BY <1>1, <1>2, BucketsAside DEF Together
<1>4. Hosted'
  <2> SUFFICES ASSUME NEW n \in BucketResources, Buckets!Exists(n)'
               PROVE  Users!Live(s3[n].account)'
    BY DEF Hosted
  <2>1. s3' = s3 /\ Buckets!Exists(n)
    BY <1>2 DEF bucketVars, Buckets!Exists, Buckets!NoBucket
  <2>2. PICK u \in UserIDs : u = s3[n].account
    BY <2>1, AccountType DEF Together
  <2>3. Users!Live(u) /\ n \in BucketsOf(u)
    BY <2>1, <2>2 DEF Together, Hosted, BucketsOf
  <2>4. Users!Live(u)'
    BY <1>1, <2>3 DEF KeptByCloud, Users!Live
  <2>5. QED
    BY <2>1, <2>2, <2>4 DEF Users!Live
<1>5. QED
  BY <1>1, <1>3, <1>4 DEF Together, AbstractSteps

\* What the Bucket controller and the outside world do to the buckets: they are made
\* with a user that exists.
LEMMA BucketStepTogether ==
    ASSUME Together, BucketStep
    PROVE  Together' /\ AbstractSteps
<1>1. Buckets!Held' /\ [Buckets!External!Next]_(Buckets!External!vars)
  BY Buckets!HeldStep, NamesDiffer, TeardownAssumption DEF Together, BucketStep
<1>2. Users!Provided' /\ [Users!External!Next]_(Users!External!vars)
  BY <1>1, UsersAside DEF Together, BucketStep
<1>3. Hosted'
  BY DEF BucketStep, Hosted, userVars, Users!Live
<1>4. QED
  BY <1>1, <1>2, <1>3 DEF Together, AbstractSteps

LEMMA StutterTogether ==
    ASSUME Together, UNCHANGED vars
    PROVE  Together' /\ AbstractSteps
<1>1. UNCHANGED Users!vars /\ UNCHANGED Buckets!vars
  BY DEF vars, userVars, bucketVars, Users!vars, Buckets!vars, Credentials, Users!Live
<1>2. Users!Provided' /\ [Users!External!Next]_(Users!External!vars)
  BY <1>1, Users!ProvidedStep, TeardownAssumption DEF Together
<1>3. Buckets!Held' /\ [Buckets!External!Next]_(Buckets!External!vars)
  BY <1>1, Buckets!HeldStep, NamesDiffer, TeardownAssumption DEF Together
<1>4. Hosted'
  BY DEF vars, userVars, bucketVars, Together, Hosted, Users!Live, Buckets!Exists,
         Buckets!NoBucket
<1>5. QED
  BY <1>2, <1>3, <1>4 DEF Together, AbstractSteps

LEMMA TogetherStep ==
    ASSUME Together, [Next]_vars
    PROVE  Together' /\ AbstractSteps
BY UserStepTogether, BucketStepTogether, StutterTogether DEF Next

------------------------------------------------------------------------------
(* The beginning: an ObjectsUser with its user, and no Bucket yet. *)

LEMMA UsersReady ==
    ASSUME Init
    PROVE  Users!Provided
<1> DEFINE u == CHOOSE x \in UserIDs : TRUE
           o == [Users!Blank EXCEPT !.phase = "live", !.finalizer = TRUE,
                    !.spec = [name |-> None, tags |-> <<>>], !.creation = "succeeded",
                    !.status = u, !.ready = "Available", !.synced = "Success"]
           user == [state |-> "live", owner |-> Owner, name |-> Owner, tags |-> <<>>,
                    key |-> u]
<1>1. u \in UserIDs /\ u # None
  BY TeardownAssumption
<1> HIDE DEF u
<1>2. /\ o.phase = "live" /\ o.finalizer /\ o.status = u /\ o.note = None
      /\ o.creation = "succeeded"
  BY DEF Users!Blank
<1>3. o \in Users!Lives
  BY <1>1 DEF Users!Blank, Users!Lives, Users!LiveObjects, Users!Specs, Users!Creations
<1> HIDE DEF o
<1>4. user \in Users!Users /\ Users!NoUser \in Users!Users
  BY <1>1 DEF Users!Users
<1>5. /\ uApi = [x \in {Owner} |-> o]
      /\ uCache = [w \in Workers |-> [x \in {Owner} |-> [obj |-> o, cur |-> TRUE]]]
      /\ uTask = [w \in Workers |-> [x \in {Owner} |-> Users!Idle]]
      /\ cloud = [x \in UserIDs |-> IF x # u THEN Users!NoUser ELSE user]
      /\ secret = [x \in {Owner} |-> [origin |-> "publisher", key |-> u]]
      /\ uLost = {} /\ mishaps = 0
  BY DEF Init, o, u
<1>6. Users!TypeOK
  <2>1. mishaps \in 0..MaxMishaps
    BY <1>5, TeardownAssumption
  <2>2. Users!ReconcilerType(Users!Steps, Users!Lives, UserIDs)
    BY <1>3, <1>5, <2>1 DEF Users!ReconcilerType, Users!Copies
  <2>3. cloud \in [UserIDs -> Users!Users]
    BY <1>4, <1>5
  <2>4. secret \in [{Owner} -> Users!Secrets]
    BY <1>1, <1>5 DEF Users!Secrets
  <2>5. QED
    BY <1>5, <2>2, <2>3, <2>4 DEF Users!TypeOK
<1>7. Users!Owned(Owner) \subseteq {u} /\ u \in Users!Made(Owner)
  BY <1>1, <1>5 DEF Users!Owned, Users!Made, Users!Live, Users!NoUser
<1>8. Users!Stored(Owner, o, Users!Owned(Owner)) /\ Users!Named(o, Users!Made(Owner))
  BY <1>2, <1>7 DEF Users!Stored, Users!Named
<1>9. \A r \in {Owner} :
        /\ Users!Stored(r, uApi[r], Users!Owned(r)) /\ Users!Named(uApi[r], Users!Made(r))
        /\ \A w \in Workers : uCache[w][r].obj = uApi[r] /\ uTask[w][r] = Users!Idle
  BY <1>5, <1>8
<1>10. QED
  BY <1>5, <1>6, <1>9, Users!ProvidedAtRest, TeardownAssumption

LEMMA BucketsReady ==
    ASSUME Init
    PROVE  Buckets!Held /\ Hosted /\ Buckets!External!Init
<1>1. secret \in [{Owner} -> Users!Secrets]
  BY UsersReady DEF Users!Provided, Users!TypeOK
<1>2. /\ Buckets!ReconcilerInit /\ bLost = {} /\ mishaps = 0
      /\ s3 = [b \in BucketResources |-> Buckets!NoBucket]
  BY DEF Init
<1>3. \A n \in Buckets!BucketNames : s3[n].creator \in {None, "before"}
  BY <1>2 DEF Buckets!BucketNames, Buckets!NoBucket
<1>4. Buckets!CloudType
  BY <1>1, <1>2, CredentialsType
     DEF Buckets!CloudType, Buckets!Buckets, Buckets!BucketNames
<1>5. Buckets!Held
  BY <1>2, <1>3, <1>4, Buckets!HeldStart, TeardownAssumption
<1>6. Hosted
  BY <1>2 DEF Hosted, Buckets!Exists
<1>7. \A q \in BucketResources : Buckets!Wish(q) = "new" /\ Buckets!Owned(q) = {}
  BY <1>2, <1>3, TeardownAssumption
     DEF Buckets!ReconcilerInit, Buckets!Blank, Buckets!Wish, Buckets!Owned, Buckets!Made
<1>8. Buckets!External!Init
  BY <1>2, <1>7 DEF Buckets!External!Init
<1>9. QED
  BY <1>5, <1>6, <1>8

\* The invariant holds in every reachable state, and the steps are abstract ones.
LEMMA TogetherHolds == Spec => []Together /\ [][AbstractSteps]_vars
<1>1. Init => Together
  BY UsersReady, BucketsReady DEF Together
<1>2. Together /\ [Next]_vars => Together' /\ AbstractSteps
  BY TogetherStep
<1>3. QED
  BY <1>1, <1>2, PTL DEF Spec

------------------------------------------------------------------------------
(* What the two controllers promise each other and their users. *)

LEMMA HostedOutlived ==
    ASSUME Together
    PROVE  UserOutlivesBuckets
<1> SUFFICES ASSUME NEW b \in BucketResources, Buckets!Exists(b),
                    s3[b].account \notin uLost
             PROVE  uApi[Owner].phase = "live"
  BY DEF UserOutlivesBuckets
<1>1. PICK u \in UserIDs : u = s3[b].account
  BY AccountType DEF Together
<1>2. Users!Live(u) /\ u \notin uLost
  BY <1>1 DEF Together, Hosted
<1>3. cloud[u].owner = Owner
  BY <1>2 DEF Together, Users!Provided, Users!TypeOK, Users!Users, Users!NoUser,
              Users!Live
<1>4. u \in Users!Owned(Owner)
  BY <1>2, <1>3 DEF Users!Owned
<1>5. Users!Stored(Owner, uApi[Owner], Users!Owned(Owner))
  BY DEF Together, Users!Provided, Users!Ownership
<1>6. QED
  BY <1>4, <1>5 DEF Users!Stored

\* As long as a user with buckets exists that the operator has heard of, the
\* ObjectsUser is there: neither a refused delete call, a crash nor a stale cache lets
\* it go, and with it the Secret, before the last bucket of its user.
THEOREM UserKept == Spec => []UserOutlivesBuckets
<1>1. Together => UserOutlivesBuckets
  BY HostedOutlived
<1>2. QED
  BY <1>1, TogetherHolds, PTL

\* The Secret that the deletion of the buckets needs is not collected before the last
\* one is gone, in whichever order ObjectsUser and Buckets are asked to go.
THEOREM SecretKept == Spec => SecretOutlivesBuckets
<1> DEFINE Hosting == \E b \in BucketResources :
                         Buckets!Exists(b) /\ s3[b].account \notin uLost
           Goes == secret[Owner] # Users!NoSecret /\ secret'[Owner] = Users!NoSecret
<1>1. ASSUME Together, [Next]_vars, Hosting, Goes
      PROVE  mishaps' = mishaps + 1
  <2>1. uApi[Owner].phase = "live"
    BY <1>1, HostedOutlived DEF UserOutlivesBuckets
  <2>2. Users!Next
    BY <1>1 DEF Next, UserStep, BucketStep, DeletionRefused, userVars, vars
  <2>3. Users!SecretRemoved(Owner) \/ Users!CollectSecret(Owner)
    BY <1>1, <2>2, Users!SecretGoes, TeardownAssumption DEF Together, Users!Provided
  <2>4. QED
    BY <2>1, <2>3 DEF Users!SecretRemoved, Users!CollectSecret, Users!Mishap
<1>2. Together /\ [Next]_vars => [Hosting /\ Goes => mishaps' = mishaps + 1]_vars
  BY <1>1
<1>3. QED
  BY <1>2, TogetherHolds, PTL DEF Spec, SecretOutlivesBuckets

\* Refused delete calls and the buckets of the user do not make the ObjectsUser
\* controller create a second user or forget the one it made.
THEOREM UsersAccountedFor ==
    Spec => [](Users!AtMostOneUser /\ Users!EveryUserAccountedFor)
<1>1. Together => Users!AtMostOneUser /\ Users!EveryUserAccountedFor
  BY Users!OwnedByOne, Users!OwnedAccountedFor, TeardownAssumption
     DEF Together, Users!Provided
<1>2. QED
  BY <1>1, TogetherHolds, PTL

\* Credentials that come and go with the ObjectsUser do not make the Bucket controller
\* forget a bucket, believe in a removal that did not happen or mix up names.
THEOREM BucketsAccountedFor ==
    Spec => [](/\ Buckets!EveryBucketAccountedFor /\ Buckets!DeletedMeansRemoved
               /\ Buckets!SpecMatchesStatus)
<1>1. Together => Buckets!EveryBucketAccountedFor /\ Buckets!DeletedMeansRemoved
  BY Buckets!KeptAccountedFor, Buckets!KeptRemoved, TeardownAssumption
     DEF Together, Buckets!Held
<1>2. Together => Buckets!SpecMatchesStatus
  BY DEF Together, Buckets!Held, Buckets!Rightful, Buckets!Fits, Buckets!SpecMatchesStatus
<1>3. QED
  BY <1>1, <1>2, TogetherHolds, PTL

\* A user is deleted for its ObjectsUser only, on request, and objects in a bucket only
\* for a Bucket that holds the lock, on request: whatever the other controller does.
THEOREM RemovedOnRequest ==
    Spec => Users!DeletedOnlyOnRequest /\ Buckets!ObjectsRemovedOnRequest
<1>1. Together =>
        \A w \in Workers, r \in {Owner} :
          Users!DeleteUser(w, r) \/ Users!DeleteAnswerLost(w, r)
            => uApi[r].deleting /\ r \notin {}
               /\ cloud[uTask[w][r].obj.status].owner = r
  <2> SUFFICES ASSUME Together, NEW w \in Workers, NEW r \in {Owner},
                      Users!DeleteUser(w, r) \/ Users!DeleteAnswerLost(w, r)
               PROVE  uApi[r].deleting /\ cloud[uTask[w][r].obj.status].owner = r
    OBVIOUS
  <2>1. uTask[w][r].pc = "delete" /\ Users!Live(uTask[w][r].obj.status)
    BY DEF Users!DeleteUser, Users!DeleteAnswerLost
  <2>2. uTask[w][r].obj.status \in Users!Owned(r) /\ uApi[r].deleting
    BY <2>1, Users!AboutToDelete, TeardownAssumption DEF Together, Users!Provided
  <2>3. QED
    BY <2>2 DEF Users!Owned
<1>2. Together =>
        \A w \in Workers, r \in BucketResources :
          Buckets!RemoveObjects(w, r) =>
            /\ r \notin {}
            /\ bApi[r].phase = "live" => bApi[r].deleting /\ bApi[r].note = "claimed"
            /\ bTask[w][r].cur => bApi[r].spec.policy = "DeleteAll"
  BY Buckets!AboutToRemoveObjects, TeardownAssumption DEF Together, Buckets!Held
<1>3. QED
  BY <1>1, <1>2, TogetherHolds, PTL
     DEF Users!DeletedOnlyOnRequest, Buckets!ObjectsRemovedOnRequest

\* Every step that the ObjectsUser controller takes here, refused delete calls
\* included, is one of the life cycle in ExternalResource, or none.
THEOREM UsersImplement == Spec => [][Users!External!Next]_(Users!External!vars)
<1>1. AbstractSteps => [Users!External!Next]_(Users!External!vars)
  BY DEF AbstractSteps
<1>2. UNCHANGED vars => UNCHANGED Users!External!vars
  BY DEF vars, userVars, Users!External!vars, Users!Wish, Users!Owned, Users!Live
<1>3. QED
  BY <1>1, <1>2, TogetherHolds, PTL

\* The Bucket controller implements the life cycle in ExternalResource here, too,
\* though its credentials are somebody else's to publish and take away.
THEOREM BucketsImplement == Spec => Buckets!ImplementsExternalResource
<1>1. AbstractSteps => [Buckets!External!Next]_(Buckets!External!vars)
  BY DEF AbstractSteps
<1>2. UNCHANGED vars => UNCHANGED Buckets!External!vars
  BY DEF vars, bucketVars, Buckets!External!vars, Buckets!Wish, Buckets!Owned,
         Buckets!Made
<1>3. Init => Buckets!External!Init
  BY BucketsReady
<1>4. QED
  BY <1>1, <1>2, <1>3, TogetherHolds, PTL
     DEF Spec, Buckets!External!Spec, Buckets!ImplementsExternalResource

================================================================================
