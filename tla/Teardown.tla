-------------------------------- MODULE Teardown -------------------------------
(***************************************************************************)
(* ObjectsUsers and Buckets together: the modules ObjectsUser and Bucket   *)
(* side by side in every operator instance.  Two things connect them:      *)
(*                                                                         *)
(*  - the Secret that the ObjectsUser controller publishes is the one that *)
(*    a Bucket refers to, and it goes with its ObjectsUser;                *)
(*  - cloudscale.ch does not delete an objects user that has buckets.      *)
(*                                                                         *)
(* So to be deleted a Bucket needs its ObjectsUser to stay, and an         *)
(* ObjectsUser needs its buckets to go, in whatever order somebody asks    *)
(* for the two.                                                            *)
(*                                                                         *)
(* The two modules are instantiated together with the theorems about them, *)
(* which TeardownProofs uses.                                              *)
(***************************************************************************)
EXTENDS Naturals, FiniteSets

CONSTANTS
    Owner,          \* an ObjectsUser
    BucketResources,\* Buckets that refer to its Secret
    UserIDs,        \* IDs of objects users; the keys of a user are known by its ID
    Region, Workers, None, MaxMishaps

ASSUME TeardownAssumption ==
    /\ MaxMishaps \in Nat
    /\ UserIDs # {}
    /\ None \notin UserIDs \cup BucketResources
    /\ None \notin {"claimed", "before", "outside"}
    /\ "noop" \notin UserIDs
    /\ "before" \notin BucketResources /\ "outside" \notin BucketResources

VARIABLES
    uApi, uCache, uTask, cloud, secret, uLost,      \* see ObjectsUser
    bApi, bCache, bTask, s3, bLost,                 \* see Bucket
    mishaps                                         \* of both

userVars == <<uApi, uCache, uTask, cloud, secret, uLost>>
bucketVars == <<bApi, bCache, bTask, s3, bLost>>
vars == <<userVars, bucketVars, mishaps>>

Users == INSTANCE ObjectsUserOwnership WITH
    Resources <- {Owner}, Orphans <- {}, Keys <- UserIDs, Names <- {},
    TagMaps <- {<<>>}, SecretRefs <- {Owner}, Occupied <- {},
    api <- uApi, cache <- uCache, task <- uTask, lost <- uLost

\* The S3 credentials are those in the Secret, and they work while the user exists.
Credentials == [b \in BucketResources |-> secret[Owner].key]

Buckets == INSTANCE BucketNaming WITH
    Resources <- BucketResources, Orphans <- {}, Names <- {}, Unnamed <- TRUE,
    Regions <- {Region}, Policies <- {"DeleteAll"}, Accounts <- UserIDs,
    Taken <- {}, Webhook <- TRUE,
    api <- bApi, cache <- bCache, task <- bTask, lost <- bLost,
    creds <- Credentials, accounts <- {u \in UserIDs : Users!Live(u)}

\* The ObjectsUser is ready and nobody has asked for a Bucket yet: until there is a
\* Secret a Bucket can only fail to connect.
Init ==
    LET u == CHOOSE x \in UserIDs : TRUE
        o == [Users!Blank EXCEPT !.phase = "live", !.finalizer = TRUE,
                 !.spec = [name |-> None, tags |-> <<>>], !.creation = "succeeded",
                 !.status = u, !.ready = "Available", !.synced = "Success"]
    IN  /\ uApi = [x \in {Owner} |-> o]
        /\ uCache = [w \in Workers |-> [x \in {Owner} |-> [obj |-> o, cur |-> TRUE]]]
        /\ uTask = [v \in Workers |-> [x \in {Owner} |-> Users!Idle]]
        /\ cloud = [x \in UserIDs |->
              IF x # u THEN Users!NoUser
              ELSE [state |-> "live", owner |-> Owner, name |-> Owner, tags |-> <<>>,
                    key |-> u]]
        /\ secret = [x \in {Owner} |-> [origin |-> "publisher", key |-> u]]
        /\ uLost = {}
        /\ Buckets!ReconcilerInit /\ mishaps = 0
        /\ s3 = [b \in BucketResources |-> Buckets!NoBucket]
        /\ bLost = {}

------------------------------------------------------------------------------

BucketsOf(u) == {n \in BucketResources : Buckets!Exists(n) /\ s3[n].account = u}

\* A user of cloudscale.ch has keys, for good, and stays while it has buckets.
KeptByCloud ==
    \A u \in UserIDs :
        /\ Users!Live(u)' => cloud'[u].key = u
        /\ Users!Live(u) /\ BucketsOf(u) # {} => Users!Live(u)'

\* Mutant: the refusal is not an error, and the resource is let go.
DeletionRefused_LetGo(w) ==
    LET t == uTask[w][Owner]
    IN  /\ t.pc = "delete" /\ BucketsOf(t.obj.status) # {}
        /\ Users!Goto(w, Owner, [t EXCEPT !.pc = "finalize"])
        /\ UNCHANGED <<mishaps, cloud, secret, uLost>>

\* The delete call is refused: the resource stays, with an error.
DeletionRefused(w) ==
    LET t == uTask[w][Owner]
    IN  /\ t.pc = "delete" /\ BucketsOf(t.obj.status) # {}
        /\ Users!Goto(w, Owner, Users!OnError(t))
        /\ UNCHANGED <<mishaps, cloud, secret, uLost>>

UserProgress(w) ==
    /\ \/ Users!Progress(w, Owner) /\ KeptByCloud
       \/ DeletionRefused(w)
    /\ UNCHANGED bucketVars

UserStep ==
    /\ \/ Users!Next /\ KeptByCloud
       \/ \E w \in Workers : DeletionRefused(w)
    /\ UNCHANGED bucketVars

\* Nobody else makes a bucket with a user that does not exist, either.
BucketStep ==
    /\ UNCHANGED userVars
    /\ Buckets!Next
    /\ \A n \in BucketResources : Buckets!Exists(n)' => Users!Live(s3'[n].account)

Next == UserStep \/ BucketStep

Spec == Init /\ [][Next]_vars

\* As for the two controllers on their own.
Fairness ==
    \A w \in Workers :
        /\ WF_vars(Users!Sync(w, Owner) /\ UNCHANGED <<cloud, secret, uLost, bucketVars>>)
        /\ WF_vars(Users!Begin(w, Owner) /\ UNCHANGED <<cloud, secret, uLost, bucketVars>>)
        /\ WF_vars(UserProgress(w))
        /\ \A b \in BucketResources :
              /\ WF_vars(Buckets!Sync(w, b) /\ UNCHANGED <<userVars, s3, bLost>>)
              /\ WF_vars(Buckets!Begin(w, b) /\ UNCHANGED <<userVars, s3, bLost>>)
              /\ WF_vars(UNCHANGED userVars /\ Buckets!Progress(w, b))

FairSpec == Spec /\ Fairness

------------------------------------------------------------------------------

\* As long as a user with buckets exists, so does the ObjectsUser, and with it the
\* Secret that the deletion of the buckets needs; excepted are users whose create
\* call did not answer.  Neither controller looks at the other's resources: it
\* follows from what cloudscale.ch refuses and from what the ObjectsUser
\* controller makes of the refusal.
UserOutlivesBuckets ==
    \A b \in BucketResources :
        Buckets!Exists(b) /\ s3[b].account \notin uLost => uApi[Owner].phase = "live"

\* So Kubernetes does not collect the Secret before the last bucket is gone: if it
\* goes earlier, somebody removed it.
SecretOutlivesBuckets ==
    [][(\E b \in BucketResources : Buckets!Exists(b) /\ s3[b].account \notin uLost)
          /\ secret[Owner] # Users!NoSecret /\ secret'[Owner] = Users!NoSecret
             => mishaps' = mishaps + 1]_vars

\* The Secret was taken away while its ObjectsUser is being deleted: it is not
\* published again, so nobody can delete the buckets that keep the user.
Withheld == uApi[Owner].deleting /\ secret[Owner].key = None

\* The user is gone, since there was no bucket any more or not yet, or the Secret
\* is; but the status of the Bucket does not say that it was deleted.
Stranded(b) ==
    /\ ~Buckets!Exists(b) /\ ~Users!Live(Credentials[b])
    /\ ~Buckets!IsBucketAlreadyDeleted(bApi[b])

\* What a Bucket that is being deleted may wait for forever.
BucketStuck(b) ==
    \/ Withheld \/ Stranded(b)
    \/ Buckets!Inconclusive(b)
    \/ Buckets!Exists(b) /\ bApi[b].note = None /\ (s3[b].creator # b \/ b \in bLost)

\* What the ObjectsUser that is being deleted may wait for forever.
UserStuck ==
    \E b \in BucketsOf(uApi[Owner].status) : ~bApi[b].deleting \/ BucketStuck(b)

\* In the end whatever is being deleted is gone, both kinds in whichever order
\* they were asked to go: they do not wait for each other, except when the
\* Secret was taken away or a creation did not conclude.
TeardownCompletes ==
    <>[](/\ \A b \in BucketResources : bApi[b].deleting => BucketStuck(b)
         /\ uApi[Owner].deleting => UserStuck)

\* Once the status of a Bucket says that it was deleted, the Bucket goes, whatever
\* becomes of the ObjectsUser and the Secret meanwhile, if nothing else fails.  (A
\* finalizer that cannot be removed overwrites the status: see Stranded.)
DeletedBucketsGo ==
    \A b \in BucketResources :
        (/\ Buckets!IsBucketAlreadyDeleted(bApi[b]) /\ mishaps = MaxMishaps
         /\ \A w \in Workers : bTask[w][b].pc = "idle")
            ~> bApi[b].phase = "gone"

==============================================================================
