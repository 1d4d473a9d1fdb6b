-------------------------------- MODULE Bucket ---------------------------------
(***************************************************************************)
(* The Bucket controller (operator/bucketcontroller): one S3 bucket at     *)
(* cloudscale.ch per Bucket resource, and the admission webhook that makes *)
(* its name and region immutable once the status names a bucket.           *)
(*                                                                         *)
(* A bucket name is the only handle on a bucket and anybody may take it,   *)
(* so Create leaves a lock annotation: Observe accepts an existing bucket  *)
(* only for a resource that carries it.                                    *)
(***************************************************************************)
EXTENDS ManagedReconciler

CONSTANTS
    Names,          \* bucket names given in a spec
    Unnamed,        \* TRUE: a spec may leave the name to metadata.name
    Regions,        \* cloudscale.ch regions
    Policies,       \* spec.forProvider.bucketDeletionPolicy
    Accounts,       \* objects users the S3 credentials belong to
    Taken,          \* names under which there may be a bucket from the start
    Webhook         \* the operator runs with a webhook certificate

ASSUME BucketAssumption ==
    /\ Unnamed \in BOOLEAN /\ Webhook \in BOOLEAN
    /\ Policies \subseteq {"DeleteIfEmpty", "DeleteAll"}
    /\ None \notin Names \cup Resources \cup Accounts
    /\ None \notin {"claimed", "before", "outside"}
    /\ "noop" \notin Accounts
    /\ "before" \notin Resources /\ "outside" \notin Resources

VARIABLES
    s3,             \* s3[n]: the bucket named n
    creds,          \* creds[r]: whose credentials the referenced Secret holds
    accounts,       \* the objects users that exist
    lost            \* ghost: buckets their resource cannot know about

vars == <<api, cache, task, mishaps, s3, creds, accounts, lost>>

------------------------------------------------------------------------------
(* Types *)

Specs == [name: IF Unnamed THEN Names \cup {None} ELSE Names,
          region: Regions, policy: Policies]

BucketNames == Names \cup Resources

\* Ghost creator: the resource that made the bucket, "before" for one that was
\* there from the start, "outside" for one that somebody made later.
NoBucket == [region |-> None, account |-> None, creator |-> None, objects |-> FALSE]

Buckets == {NoBucket} \cup
    [region: Regions, account: Accounts,
     creator: Resources \cup {"before", "outside"},
     objects: BOOLEAN]                  \* it holds objects

\* The S3 client of a reconcile carries an account, or it is the NoopClient.
Clients == Accounts \cup {"noop"}

Steps == BaseSteps \cup {"removeObjects"}

Lives == LiveObjects(Specs, {"claimed"}, BucketNames)

\* The steps in which a client is used.
Calling == {"observe", "create", "removeObjects", "delete"}

TypeOK ==
    /\ ReconcilerType(Steps, Lives, Clients)
    /\ \A w \in Workers, r \in Resources :
          task[w][r].pc \in Calling => task[w][r].ctx \in Clients
    /\ s3 \in [BucketNames -> Buckets]
    /\ creds \in [Resources -> Accounts \cup {None}]
    /\ accounts \in SUBSET Accounts
    /\ lost \in SUBSET BucketNames

Init ==
    /\ ReconcilerInit
    /\ s3 \in [BucketNames -> {b \in Buckets : b.creator \in {None, "before"}}]
    /\ \A n \in BucketNames \ Taken : s3[n] = NoBucket
    /\ creds \in [Resources -> Accounts]
    /\ accounts = Accounts
    /\ lost = {}

------------------------------------------------------------------------------
(* Pure functions of the controller and of the webhook. *)

GetBucketName(r, spec) == IF spec.name # None THEN spec.name ELSE r

\* Status conditions that only a successful Delete leaves behind.
IsBucketAlreadyDeleted(o) == o.ready = "Deleting" /\ o.synced = "Success"

\* Mutant: the policy is not looked at.
HasDeleteAllPolicy_Always(spec) == TRUE

HasDeleteAllPolicy(spec) == spec.policy = "DeleteAll"

\* Mutant: the name is not compared.
ValidateUpdate_RegionOnly(r, o, spec) ==
    o.status # None => spec.region = o.spec.region

\* The webhook's verdict on replacing the spec of the stored object o.
ValidateUpdate(r, o, spec) ==
    o.status # None => /\ GetBucketName(r, spec) = o.status
                       /\ spec.region = o.spec.region

\* The webhook is served only when the operator is given a certificate.
Admitted(r, o, spec) == Webhook => ValidateUpdate(r, o, spec)

Exists(n) == s3[n] # NoBucket

\* The bucket answers to the credentials at the endpoint of the region; one of
\* another account answers 403, one in another region 301, and anything 403 when
\* the objects user does not exist.
Accessible(n, account, region) ==
    Exists(n) /\ s3[n].account = account /\ s3[n].region = region /\ account \in accounts

------------------------------------------------------------------------------
(* Connect *)

\* Mutant: the credentials are read after the deletion, too.
ConnectNoop_Connects(w, r) ==
    /\ task[w][r].pc = "connect"
    /\ IsBucketAlreadyDeleted(task[w][r].obj)
    /\ Goto(w, r, IF creds[r] = None
                  THEN OnError(task[w][r])
                  ELSE [task[w][r] EXCEPT !.pc = "observe", !.ctx = creds[r]])
    /\ UNCHANGED <<mishaps, s3, creds, accounts, lost>>

\* After a successful deletion nothing is looked at again.
ConnectNoop(w, r) ==
    /\ task[w][r].pc = "connect"
    /\ IsBucketAlreadyDeleted(task[w][r].obj)
    /\ Goto(w, r, [task[w][r] EXCEPT !.pc = "observe", !.ctx = "noop"])
    /\ UNCHANGED <<mishaps, s3, creds, accounts, lost>>

\* Mutant: the credentials are not validated.
Connect_Unvalidated(w, r) ==
    /\ task[w][r].pc = "connect"
    /\ ~IsBucketAlreadyDeleted(task[w][r].obj)
    /\ Goto(w, r, [task[w][r] EXCEPT !.pc = "observe", !.ctx = creds[r]])
    /\ UNCHANGED <<mishaps, s3, creds, accounts, lost>>

Connect(w, r) ==
    /\ task[w][r].pc = "connect"
    /\ ~IsBucketAlreadyDeleted(task[w][r].obj)
    /\ Goto(w, r, IF creds[r] = None
                  THEN OnError(task[w][r])
                  ELSE [task[w][r] EXCEPT !.pc = "observe", !.ctx = creds[r]])
    /\ UNCHANGED <<mishaps, s3, creds, accounts, lost>>

------------------------------------------------------------------------------
(* Observe *)

ObserveNoop(w, r) ==
    /\ task[w][r].pc = "observe" /\ task[w][r].ctx = "noop"
    /\ Observed(w, r, task[w][r].obj, "missing", None)
    /\ UNCHANGED <<mishaps, s3, creds, accounts, lost>>

\* Mutant: an existing bucket is accepted without the lock.
HasLock_Always(o) == TRUE

\* Mutant: the lock is kept in the status, which Create does not write.
HasLock_InStatus(o) == o.status # None

HasLock(o) == o.note = "claimed"

\* Mutant: the status has the name of the resource.
Found_MetadataName(r, o) ==
    [o EXCEPT !.status = r, !.ready = "Available"]

Found(r, o) ==
    [o EXCEPT !.status = GetBucketName(r, o.spec), !.ready = "Available"]

ObserveBucket(w, r) ==
    LET t == task[w][r]
        n == GetBucketName(r, t.obj.spec)
        found == Found(r, t.obj)
    IN  /\ t.pc = "observe" /\ t.ctx # "noop"
        /\ \/ /\ ~Exists(n) /\ t.ctx \in accounts
              /\ Observed(w, r, t.obj, "missing", t.ctx)
           \/ /\ Accessible(n, t.ctx, t.obj.spec.region) /\ HasLock(t.obj)
              /\ IF t.obj.deleting /\ HasDeleteAllPolicy(t.obj.spec)
                 THEN Goto(w, r, [t EXCEPT !.pc = "removeObjects", !.obj = found,
                                           !.seen = "current"])
                 ELSE Observed(w, r, found, "current", t.ctx)
           \/ \* 403, 301, or a bucket this resource has not locked
              /\ Exists(n) \/ t.ctx \notin accounts
              /\ ~Accessible(n, t.ctx, t.obj.spec.region) \/ ~HasLock(t.obj)
              /\ Goto(w, r, OnError(t))
        /\ UNCHANGED <<mishaps, s3, creds, accounts, lost>>

\* There are no connection details to publish, before or after Create.
Publish(w, r) ==
    LET t == task[w][r]
    IN  /\ \/ t.pc = "publish" /\ Goto(w, r, AfterPublish(t))
           \/ t.pc = "publishCreated" /\ Goto(w, r, Closed(t, "Creating", "Success"))
        /\ UNCHANGED <<mishaps, s3, creds, accounts, lost>>

------------------------------------------------------------------------------
(* Create *)

\* Mutant: the lock is not set.
Locked_Not(t) == Recording(t, "succeeded")

\* setLock, and the end of Create without an error.
Locked(t) == Recording([t EXCEPT !.obj.note = "claimed"], "succeeded")

NewBucket(r, t) ==
    LET n == GetBucketName(r, t.obj.spec)
    IN  /\ ~Exists(n) /\ t.ctx \in accounts
        /\ s3' = [s3 EXCEPT ![n] = [region |-> t.obj.spec.region, account |-> t.ctx,
                                    creator |-> r, objects |-> FALSE]]

\* The buckets of r that a resource with this spec does not name.
Disowned(r, spec, buckets) ==
    {n \in BucketNames : buckets[n].creator = r /\ n # GetBucketName(r, spec)}

\* The name is that of the copy in memory; it may have been edited since.
MakeBucket(w, r) ==
    LET t == task[w][r]
    IN  /\ t.pc = "create"
        /\ NewBucket(r, t)
        /\ lost' = IF api[r].phase = "live"
                   THEN lost \cup Disowned(r, api[r].spec, s3') ELSE lost
        /\ Goto(w, r, Locked(t))
        /\ UNCHANGED <<mishaps, creds, accounts>>

\* MakeBucket fails since the bucket exists, which counts as made when it answers
\* to our credentials, whoever made it, or since the credentials do.
MakeExistingBucket(w, r) ==
    LET t == task[w][r]
        n == GetBucketName(r, t.obj.spec)
    IN  /\ t.pc = "create"
        /\ Exists(n) \/ t.ctx \notin accounts
        /\ Goto(w, r, IF Accessible(n, t.ctx, t.obj.spec.region)
                      THEN Locked(t) ELSE Recording(t, "failed"))
        /\ UNCHANGED <<mishaps, s3, creds, accounts, lost>>

\* Both MakeBucket and the BucketExists that follows it fail.  The bucket was
\* made all the same, or not.
CreateFails(w, r) ==
    LET t == task[w][r]
        n == GetBucketName(r, t.obj.spec)
    IN  /\ t.pc = "create"
        /\ \/ UNCHANGED <<s3, lost>>
           \/ NewBucket(r, t) /\ lost' = lost \cup {n}
        /\ Mishap
        /\ Goto(w, r, Recording(t, "failed"))
        /\ UNCHANGED <<creds, accounts>>

------------------------------------------------------------------------------
(* Delete: with the policy DeleteAll the objects first, then the bucket. *)

RemoveObjects(w, r) ==
    LET t == task[w][r]
        n == t.obj.status
    IN  /\ t.pc = "removeObjects"
        /\ s3' = IF Accessible(n, t.ctx, t.obj.spec.region)
                 THEN [s3 EXCEPT ![n].objects = FALSE] ELSE s3
        /\ Goto(w, r, [t EXCEPT !.pc = "delete"])
        /\ UNCHANGED <<mishaps, creds, accounts, lost>>

\* Objects that cannot be listed are skipped, without an error.
ListingFails(w, r) ==
    /\ task[w][r].pc = "removeObjects"
    /\ Mishap
    /\ Goto(w, r, [task[w][r] EXCEPT !.pc = "delete"])
    /\ UNCHANGED <<s3, creds, accounts, lost>>

\* An object cannot be removed, or the answer does not say that it was: an error,
\* whether the bucket is empty by then or not.
RemoveObjectsFails(w, r) ==
    LET t == task[w][r]
        n == t.obj.status
    IN  /\ t.pc = "removeObjects"
        /\ \/ UNCHANGED s3
           \/ /\ Accessible(n, t.ctx, t.obj.spec.region)
              /\ s3' = [s3 EXCEPT ![n].objects = FALSE]
        /\ Mishap
        /\ Goto(w, r, OnError(t))
        /\ UNCHANGED <<creds, accounts, lost>>

RemoveBucket(w, r) ==
    LET t == task[w][r]
        n == t.obj.status
    IN  /\ t.pc = "delete"
        /\ Accessible(n, t.ctx, t.obj.spec.region) /\ ~s3[n].objects
        /\ s3' = [s3 EXCEPT ![n] = NoBucket]
        /\ lost' = lost \ {n}
        /\ Goto(w, r, Closed(t, "Deleting", "Success"))
        /\ UNCHANGED <<mishaps, creds, accounts>>

\* Mutant: a refusal is not an error.
RemoveBucketRefused_Success(w, r) ==
    LET t == task[w][r]
    IN  /\ t.pc = "delete"
        /\ Accessible(t.obj.status, t.ctx, t.obj.spec.region) => s3[t.obj.status].objects
        /\ Goto(w, r, Closed(t, "Deleting", "Success"))
        /\ UNCHANGED <<mishaps, s3, creds, accounts, lost>>

\* The bucket is not empty, or not there any more.
RemoveBucketRefused(w, r) ==
    LET t == task[w][r]
        n == t.obj.status
    IN  /\ t.pc = "delete"
        /\ Accessible(n, t.ctx, t.obj.spec.region) => s3[n].objects
        /\ Goto(w, r, OnError(t))
        /\ UNCHANGED <<mishaps, s3, creds, accounts, lost>>

\* The bucket is removed and the answer does not arrive.
RemoveAnswerLost(w, r) ==
    LET t == task[w][r]
        n == t.obj.status
    IN  /\ t.pc = "delete"
        /\ Accessible(n, t.ctx, t.obj.spec.region) /\ ~s3[n].objects
        /\ s3' = [s3 EXCEPT ![n] = NoBucket]
        /\ lost' = lost \ {n}
        /\ Mishap
        /\ Goto(w, r, OnError(t))
        /\ UNCHANGED <<creds, accounts>>

------------------------------------------------------------------------------
(* Outside the operator. *)

\* The spec is changed by its user, past the webhook.
Edit(r, spec) ==
    /\ api[r].phase = "live" /\ api[r].spec # spec
    /\ Admitted(r, api[r], spec)
    /\ Mishap
    /\ Store(r, [api[r] EXCEPT !.spec = spec])
    /\ lost' = lost \cup Disowned(r, spec, s3)
    /\ UNCHANGED <<s3, creds, accounts>>

\* Somebody else makes a bucket, removes one, or puts objects into one.
S3Intervention(n) ==
    /\ \/ /\ ~Exists(n) /\ UNCHANGED lost
          /\ \E b \in Buckets : b.creator = "outside" /\ s3' = [s3 EXCEPT ![n] = b]
       \/ /\ Exists(n) /\ lost' = lost \ {n}
          /\ s3' = [s3 EXCEPT ![n] = NoBucket]
       \/ /\ Exists(n) /\ ~s3[n].objects /\ UNCHANGED lost
          /\ s3' = [s3 EXCEPT ![n].objects = TRUE]
    /\ Mishap
    /\ UNCHANGED <<api, cache, task, creds, accounts>>

\* The credentials Secret is removed (with its ObjectsUser), restored, replaced.
CredentialsChange(r, account) ==
    /\ creds[r] # account
    /\ creds' = [creds EXCEPT ![r] = account]
    /\ Mishap
    /\ UNCHANGED <<api, cache, task, s3, accounts, lost>>

\* Somebody deletes the objects user, which cloudscale.ch allows once it has no
\* buckets.
AccountRemoved(a) ==
    /\ a \in accounts
    /\ \A n \in BucketNames : s3[n].account # a
    /\ accounts' = accounts \ {a}
    /\ Mishap
    /\ UNCHANGED <<api, cache, task, s3, creds, lost>>

------------------------------------------------------------------------------

\* A reconcile whose bucket is already deleted makes no call before finalizing.
Calls(t) ==
    {"publish", "addFinalizer", "pending", "publishCreated", "delete", "finalize"}
        \cup IF IsBucketAlreadyDeleted(t.obj) THEN {} ELSE {"connect", "observe"}

Progress(w, r) ==
    \/ ReconcilerStep(w, r) /\ UNCHANGED <<s3, creds, accounts, lost>>
    \/ ConnectNoop(w, r) \/ Connect(w, r)
    \/ ObserveNoop(w, r) \/ ObserveBucket(w, r) \/ Publish(w, r)
    \/ MakeBucket(w, r) \/ MakeExistingBucket(w, r)
    \/ RemoveObjects(w, r) \/ RemoveBucket(w, r) \/ RemoveBucketRefused(w, r)

Failure(w, r) ==
    \/ CallFails(w, r, Calls(task[w][r])) /\ UNCHANGED <<s3, creds, accounts, lost>>
    \/ Abandon(w, r) /\ UNCHANGED <<s3, creds, accounts, lost>>
    \/ ListingFails(w, r) \/ RemoveObjectsFails(w, r)
    \/ CreateFails(w, r) \/ RemoveAnswerLost(w, r)

Environment ==
    \/ \E r \in Resources, spec \in Specs :
          Apply(r, spec) /\ UNCHANGED <<s3, creds, accounts, lost>>
    \/ \E r \in Resources, spec \in Specs : Edit(r, spec)
    \/ \E r \in Resources : RequestDeletion(r) /\ UNCHANGED <<s3, creds, accounts, lost>>
    \/ \E n \in BucketNames : S3Intervention(n)
    \/ \E r \in Resources, a \in Accounts \cup {None} : CredentialsChange(r, a)
    \/ \E a \in Accounts : AccountRemoved(a)

Next ==
    \/ \E w \in Workers, r \in Resources :
          \/ (Sync(w, r) \/ Begin(w, r)) /\ UNCHANGED <<s3, creds, accounts, lost>>
          \/ Progress(w, r)
          \/ Failure(w, r)
    \/ Environment

Spec == Init /\ [][Next]_vars

\* As for ObjectsUser: informers deliver, resources are polled, reconciles end.
Fairness ==
    \A w \in Workers, r \in Resources :
        /\ WF_vars(Sync(w, r) /\ UNCHANGED <<s3, creds, accounts, lost>>)
        /\ WF_vars(Begin(w, r) /\ UNCHANGED <<s3, creds, accounts, lost>>)
        /\ WF_vars(Progress(w, r))

FairSpec == Spec /\ Fairness

------------------------------------------------------------------------------
(* Safety *)

\* The bucket in the status is always the one the spec names: no edit slips in
\* between the write of the status and the webhook that reads it, though the
\* status is computed from a copy of the spec that may be stale.
SpecMatchesStatus ==
    \A r \in Resources :
        api[r].status # None => GetBucketName(r, api[r].spec) = api[r].status

\* No spec is edited to another name.
OneName == \A old, new \in Specs : old.name = new.name

\* A bucket that was there before the provider came is never taken over, by
\* the status of a resource or by a reconcile about to delete it (Observe
\* refuses a bucket without the lock, MakeBucket may race with its maker).
\* The premise: the name is not edited.  The lock says that a bucket was made,
\* not which one, so it would be taken for the lock of another name.
PreexistingNeverAdopted ==
    OneName =>
        \A r \in Resources :
            \A o \in {api[r]} \cup {task[w][r].obj : w \in Workers} :
                o.status # None => s3[o.status].creator # "before"

\* The operator never forgets a bucket it made: its resource is there and
\* carries the lock, or is marked as one whose creation did not conclude.
\* Excepted are buckets whose MakeBucket call did not answer, and those whose
\* resource was given another name before the status named the bucket.
EveryBucketAccountedFor ==
    \A r \in Resources \ Orphans, n \in BucketNames \ lost :
        s3[n].creator = r =>
            /\ api[r].phase = "live"
            /\ api[r].creation = "pending" \/ api[r].note = "claimed"

\* When the status says that the deletion succeeded, so that Connect skips
\* Observe, the bucket the resource made is not there any more.
DeletedMeansRemoved ==
    \A r \in Resources :
        IsBucketAlreadyDeleted(api[r]) /\ Exists(api[r].status)
            => s3[api[r].status].creator # r

\* Objects are removed only for a locked resource that is being deleted (or
\* that another instance has just finalized), under the policy DeleteAll,
\* unless the policy was replaced after this reconcile read it.
ObjectsRemovedOnRequest ==
    [][\A w \in Workers, r \in Resources :
          RemoveObjects(w, r) =>
            /\ r \notin Orphans
            /\ api[r].phase = "live" => api[r].deleting /\ api[r].note = "claimed"
            /\ task[w][r].cur => api[r].spec.policy = "DeleteAll"]_vars

\* The buckets made for r, and those of them that its resource can know about.
Made(r) == {n \in BucketNames : s3[n].creator = r}

Owned(r) == Made(r) \ lost

External == INSTANCE ExternalResource WITH
    Externals <- BucketNames,
    wish <- [r \in Resources |-> Wish(r)],
    external <- [r \in Resources |-> Owned(r)],
    faults <- mishaps

\* The controller implements the abstract life cycle, step by step: with stale
\* caches, races for the name, crashes, renames and other users of S3, a bucket is
\* made only where there is none and removed only on request.
ImplementsExternalResource == External!Spec

(* What makes the safety properties inductive, together with TypeOK and        *)
(* Exclusion.                                                                  *)

\* The conditions speak of a deletion only when it is requested.
Told(o) == o.ready = "Deleting" => o.deleting

\* A reconcile deletes or creates by the deletion request that it has read; with
\* no S3 client it only finalizes.
Directed(t) ==
    /\ t.pc \in DeleteSteps => t.obj.deleting
    /\ t.pc \in {"publish", "addFinalizer", "pending", "create", "record"}
          => ~t.obj.deleting
    /\ t.pc \in {"publish", "addFinalizer", "pending"} => t.ctx \in Clients
    /\ t.pc = "observe" /\ t.ctx = "noop" => IsBucketAlreadyDeleted(t.obj)

Requests ==
    \A r \in Resources :
        /\ Told(api[r])
        /\ \A w \in Workers :
              /\ Told(cache[w][r].obj) /\ Told(task[w][r].obj) /\ Directed(task[w][r])
              /\ task[w][r].cur => task[w][r].obj.deleting = api[r].deleting

\* In what follows B are the buckets that r owns, M all that were made for it.

\* The object o says that its bucket was removed, and r has none.
Removed(o, B, M) ==
    o.creation # "pending" /\ o.status # None /\ o.status \notin M /\ B = {}

\* The stored object o accounts for the buckets of r.
Stored(r, o, B, M) ==
    /\ B # {} /\ r \notin Orphans =>
          o.phase = "live" /\ (o.creation = "pending" \/ o.note = "claimed")
    /\ B # {} /\ o.phase = "live" =>
          o.finalizer /\ B \subseteq {GetBucketName(r, o.spec)}
    /\ o.phase = "new" => B = {}
    /\ \A m, n \in B : m = n
    /\ IsBucketAlreadyDeleted(o) => Removed(o, B, M)

\* What a copy o of any age still says of the stored object now: neither the
\* deletion request nor the lock is ever taken back.
Aged(o, now) ==
    now.phase # "gone" => /\ o.deleting => now.deleting
                          /\ o.note # None => now.note = o.note

\* Where a reconcile of r is agrees with what it has in memory.
Sound(r, t) ==
    /\ t.pc = "finalize" => r \in Orphans \/ t.seen = "missing"
    /\ t.pc = "pending" => t.seen = "missing"
    /\ t.pc \in {"connect", "observe"} /\ t.obj.deleting => r \notin Orphans
    /\ t.pc \in {"removeObjects", "delete"} =>
          /\ r \notin Orphans /\ HasLock(t.obj)
          /\ t.obj.status = GetBucketName(r, t.obj.spec)
    /\ t.pc = "removeObjects" => HasDeleteAllPolicy(t.obj.spec)
    /\ t.obj.creation = "pending" =>
          \/ t.pc = "create"
          \/ t.pc \in {"finalize", "status"} /\ t.seen = "unknown"

\* What a reconcile has in memory agrees with the stored object now.
Known(r, t, now, B, M) ==
    /\ t.pc # "record" => Aged(t.obj, now)
    /\ t.pc \in CreateSteps => r \in Orphans \/ now.phase = "live"
    /\ t.cur => /\ now.phase = "live" /\ t.obj.spec = now.spec
                /\ t.pc # "record" => t.obj.note = now.note
                /\ IsBucketAlreadyDeleted(t.obj) => Removed(t.obj, B, M)

\* A reconcile that saw no bucket is right while its copy is current; within
\* Create there is only the one that the lock in memory is for.
Seen(t, B) ==
    /\ t.cur /\ t.seen = "missing"
          /\ t.pc \in {"publish", "addFinalizer", "pending", "finalize"} => B = {}
    /\ t.pc \in CreateSteps /\ B # {} => t.obj.note = "claimed"
    /\ t.pc = "create" => B = {}

\* The stored object of r, the reconciles of r with what they hold in memory and
\* the buckets of r fit together.
Kept(r) ==
    /\ Stored(r, api[r], Owned(r), Made(r))
    /\ \A w \in Workers :
          /\ Aged(cache[w][r].obj, api[r]) /\ Sound(r, task[w][r])
          /\ Known(r, task[w][r], api[r], Owned(r), Made(r))
          /\ Seen(task[w][r], Owned(r))

\* They do so for every resource at every step, whichever copies are outdated.
Custody == \A r \in Resources : Kept(r)

\* The buckets that are left from the start.
Old == {n \in BucketNames : s3[n].creator = "before"}

\* The object o of r, stored or a copy of any age: its status names the bucket of
\* its spec, and neither status nor lock is about one of the buckets P.
Fits(r, o, P) ==
    /\ o.status # None => o.status = GetBucketName(r, o.spec)
    /\ OneName /\ (o.status # None \/ o.note = "claimed") =>
          GetBucketName(r, o.spec) \notin P

\* A reconcile on the way to Create has seen that there is no bucket of that name.
Looked(r, t, P) ==
    OneName /\ (\/ t.pc \in {"pending", "create"}
                \/ t.pc \in {"publish", "addFinalizer"} /\ t.seen = "missing") =>
        GetBucketName(r, t.obj.spec) \notin P

\* What resources and reconciles say about names is right, whichever copies of the
\* spec it was derived from.
Rightful ==
    \A r \in Resources :
        /\ Fits(r, api[r], Old)
        /\ \A w \in Workers :
              /\ Fits(r, cache[w][r].obj, Old)
              /\ Fits(r, task[w][r].obj, Old) /\ Looked(r, task[w][r], Old)

------------------------------------------------------------------------------
(* Liveness *)

\* What only somebody outside can resolve: no valid credentials, the wrong ones, the
\* wrong region, a bucket that the resource did not make, or made without an
\* answer, or objects that the policy protects.
Blocked(r) ==
    LET n == GetBucketName(r, api[r].spec)
    IN  \/ creds[r] \notin accounts
        \/ /\ Exists(n)
           /\ \/ ~Accessible(n, creds[r], api[r].spec.region)
              \/ api[r].note = None /\ (s3[n].creator # r \/ n \in lost)
              \/ s3[n].objects /\ api[r].spec.policy = "DeleteIfEmpty"

\* In the end no resource is left being deleted, unless it is blocked or its
\* creation never concluded.
DeletionCompletes ==
    <>[](\A r \in Resources : api[r].deleting => Blocked(r) \/ Inconclusive(r))

\* In the end every resource that is there and not being deleted has its bucket,
\* named in the status, unless it is blocked or its creation never concluded.
CreationCompletes ==
    <>[](\A r \in Resources :
            api[r].phase = "live" /\ ~api[r].deleting
                => \/ Blocked(r) \/ Inconclusive(r)
                   \/ api[r].status # None /\ Exists(api[r].status))

------------------------------------------------------------------------------
(* What comments and docs say and the code does not keep. *)

\* setLock: with the lock, no two resources manage one bucket.  Two operator
\* instances that race in MakeBucket set it for two resources with one name.
OneManagerPerBucket ==
    \A r, q \in {x \in Resources : api[x].note = "claimed" /\ ~api[x].deleting} :
        GetBucketName(r, api[r].spec) = GetBucketName(q, api[q].spec) => r = q

\* Reconciliation docs: the webhook prevents changing the spec once the bucket
\* exists.  It does so once the status names the bucket, a reconcile later.
ImmutableOnceCreated ==
    [][\A r \in Resources, n \in BucketNames :
          s3[n].creator = r /\ api[r].phase = "live" /\ api'[r].phase = "live"
              => /\ GetBucketName(r, api'[r].spec) = GetBucketName(r, api[r].spec)
                 /\ api'[r].spec.region = api[r].spec.region]_vars

==============================================================================
