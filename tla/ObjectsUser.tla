------------------------------ MODULE ObjectsUser ------------------------------
(***************************************************************************)
(* The ObjectsUser controller (operator/objectsusercontroller): one        *)
(* objects user at cloudscale.ch per ObjectsUser resource, its display     *)
(* name and tags kept as in the spec, its S3 keys in a Secret.             *)
(*                                                                         *)
(* Display names are not unique at cloudscale.ch, so the ID that the       *)
(* create call returns is the only handle on the user.  Create may only    *)
(* annotate the resource; the next Observe moves the ID to the status.     *)
(***************************************************************************)
EXTENDS ManagedReconciler

CONSTANTS
    UserIDs,        \* IDs cloudscale.ch can hand out
    Keys,           \* S3 key pairs
    Names,          \* display names given in a spec
    TagMaps,        \* tag maps: functions from tag keys to tag values
    SecretRefs,     \* resources with spec.writeConnectionSecretToRef
    Occupied        \* resources whose Secret may be there before, made by somebody else

ASSUME SecretRefsAssumption == SecretRefs \subseteq Resources

VARIABLES
    cloud,          \* cloud[u]: the objects user u at cloudscale.ch
    secret,         \* secret[r]: the connection Secret of r
    lost            \* ghost: users whose create call did not answer

vars == <<api, cache, task, mishaps, cloud, secret, lost>>

------------------------------------------------------------------------------
(* Types *)

\* spec.forProvider: displayName (None when empty) and tags.
Specs == [name: Names \cup {None}, tags: TagMaps]

NoUser == [state |-> "free", owner |-> None, name |-> None, tags |-> None,
           key |-> None]

\* A display name is one given in a spec or a resource's own name.
Users == {NoUser} \cup
    [state: {"live", "dead"},
     owner: Resources,                  \* ghost: the resource that created it
     name: Names \cup Resources,
     tags: TagMaps,
     key: Keys \cup {None}]             \* the first key pair, None if it has none

NoSecret == [origin |-> "none", key |-> None]

\* Who created a Secret decides on its type and on its controller, for good: only
\* the publisher gives it the type connection.crossplane.io/v1alpha1 and a
\* controller reference.
Secrets == {NoSecret} \cup
    [origin: {"publisher", "controller", "user"},
     key: Keys \cup {None}]             \* the keys in its data, None if there are none

Steps == BaseSteps \cup {"createSecret", "updateTags", "updateSecret"}

Lives == LiveObjects(Specs, UserIDs, UserIDs)

TypeOK ==
    /\ ReconcilerType(Steps, Lives, Keys)
    /\ cloud \in [UserIDs -> Users]
    /\ secret \in [Resources -> Secrets]
    /\ lost \in SUBSET UserIDs

Init ==
    /\ ReconcilerInit
    /\ cloud = [u \in UserIDs |-> NoUser]
    /\ secret \in [Resources -> {NoSecret, [origin |-> "user", key |-> None]}]
    /\ \A r \in Resources : secret[r] # NoSecret => r \in Occupied
    /\ lost = {}

------------------------------------------------------------------------------
(* Pure functions of the controller. *)

\* Mutant: without the fallback to the external name.
GetDisplayName_Unset(r, spec) == spec.name

\* The external name defaults to metadata.name, which is the resource itself.
GetDisplayName(r, spec) == IF spec.name # None THEN spec.name ELSE r

\* A tag that is observed and not desired only counts when none is desired.
TagsNeedUpdate(desired, observed) ==
    \/ DOMAIN observed # {} /\ DOMAIN desired = {}
    \/ \E k \in DOMAIN desired :
          k \notin DOMAIN observed \/ observed[k] # desired[k]

\* Mutant: the display name is not compared.
NeedsUpdate_TagsOnly(r, spec, user) == TagsNeedUpdate(spec.tags, user.tags)

NeedsUpdate(r, spec, user) ==
    TagsNeedUpdate(spec.tags, user.tags) \/ GetDisplayName(r, spec) # user.name

Live(u) == u # None /\ cloud[u].state = "live"

\* The first key pair of a user; Update has no user, and some users have no keys.
ToConnectionDetails(u) == IF u = None THEN None ELSE cloud[u].key

\* The publisher writes only to a Secret of its type or that the resource controls.
Refused(r) == r \in SecretRefs /\ secret[r].origin \in {"controller", "user"}

\* A Secret that is absent is created by the writer; keys are merged into its data,
\* and no keys leave the data as it is.
PutSecret(r, writer, key) ==
    secret' = [secret EXCEPT ![r] =
                  [origin |-> IF secret[r] = NoSecret THEN writer ELSE secret[r].origin,
                   key |-> IF key # None THEN key ELSE secret[r].key]]

------------------------------------------------------------------------------
(* Connect: the provider config and the API token are read.  It fails when *)
(* either is missing (CallFails).                                          *)

Connect(w, r) ==
    /\ task[w][r].pc = "connect"
    /\ Goto(w, r, [task[w][r] EXCEPT !.pc = "observe"])
    /\ UNCHANGED <<mishaps, cloud, secret, lost>>

------------------------------------------------------------------------------
(* Observe *)

\* Mutant: the annotation is not read back.
Recalled_Never(o) == o

\* The user ID left by Create moves from the annotation to the status, in the
\* memory of this reconcile.
Recalled(o) ==
    IF o.status = None /\ o.note # None
    THEN [o EXCEPT !.status = o.note, !.note = None] ELSE o

\* Mutant: an ID that is not found is cleared.
ObserveMissing_Clears(w, r) ==
    LET o == Recalled(task[w][r].obj)
    IN  /\ task[w][r].pc = "observe"
        /\ ~Live(o.status)
        /\ Observed(w, r, [o EXCEPT !.status = None], "missing", None)
        /\ UNCHANGED <<mishaps, cloud, secret, lost>>

\* Mutant: a user that is not found is an error like any other.
ObserveMissing_Fails(w, r) ==
    LET o == Recalled(task[w][r].obj)
    IN  /\ task[w][r].pc = "observe"
        /\ ~Live(o.status)
        /\ IF o.status = None THEN Observed(w, r, o, "missing", None)
           ELSE Goto(w, r, OnError(task[w][r]))
        /\ UNCHANGED <<mishaps, cloud, secret, lost>>

\* No ID yet, or a user that is not found.
ObserveMissing(w, r) ==
    LET o == Recalled(task[w][r].obj)
    IN  /\ task[w][r].pc = "observe"
        /\ ~Live(o.status)
        /\ Observed(w, r, o, "missing", None)
        /\ UNCHANGED <<mishaps, cloud, secret, lost>>

\* A credentials Secret that differs is logged only: the error handler returns
\* nil, and the observation is up to date all the same.
ObserveFound(w, r) ==
    LET o == Recalled(task[w][r].obj)
        u == o.status
    IN  /\ task[w][r].pc = "observe"
        /\ Live(u)
        /\ IF NeedsUpdate(r, o.spec, cloud[u])
           THEN Observed(w, r, o, "outdated", ToConnectionDetails(u))
           ELSE Observed(w, r, [o EXCEPT !.ready = "Available"], "current",
                         ToConnectionDetails(u))
        /\ UNCHANGED <<mishaps, cloud, secret, lost>>

\* Any other error of the Get call; the ID is in the status by then.
ObserveFails(w, r) ==
    LET o == Recalled(task[w][r].obj)
    IN  /\ task[w][r].pc = "observe" /\ o.status # None
        /\ Mishap
        /\ Goto(w, r, OnError([task[w][r] EXCEPT !.obj = o]))
        /\ UNCHANGED <<cloud, secret, lost>>

------------------------------------------------------------------------------
(* Publishing the connection details, before and after the external calls. *)

Publish(w, r) ==
    LET t == task[w][r]
    IN  /\ ~Refused(r)
        /\ \/ t.pc = "publish" /\ Goto(w, r, AfterPublish(t))
           \/ t.pc = "publishCreated" /\ Goto(w, r, Closed(t, "Creating", "Success"))
           \/ t.pc = "publishUpdated" /\ Goto(w, r, Closed(t, t.obj.ready, "Success"))
        /\ IF r \in SecretRefs THEN PutSecret(r, "publisher", t.ctx) ELSE UNCHANGED secret
        /\ UNCHANGED <<mishaps, cloud, lost>>

\* A Secret that somebody else made, or ensureCredentialsSecret, is an error of the
\* publisher, in every reconcile, and what comes after publishing is not done.
PublishRefused(w, r) ==
    /\ task[w][r].pc \in {"publish", "publishCreated", "publishUpdated"} /\ Refused(r)
    /\ Goto(w, r, OnError(task[w][r]))
    /\ UNCHANGED <<mishaps, cloud, secret, lost>>

------------------------------------------------------------------------------
(* Create *)

\* "User already exists": the status names one, whatever became of it.
CreateSkipped(w, r) ==
    LET t == task[w][r]
    IN  /\ t.pc = "create" /\ t.obj.status # None
        /\ Goto(w, r, Recording([t EXCEPT !.ctx = None], "succeeded"))
        /\ UNCHANGED <<mishaps, cloud, secret, lost>>

\* cloudscale.ch creates user u with the display name and tags of the spec.
NewUser(r, spec, u, key) ==
    /\ cloud[u].state = "free"
    /\ cloud' = [cloud EXCEPT ![u] =
                    [state |-> "live", owner |-> r, tags |-> spec.tags,
                     name |-> GetDisplayName(r, spec), key |-> key]]

\* Mutant: the ID is not annotated.
Annotated_Not(o, u) == o

Annotated(o, u) == [o EXCEPT !.note = u]

CreateUser(w, r) ==
    LET t == task[w][r]
        step(u, key) == [t EXCEPT !.obj = Annotated(@, u), !.ctx = key]
    IN  /\ t.pc = "create" /\ t.obj.status = None
        /\ \E u \in UserIDs, key \in Keys :
              /\ NewUser(r, t.obj.spec, u, key)
              /\ Goto(w, r, IF r \in SecretRefs
                            THEN [step(u, key) EXCEPT !.pc = "createSecret"]
                            ELSE Recording(step(u, key), "succeeded"))
        /\ UNCHANGED <<mishaps, secret, lost>>

\* If the Secret was removed since it was published, it is created once more, as an
\* Opaque one with an owner that is not its controller.
EnsureCredentialsSecret(w, r) ==
    LET t == task[w][r]
    IN  /\ t.pc = "createSecret"
        /\ PutSecret(r, "controller", t.ctx)
        /\ Goto(w, r, Recording(t, "succeeded"))
        /\ UNCHANGED <<mishaps, cloud, lost>>

\* Mutant: the ID is annotated only when the Secret could be written, too.
CreateFails_NoID(w, r) ==
    /\ \/ task[w][r].pc = "create" /\ task[w][r].obj.status = None
       \/ task[w][r].pc = "createSecret"
    /\ Mishap
    /\ Goto(w, r, Recording([task[w][r] EXCEPT !.obj.note = None, !.ctx = None],
                            "failed"))
    /\ UNCHANGED <<cloud, secret, lost>>

\* The create call or the write of the Secret fails.
CreateFails(w, r) ==
    /\ \/ task[w][r].pc = "create" /\ task[w][r].obj.status = None
       \/ task[w][r].pc = "createSecret"
    /\ Mishap
    /\ Goto(w, r, Recording([task[w][r] EXCEPT !.ctx = None], "failed"))
    /\ UNCHANGED <<cloud, secret, lost>>

\* The user is created and the answer does not arrive: no ID to annotate.
CreateAnswerLost(w, r) ==
    LET t == task[w][r]
    IN  /\ t.pc = "create" /\ t.obj.status = None
        /\ \E u \in UserIDs, key \in Keys :
              NewUser(r, t.obj.spec, u, key) /\ lost' = lost \cup {u}
        /\ Mishap
        /\ Goto(w, r, Recording(t, "failed"))
        /\ UNCHANGED secret

------------------------------------------------------------------------------
(* Update: the display name, then the tags, in two calls. *)

UpdateName(w, r) ==
    LET t == task[w][r]
        u == t.obj.status
    IN  /\ t.pc = "update" /\ Live(u)
        /\ cloud' = [cloud EXCEPT ![u].name = GetDisplayName(r, t.obj.spec)]
        /\ Goto(w, r, [t EXCEPT !.pc = "updateTags"])
        /\ UNCHANGED <<mishaps, secret, lost>>

UpdateTags(w, r) ==
    LET t == task[w][r]
        u == t.obj.status
    IN  /\ t.pc = "updateTags" /\ Live(u)
        /\ cloud' = [cloud EXCEPT ![u].tags = t.obj.spec.tags]
        /\ Goto(w, r, [t EXCEPT !.ctx = None,
                         !.pc = IF r \in SecretRefs THEN "updateSecret"
                                                    ELSE "publishUpdated"])
        /\ UNCHANGED <<mishaps, secret, lost>>

\* Update does not fetch the user: ensureCredentialsSecret is called without one.
UpdateSecret(w, r) ==
    /\ task[w][r].pc = "updateSecret"
    /\ PutSecret(r, "controller", ToConnectionDetails(None))
    /\ Goto(w, r, [task[w][r] EXCEPT !.pc = "publishUpdated"])
    /\ UNCHANGED <<mishaps, cloud, lost>>

\* The user to update or delete is not there any more.
UserNotFound(w, r) ==
    /\ task[w][r].pc \in {"update", "updateTags", "delete"}
    /\ ~Live(task[w][r].obj.status)
    /\ Goto(w, r, OnError(task[w][r]))
    /\ UNCHANGED <<mishaps, cloud, secret, lost>>

------------------------------------------------------------------------------
(* Delete *)

DeleteUser(w, r) ==
    LET t == task[w][r]
    IN  /\ t.pc = "delete" /\ Live(t.obj.status)
        /\ cloud' = [cloud EXCEPT ![t.obj.status].state = "dead"]
        /\ Goto(w, r, Closed(t, "Deleting", "Success"))
        /\ UNCHANGED <<mishaps, secret, lost>>

\* The user is deleted and the answer does not arrive.
DeleteAnswerLost(w, r) ==
    LET t == task[w][r]
    IN  /\ t.pc = "delete" /\ Live(t.obj.status)
        /\ cloud' = [cloud EXCEPT ![t.obj.status].state = "dead"]
        /\ Mishap
        /\ Goto(w, r, OnError(t))
        /\ UNCHANGED <<secret, lost>>

------------------------------------------------------------------------------
(* Outside the operator. *)

\* The spec is changed by its user.
Edit(r, spec) ==
    /\ api[r].phase = "live" /\ api[r].spec # spec
    /\ Mishap
    /\ Store(r, [api[r] EXCEPT !.spec = spec])
    /\ UNCHANGED <<cloud, secret, lost>>

\* Somebody deletes the user at cloudscale.ch, or replaces its keys there.
RemovedOutOfBand(u) ==
    /\ Live(u)
    /\ cloud' = [cloud EXCEPT ![u].state = "dead"]
    /\ Mishap
    /\ UNCHANGED <<api, cache, task, secret, lost>>

KeysReplaced(u, key) ==
    /\ Live(u) /\ cloud[u].key # key
    /\ cloud' = [cloud EXCEPT ![u].key = key]
    /\ Mishap
    /\ UNCHANGED <<api, cache, task, secret, lost>>

SecretRemoved(r) ==
    /\ secret[r] # NoSecret
    /\ secret' = [secret EXCEPT ![r] = NoSecret]
    /\ Mishap
    /\ UNCHANGED <<api, cache, task, cloud, lost>>

\* Mutant: the Secret goes as soon as the resource is asked to.
CollectSecret_Early(r) ==
    /\ api[r].deleting \/ api[r].phase = "gone"
    /\ secret[r] # NoSecret
    /\ secret' = [secret EXCEPT ![r] = NoSecret]
    /\ UNCHANGED <<api, cache, task, mishaps, cloud, lost>>

\* The owner reference lets Kubernetes collect the Secret of a gone resource; somebody
\* else's has none.
CollectSecret(r) ==
    /\ api[r].phase = "gone" /\ secret[r].origin \in {"publisher", "controller"}
    /\ secret' = [secret EXCEPT ![r] = NoSecret]
    /\ UNCHANGED <<api, cache, task, mishaps, cloud, lost>>

------------------------------------------------------------------------------

Calls == {"connect", "publish", "addFinalizer", "pending",
          "publishCreated", "update", "updateTags", "updateSecret",
          "publishUpdated", "delete", "finalize"}

\* What a running reconcile does when no call fails.
Progress(w, r) ==
    \/ ReconcilerStep(w, r) /\ UNCHANGED <<cloud, secret, lost>>
    \/ Connect(w, r) \/ ObserveMissing(w, r) \/ ObserveFound(w, r)
    \/ Publish(w, r) \/ PublishRefused(w, r) \/ CreateSkipped(w, r) \/ CreateUser(w, r)
    \/ EnsureCredentialsSecret(w, r)
    \/ UpdateName(w, r) \/ UpdateTags(w, r) \/ UpdateSecret(w, r)
    \/ UserNotFound(w, r) \/ DeleteUser(w, r)

Failure(w, r) ==
    \/ (CallFails(w, r, Calls) \/ Abandon(w, r)) /\ UNCHANGED <<cloud, secret, lost>>
    \/ ObserveFails(w, r) \/ CreateFails(w, r) \/ CreateAnswerLost(w, r) \/ DeleteAnswerLost(w, r)

Environment ==
    \/ \E r \in Resources, spec \in Specs :
          Apply(r, spec) /\ UNCHANGED <<cloud, secret, lost>>
    \/ \E r \in Resources, spec \in Specs : Edit(r, spec)
    \/ \E r \in Resources : RequestDeletion(r) /\ UNCHANGED <<cloud, secret, lost>>
    \/ \E u \in UserIDs : RemovedOutOfBand(u)
    \/ \E u \in UserIDs, key \in Keys \cup {None} : KeysReplaced(u, key)
    \/ \E r \in Resources : SecretRemoved(r) \/ CollectSecret(r)

Next ==
    \/ \E w \in Workers, r \in Resources :
          \/ (Sync(w, r) \/ Begin(w, r)) /\ UNCHANGED <<cloud, secret, lost>>
          \/ Progress(w, r)
          \/ Failure(w, r)
    \/ Environment

Spec == Init /\ [][Next]_vars

\* An informer delivers every change, a resource is reconciled again after the
\* poll interval at the latest, and a reconcile runs to its end.
Fairness ==
    \A w \in Workers, r \in Resources :
        /\ WF_vars(Sync(w, r) /\ UNCHANGED <<cloud, secret, lost>>)
        /\ WF_vars(Begin(w, r) /\ UNCHANGED <<cloud, secret, lost>>)
        /\ WF_vars(Progress(w, r))

FairSpec == Spec /\ Fairness

------------------------------------------------------------------------------
(* Safety *)

\* A resource never has two users, however often creation is retried, except
\* for users whose create call did not answer.
AtMostOneUser ==
    \A u, v \in UserIDs \ lost :
        Live(u) /\ Live(v) /\ cloud[u].owner = cloud[v].owner => u = v

\* The operator never forgets a user it created: the ID is in the status or in
\* the annotation, or the resource is marked as one whose creation did not
\* conclude, which stops the operator from creating another user.
EveryUserAccountedFor ==
    \A u \in UserIDs \ lost :
        Live(u) /\ cloud[u].owner \notin Orphans =>
            LET o == api[cloud[u].owner]
            IN  o.phase = "live" /\ (o.status = u \/ o.note = u \/ o.creation = "pending")

\* The operator deletes a user only for a resource that is being deleted and
\* that is not to be orphaned, whatever its cache says.
DeletedOnlyOnRequest ==
    [][\A w \in Workers, r \in Resources :
          DeleteUser(w, r) \/ DeleteAnswerLost(w, r)
              => api[r].deleting /\ r \notin Orphans
                 /\ cloud[task[w][r].obj.status].owner = r]_vars

\* The status is the authoritative place of the user ID: once it names a user,
\* it never names another one or none while the resource lives, though the
\* annotation is dropped, the status in memory is lost and caches are stale.
StatusIDNeverChanges ==
    [][\A r \in Resources :
          api[r].status # None /\ api'[r].phase = "live"
              => api'[r].status = api[r].status]_vars

\* The users of r that the operator has heard of.
Owned(r) == {u \in UserIDs \ lost : Live(u) /\ cloud[u].owner = r}

External == INSTANCE ExternalResource WITH
    Externals <- UserIDs,
    wish <- [r \in Resources |-> Wish(r)],
    external <- [r \in Resources |-> Owned(r)],
    faults <- mishaps

\* The controller implements the abstract life cycle, step by step: with stale
\* caches, conflicts, crashes and lost answers, a user is made only where there
\* is none, deleted only on request, and let go of only when there is none.
ImplementsExternalResource == External!Spec

(* What makes AtMostOneUser, EveryUserAccountedFor and StatusIDNeverChanges    *)
(* inductive, together with TypeOK and Exclusion.                              *)

\* The stored object o accounts for the users U of r.
Stored(r, o, U) ==
    /\ o.status # None /\ o.note # None => o.note = o.status
    /\ o.phase = "live" /\ U # {} => o.finalizer
    /\ \A u \in U :
          \/ o.phase = "live" /\ (o.status = u \/ o.note = u \/ o.creation = "pending")
          \/ o.phase = "gone" /\ r \in Orphans
    /\ \A u, v \in U : u = v

\* Where a reconcile of r is agrees with what it has in memory.
Sound(r, t) ==
    /\ t.pc = "finalize" => r \in Orphans \/ t.seen = "missing"
    /\ t.pc = "pending" => t.seen = "missing"
    /\ t.pc = "addFinalizer" => ~t.obj.finalizer
    /\ t.obj.creation = "pending" =>
          \/ t.pc \in {"create", "createSecret"}
          \/ t.pc \in {"finalize", "status"} /\ t.seen = "unknown"
    /\ t.cur \/ t.pc \in CreateSteps =>
          (t.obj.status # None /\ t.obj.note # None => t.obj.note = t.obj.status)

\* The ID in memory agrees with the stored object o, as long as the copy is
\* current and while the creation is announced.
Known(r, t, o) ==
    /\ t.cur =>
          /\ o.phase = "live"
          /\ \/ t.obj.status = o.status
             \/ o.status = None /\ o.note \in {None, t.obj.status}
          /\ t.pc \in {"finalize", "status"} /\ t.obj.creation = "pending"
                => t.obj.status = o.status
    /\ t.pc \in CreateSteps =>
          \/ o.phase = "gone" /\ r \in Orphans
          \/ o.phase = "live" /\ o.status \in {None, t.obj.status}

\* A reconcile that saw no user is right while its copy is current; within
\* Create, the only user is the one in the annotation in memory.
Seen(t, U) ==
    /\ t.cur /\ t.seen = "missing"
          /\ t.pc \in {"publish", "addFinalizer", "pending", "finalize"} => U = {}
    /\ t.pc \in CreateSteps => U \subseteq {t.obj.note}
    /\ t.pc = "create" => U = {}

\* The stored objects, the reconciles with what they hold in memory and the users
\* at cloudscale.ch fit together, at every step between two calls of Observe and
\* Create, whichever of the instances' copies are outdated.
Ownership ==
    \A r \in Resources :
        /\ Stored(r, api[r], Owned(r))
        /\ \A w \in Workers :
              /\ Sound(r, task[w][r]) /\ Known(r, task[w][r], api[r])
              /\ Seen(task[w][r], Owned(r))

(* What makes DeletedOnlyOnRequest and ImplementsExternalResource provable with *)
(* Ownership.                                                                   *)

\* The users made for r by calls that answered, whatever became of them.
Made(r) == {u \in UserIDs \ lost : cloud[u].state # "free" /\ cloud[u].owner = r}

\* The IDs on the object o are those of users in M.
Named(o, M) == {o.status, o.note} \subseteq M \cup {None}

\* What a copy o of any age says of a deletion request still holds of the stored
\* object now.
Asked(o, now) == o.deleting => now.phase = "gone" \/ now.deleting

\* A reconcile deletes by the request that it has read, and never for an orphan.
Directed(r, t) ==
    /\ t.pc \in DeleteSteps => t.obj.deleting
    /\ t.pc = "delete" => r \notin Orphans
    /\ t.pc \in {"connect", "observe"} /\ t.obj.deleting => r \notin Orphans

\* The reconcile t of r and the cached copy c agree with the object o as stored and
\* the users M made for r.
Entitled(r, M, o, c, t) ==
    /\ Named(c, M) /\ Asked(c, o)
    /\ Named(t.obj, M) /\ Asked(t.obj, o) /\ Directed(r, t)
    /\ t.cur => t.obj.deleting = o.deleting

\* Whatever is done to a user is done for the resource that made it, and deletion
\* requests are neither made up nor forgotten, though instances write from copies of
\* different age.
Mandate ==
    /\ \A u \in lost : cloud[u].state # "free"
    /\ \A r \in Resources :
          /\ Named(api[r], Made(r))
          /\ \A w \in Workers :
                Entitled(r, Made(r), api[r], cache[w][r].obj, task[w][r])

------------------------------------------------------------------------------
(* Liveness *)

\* In the end no resource is left being deleted, unless its creation never
\* concluded: then the operator refuses to touch it.
DeletionCompletes ==
    <>[](\A r \in Resources : api[r].deleting => Inconclusive(r))

\* In the end every resource that is there and not being deleted has got a user,
\* whose ID is in its status, unless its creation never concluded or somebody
\* else's Secret is in the way of the keys.
CreationCompletes ==
    <>[](\A r \in Resources :
            api[r].phase = "live" /\ ~api[r].deleting
                => \/ api[r].status # None \/ Inconclusive(r)
                   \/ r \in SecretRefs /\ secret[r].origin = "user")

\* What the controller compares of a user: name, desired tags, published keys.
InSync(r) ==
    LET u == api[r].status
    IN  /\ cloud[u].name = GetDisplayName(r, api[r].spec)
        /\ ~TagsNeedUpdate(api[r].spec.tags, cloud[u].tags)
        /\ r \in SecretRefs /\ cloud[u].key # None => secret[r].key = cloud[u].key

\* After the last intervention every user that still exists has the name and
\* the tags of the spec for good, and its current keys are in the Secret, also
\* after an update that failed half way and after the Secret was removed.  That is,
\* unless the publisher refuses the Secret: then neither keys nor edits get through
\* any more, until somebody removes it (see SecretHasKeys).
UsersConverge ==
    <>[](\A r \in Resources :
            Live(api[r].status) /\ api[r].phase = "live" /\ ~api[r].deleting
                => InSync(r) \/ Refused(r))

------------------------------------------------------------------------------
(* What comments and docs say and the code does not keep. *)

\* Getting started: the provider updates the objects user when its tags are
\* modified.  It does not when a tag is removed and another one stays.
TagsFollowSpec ==
    <>[](\A r \in Resources :
            Live(api[r].status) /\ api[r].phase = "live" /\ ~api[r].deleting
                => cloud[api[r].status].tags = api[r].spec.tags)

\* The comment of ensureCredentialsSecret: the Secret is created with the S3 keys of
\* the user and updated when they change.  Update has no keys at hand, and if the
\* Secret was removed since it was published, the one created there is one that the
\* publisher refuses from then on.
SecretHasKeys ==
    <>[](\A r \in SecretRefs :
            LET u == api[r].status
            IN  Live(u) /\ cloud[u].key # None /\ ~api[r].deleting
                    => secret[r].key = cloud[u].key)

==============================================================================
