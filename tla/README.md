# provider-cloudscale in TLA+

A verification development of provider-cloudscale, the Crossplane provider that
manages objects users and S3 buckets at cloudscale.ch. It models the three
controllers, the two that manage external resources on their own and together,
checks them with TLC on small instances and proves the safety of each of the
three, of the two together, and of the concurrent removal of objects, for all
instances with TLAPS.

Paths below are relative to the repository root (`src/` in PROJECT.json).

## The system

| Component | State | Operations | Source |
|---|---|---|---|
| Managed reconciler (crossplane-runtime v1.18, external) | per resource: metadata, finalizer, creation annotations, conditions; per instance: an informer cache and a running reconcile | read from the cache, Connect, Observe, add the finalizer, announce the creation, Create, record it, Update, Delete, remove the finalizer, write the status | configured in `operator/*/setup.go` |
| ObjectsUser controller | user ID (annotation `cloudscale.crossplane.io/user-id`, then `status.atProvider.userID`), connection Secret; at cloudscale.ch: users | Connect, Observe, Create, Update, Delete | `operator/objectsusercontroller` |
| Bucket controller | lock annotation, `status.atProvider.bucketName`; at S3: buckets and whether they hold objects | Connect (or NoopClient), Observe, Create, Delete | `operator/bucketcontroller` |
| Bucket webhook | none (decides by the stored status) | ValidateUpdate | `operator/bucketcontroller/webhook.go` |
| Removal of objects | two goroutines and two channels per deletion of a bucket | list, send, remove in batches, report, return at the first error | `deleteAllObjects`, `bucketcontroller/delete.go:42` |
| ProviderConfig controller, usage tracking | ProviderConfigUsages, finalizer and `status.users` of the ProviderConfig, work queue, caches | count usages, finalize, write the status; Track, fetch and read the token in Connect | `operator/configcontroller`, `objectsusercontroller/connector.go:96` |
| Operator command | none (leader election and webhook are switched here) | start-up | `operator_command.go`, `flags.go` |

Interactions. The reconciler calls the provider and passes the object in
memory from call to call; the provider may change that object, and which of its
changes survives depends on the write that follows: an Update stores metadata
and spec and decodes the answer over the object, a Status().Update stores the
status alone. `Create` in particular may leave nothing but annotations behind,
so both controllers leave one there (the user ID, the lock) for the next
`Observe`. The ObjectsUser controller writes S3 keys into a Secret; the Bucket
controller reads its credentials from a Secret, usually that one. The webhook
reads the status that the Bucket controller writes. Connect of an ObjectsUser
leaves a ProviderConfigUsage behind, and the events of usages are what wakes the
ProviderConfig controller.

What is hard. Caches lag behind the API server. Leader election is off by
default, so two instances may run at once, during a rolling update or for
good. A process may die, a call may fail, and a call may succeed without an
answer, at every step. Objects users have no unique name and can only be found
by the ID that the create call returned; buckets have nothing but a name, which
anybody may take. The hazards this leads to are listed in PROJECT.json, each at
its line and with the properties that watch it.

What makes each component correct:

* reconciler: at most one instance is creating the external resource of an
  object, and an object with an inconclusive creation is left alone;
* ObjectsUser: one user per resource, never forgotten, never confused with
  another one, deleted only on request; in the end name, tags and Secret agree;
* Bucket: no bucket is taken over or forgotten, the status names the bucket of
  the spec, objects are removed only on request, a deletion reported as done is
  done; creation and deletion complete when nothing blocks them;
* removal of objects: it returns, nil means that they are gone, and it leaves
  nothing running;
* ProviderConfig: it outlives the users it knew of when its deletion was
  requested, in the end it is gone and counted right, and its users can go
  before it;
* ObjectsUser with Bucket: both can be torn down in any order of requests, and
  the credentials outlive the buckets.

## Modules

| Module | Models | Extends |
|---|---|---|
| `ManagedReconciler` | the reconciler, API server writes, informer caches, crashes; the exclusion of creations and its inductive strengthening | |
| `ObjectsUser` | the ObjectsUser controller, the cloudscale.ch users, the connection Secret | `ManagedReconciler` |
| `Bucket` | the Bucket controller, the webhook, the S3 buckets, the credentials | `ManagedReconciler` |
| `ExternalResource` | the abstract life cycle of a managed resource | instantiated by `ObjectsUser`, `Bucket` |
| `ProviderConfig` | Connect of an ObjectsUser step by step, usages, the ProviderConfig controller | |
| `Teardown` | an ObjectsUser and Buckets that use its Secret, with a cloud that refuses to delete a user with buckets | instantiates `ObjectsUserOwnership`, `BucketNaming` |
| `DeleteAll` | `deleteAllObjects`, its goroutine, the remover of the minio client | |
| `MCObjectsUser`, `MCBucket` | tag maps, policies and symmetry for TLC | |
| `ManagedReconcilerProofs` | lemmas about the writes and steps of a reconcile, for any kind | `ManagedReconciler`, `TLAPS` |
| `ObjectsUserProofs` | types and the exclusion of creations in `ObjectsUser` | `ObjectsUser`, `ManagedReconcilerProofs` |
| `ObjectsUserOwnership` | the theorems about the users of a resource, the refinement of `ExternalResource` | `ObjectsUserProofs` |
| `BucketProofs` | types, exclusion and deletion requests in `Bucket`, what each action does to its reconcile; the theorems about the buckets of a resource | `Bucket`, `ManagedReconcilerProofs` |
| `BucketNaming` | the theorems about names of buckets, the refinement of `ExternalResource` | `BucketProofs` |
| `ProviderConfigProofs` | types and the users a ProviderConfig waits for | `ProviderConfig`, `TLAPS` |
| `TeardownProofs` | the theorems about the two controllers together | `Teardown`, `TLAPS` |
| `DeleteAllProofs` | types, and that nil means removed | `DeleteAll`, `TLAPS` |

### State

`api[r]` is the stored object, `cache[w][r]` the copy in the cache of instance
`w`, `task[w][r]` the reconcile that `w` runs, with its program counter `pc`,
the object in memory `obj`, the observation `seen` and what the external client
carries (`ctx`: keys, or the account of the S3 client). `mishaps` counts
failures and interventions.

An object has the fields that decide something: `phase` (before, during and
after its life), `deleting` (deletion timestamp), `finalizer`, `spec`, `creation`
(the newest of the external-create-pending, -succeeded and -failed annotations),
`note` (the user ID annotation, or the lock), `status` (`userID` or
`bucketName`), `ready` and `synced` (the reasons of the two conditions).
Resource versions are not counted: a copy carries a flag `cur`, which every
write that changes the stored object clears in all other copies. A write from a
copy that is not `cur` is a conflict. This keeps the state space finite
without a bound on resource versions.

`cloud`, `secret` (ObjectsUser), `s3`, `creds`, `accounts` (Bucket) are the world
outside. A Secret is the keys in it and its `origin`, who created it: only the
connection publisher gives it the type `connection.crossplane.io/v1alpha1` and a
controller, while `ensureCredentialsSecret` (`create.go:98`) leaves it without both,
as does a user who made it by hand. The type of a Secret cannot be changed, so the
origin decides for good.
`lost`, the `owner` of a user and the `creator` of a bucket are ghosts: nothing
in a guard reads them, the properties do.

### Actions

One action per call or write; PROJECT.json maps each to its lines. A reconcile
goes through the steps of its `pc`, and everything that two actors could see
between two calls is a state between two actions. So `Create` of an ObjectsUser
is `CreateUser` and `EnsureCredentialsSecret`, `updateObjectsUser` is `UpdateName`
and `UpdateTags`, and `Delete` of a Bucket is `RemoveObjects` and `RemoveBucket`,
while computations in memory belong to the action of the call before them.

Failures are actions of their own: `CallFails` (nothing happened on the other
side; `OnError` is what the reconciler makes of it), `Abandon` (the process dies,
the status cannot be written, or the annotations cannot), `ObserveFails`,
`CreateFails`, `ListingFails`, and `CreateAnswerLost`, `DeleteAnswerLost`,
`RemoveAnswerLost` and a branch of the Bucket's `CreateFails`, where the call took
effect and nobody heard. Conflicts, refusals and missing users are no mishaps:
they follow from the state.

One refusal is that of the publisher (`PublishRefused`): crossplane-runtime writes
only to a Secret of its own type or one that the resource controls. A Secret comes
to be `Refused` in two ways: a user has made one before the ObjectsUser was applied
(`Occupied`), or it was removed after it was published and `EnsureCredentialsSecret` or
`UpdateSecret` created it once more. Publishing comes before Create and Update, so the
reconcile ends there, every time, until somebody removes the Secret.

In `ProviderConfig` the work queue is explicit, since that controller is woken by
watches alone, and so is the cache of usages, which is delivered independently of
the cache of ProviderConfigs. An ObjectsUser is reduced to what needs the token:
once connected it makes its user, deletes it, or goes, in one step.

`DeleteAll` has one variable `run` for the three parties (caller, lister,
remover) with their program counters and what the channels hold: `offer` is the
object the lister is about to hand over on the unbuffered channel, `buffered`
what is in the channel of errors, which has room for one. The remover is that of
minio-go v7: it gathers a batch, requests its removal and sends one error per
object that was not removed. An answer that is lost is an error for objects that
were removed.

A resource name is the resource itself. `GetDisplayName` and `GetBucketName`
fall back to it. A recreated resource would be another element of `Resources`.

### The abstract life cycle

`ExternalResource` is what a user of either kind is promised: per managed
resource a `wish` (new, live, deleting, gone) and the set of external resources
made for it; one is made only where there is none, taken away only while the
deletion is requested and the resource does not orphan it, and the managed
resource goes when nothing is left or may be left. `ObjectsUser` and `Bucket`
implement it under the mapping `External`: `wish` is `Wish(r)`, `external` are
the users or buckets made for `r` that the operator can know of (`Owned`),
and `faults` is `mishaps`. `ImplementsExternalResource` is checked with two
instances in both safety runs: whatever stale caches, conflicts and crashes do,
every step is one of these or changes nothing that the abstraction sees.

### The composition

In `Teardown` the credentials of the buckets are what the Secret of the
ObjectsUser holds, the accounts of S3 are the users that live, and every step of
one controller leaves the state of the other alone, with two additions for the
cloud: a user stays while it has buckets (`KeptByCloud`), and a delete call for
such a user is refused (`DeletionRefused`). The run starts from a ready
ObjectsUser, since a Bucket can only fail to connect before. The two controllers
come with the theorems about them (`ObjectsUserOwnership` extends `ObjectsUser`,
`BucketNaming` extends `Bucket`), which `TeardownProofs` builds on. The ObjectsUser
keeps its spec, so nothing is updated and its Secret is always the publisher's.

What the composition shows beyond that both go in any order of requests are the
three ways in which they do not; `TeardownCompletes` excepts them by name:

* `Withheld`: a Secret that is removed while its ObjectsUser is being deleted is
  not published again. If there are buckets the user cannot go, and without the
  Secret they cannot: each waits for the other until somebody restores it.
* `Stranded`: a Bucket whose bucket is gone (removed outside, or never made) and
  whose status does not say so needs a Connect to find that out, and Connect
  fails once the ObjectsUser and its Secret are gone. A failure to remove the
  finalizer gets there, too: it overwrites the conditions that say that the
  bucket was deleted, and the ObjectsUser may go before the retry.
* a creation that never concluded, as in each kind alone.

### Abstractions of the reconciler

* After an Update, a status that is only in memory is kept or lost; both are
  tried, since that depends on how the answer is decoded.
* UpdateCriticalAnnotations first updates from the copy in memory, then retries
  with what the cache holds until that is current. Giving up after five
  attempts is `Abandon`, which omits that the condition may still be written.
* The grace period of 30 seconds in which a created resource that is not found
  is requeued only ends a reconcile early: `Abandon` covers it. Creation
  annotations carry seconds; two of them never tie here.
* One reconcile at a time per kind and instance (the default of
  controller-runtime; nothing in `setup.go` changes it).
* `spec.deletionPolicy` is fixed (`Orphans`). Pausing, management policies and
  the initializer that writes the external-name annotation are left out.

## Checks

Small sets: one resource is enough for everything but adoption, since resources
meet only in a bucket name. Two instances are enough for a race, since the
exclusion is between pairs. `MaxMishaps` bounds everything the environment
or a fault may do, including edits. `UserIDs` has as many elements as creations
can happen under that bound, so running out of IDs is never what stops a run. In
`objectsuser_converge` they are handed out in one order (`IDsInOrder`): the IDs
are interchangeable, and TLC cannot use symmetry where it checks liveness.
`CHECK_DEADLOCK FALSE` is set everywhere because a finished system stops: when
every resource is gone and no mishap is left, nothing is enabled.

| Run | Instance | Shows |
|---|---|---|
| `objectsuser_safety` | 2 instances, 1 mishap | types; `CreateIsExclusive`, `AtMostOneUser`, `EveryUserAccountedFor`, `StatusIDNeverChanges`, `DeletedOnlyOnRequest` under races and stale caches; the inductive invariants `Ownership` and `Mandate`; `ImplementsExternalResource` |
| `objectsuser_converge` | 1 fair instance, 2 display names, 2 tag maps, 2 key pairs, a Secret that may be there before, 2 mishaps | `EveryUserAccountedFor` under repeated failures; `UsersConverge`; `CreationCompletes`, `DeletionCompletes` |
| `bucket_safety` | 2 instances, a name that may be taken, 1 mishap | types; the inductive invariants `Exclusion`, `Custody` and `Rightful`; `PreexistingNeverAdopted`, `EveryBucketAccountedFor`; `ImplementsExternalResource` |
| `bucket_retries` | 1 fair instance, both policies, 2 names, 3 mishaps | `EveryBucketAccountedFor`, `DeletedMeansRemoved`, `SpecMatchesStatus`, `ObjectsRemovedOnRequest`; `CreationCompletes`, `DeletionCompletes` |
| `providerconfig_account` | 1 fair instance, 1 user, 2 ProviderConfigs, 1 mishap | types; `SettledUsersKeepConfig` with its inductive invariant `Accounting`; `DeletionCompletes`, `UsersDeleted`, `UsersCounted` |
| `teardown_order` | 1 fair instance, 1 ObjectsUser, 1 Bucket, 1 mishap | `UserOutlivesBuckets`, `SecretOutlivesBuckets`; `TeardownCompletes`, `DeletedBucketsGo` |
| `deleteall_removal` | 4 objects, batches of 3 | types; `NilMeansRemoved`; `CallReturns`, `NothingLeftRunning` |

`providerconfig_account` has two ProviderConfigs because a usage may move from one
to the other, which has to wake the controller for both; one user is enough for
the races of a count, which concern a usage and a ProviderConfig. In
`teardown_order` one mishap is a lost answer, a crash, or an intervention such as
the removal of the Secret. Batches of three with four objects are the smallest
in which errors fill the channel, block the remover and leave a second batch and
the lister waiting; the real batch has a thousand.

The premises matter. `AtMostOneUser` and `EveryUserAccountedFor` except users
whose create call did not answer (`lost`): the code cannot know their ID. With
the annotation `creation = "pending"` or `"failed"` that remains, an
inconclusive creation is refused, a failed one is tried again, and in the second
case an unheard user stays behind. `EveryBucketAccountedFor` makes the same
exception, and another one: a resource that is given another name after its
bucket was made and before the status names it forgets that bucket, see
`bucket_immutable` below. `PreexistingNeverAdopted` has the premise that
names are not edited, as in `bucket_safety`: the lock says that a bucket was made
and not which, so under a new name the resource may take over a bucket that was
there before. `SpecMatchesStatus` speaks of the name alone: the region
of a bucket that somebody else removed and made again is theirs to choose.
`CreationCompletes` of an ObjectsUser excepts one whose Secret somebody else has made,
and `UsersConverge` one whose Secret the publisher refuses (`Refused`), see
`objectsuser_secret` below: an edit and a Secret that is
removed at the wrong moment, both within the two mishaps of the run, are enough for
keys and edits to get nowhere any more.
The liveness properties of both kinds except resources that are
`Inconclusive`: announced, not concluded, and nobody at work on them. The
reconciler refuses such a resource until somebody removes the annotation,
deletion included. `Blocked` in `Bucket` lists what else only a human can resolve.
They are stated as `<>[]`, so that a state that is excused only in passing,
such as "pending" in every attempt of an endless retry, does not satisfy them.

`SettledUsersKeepConfig` speaks of the users whose usage was in the caches of all
instances when the deletion was requested; a user that connects later may lose
the race with the finalizer, see `providerconfig_race`. `NothingLeftRunning`
excepts three and more objects that cannot be removed: one error is returned,
one fits into the channel, the third blocks the remover for good, and with it the
lister.

`bucket_safety` has a single spec, so that no copy of a spec is outdated in it: for
`Rightful` that case is in the theorem `RightfulAlways`, for `SpecMatchesStatus`, which
follows from it, in `bucket_retries`. `ObjectsRemovedOnRequest` ties the policy to a copy
that is current: one that was set to `DeleteIfEmpty` after the copy was read does not
keep the objects. `DeletedOnlyOnRequest` is about every delete call that reaches
cloudscale.ch, answered or not. A resource that orphans its user is in the theorems about `Spec`,
which hold for any `Orphans`; of the runs only `objectsuser_tags` has one.

`objectsuser_converge` and `bucket_retries` are the runs in which the mishap
budget allows a failure on top of a failure; the two-instance runs spend one
mishap because the interleavings are the point there.

Fairness (`FairSpec`): weak fairness of `Sync` (an informer delivers every
change), of `Begin` (a resource is reconciled again after an error, a change, or
the poll interval of an hour, `setup.go:30`), and of `Progress` (a reconcile
goes on when no call fails). No fairness is assumed of failures, of users, or of
anything outside. The bound on mishaps makes "from some point on nothing fails"
part of every behaviour. Liveness is checked with one instance: with two,
nothing in the code keeps them from taking turns at conflicts. The
ProviderConfig controller does not poll: its fairness is that of its informers and
of its work queue, so that `UsersCounted` and `DeletionCompletes` say that the
events suffice. In `DeleteAll` a goroutine that can run does.

Every property has a mutant: a definition of the model replaced by what a
plausible bug would make of it (a lock not set, an ID not annotated, an update
not tied to a version), under which TLC finds the property violated.

### Disagreements between code and documentation

| Run | Says | Does |
|---|---|---|
| `bucket_adopt` | with the lock, two resources never manage one bucket (`create.go:58`) | two instances that both saw the name free both lock it, since a bucket that exists and answers counts as made (`create.go:46`); no failure is needed |
| `bucket_immutable` | the webhook prevents changes once the bucket exists (`bucket-reconciliation.adoc:19`) | it does once the status names the bucket, a reconcile later; in between a rename makes the provider forget the bucket and make another, or take one over that is not its own; `SpecMatchesStatus` shows that this never leaves status and spec apart |
| `objectsuser_tags` | modified tags reach cloudscale.ch (`getting-started.adoc:76`) | a removed tag does not while another one is desired (`util.go:27`) |
| `objectsuser_secret` | the Secret has the S3 keys of the user and is updated when they change (`create.go:88`) | removed between publishing and the end of an update, it is created without keys and of a type that the publisher refuses (`create.go:98`, `setup.go:19`): neither keys nor edits get through any more |
| `providerconfig_race` | a ProviderConfig is not deleted until all ObjectsUsers stop using it (`connector.go:96`) | a user that connects after the usages were counted is not waited for, though Connect accepts a ProviderConfig that is being deleted (`connector.go:71`) |

Three more do not hold, without a run of their own. With an ID in the
status, `Create` of an ObjectsUser returns early because the "User already exists"
(`objectsusercontroller/create.go:30`), but it is called only when the user was
not found: it is not created again. And a deleted bucket is observed again
(against `bucket-reconciliation.adoc:26`) when a failure to remove the finalizer has
overwritten the conditions; `Stranded` in `Teardown` is what may come of it. And a
Secret that is there before the ObjectsUser does not get overwritten (against
`getting-started.adoc:64`): the publisher refuses an ordinary one, and as it comes
before `Create` the user is not made, the exception of `CreationCompletes`.

`createS3Bucket` also claims to set the name in the status (`create.go:35`); the
next Observe does. `MakeBucket` in the model leaves the status alone.

## Proofs

The theorems hold for every value of the constants that satisfies the named
assumptions of the modules, and for sets of any size, infinite ones included,
that may overlap where these do not say otherwise. The number of operator
instances, of mishaps, of resources and of stale copies is arbitrary.

| Module | Theorem | States |
|---|---|---|
| `ObjectsUserProofs` | `TypeCorrect` | `Spec => []TypeOK` |
| | `ExclusionAlways`, `CreateExclusive` | `Spec => []Exclusion`, `Spec => []CreateIsExclusive` |
| `ObjectsUserOwnership` | `OwnershipAlways` | `Spec => []Ownership` |
| | `OneUser`, `UsersAccountedFor` | `Spec => []AtMostOneUser`, `Spec => []EveryUserAccountedFor` |
| | `StatusIDKept` | `Spec => StatusIDNeverChanges` |
| | `MandateAlways`, `DeletedOnRequest` | `Spec => []Mandate`, `Spec => DeletedOnlyOnRequest` |
| | `Implements` | `Spec => ImplementsExternalResource` |
| `BucketProofs` | `TypeCorrect`, `ExclusionAlways`, `RequestsAlways` | `Spec => []TypeOK`, `[]Exclusion`, `[]Requests` |
| | `CustodyAlways` | `Spec => []Custody` |
| | `AccountedFor`, `DeletedIsRemoved` | `Spec => []EveryBucketAccountedFor`, `[]DeletedMeansRemoved` |
| | `RemovedOnRequest` | `Spec => ObjectsRemovedOnRequest` |
| `BucketNaming` | `RightfulAlways` | `Webhook \/ OneName` implies `Spec => []Rightful` |
| | `StatusMatchesSpec` | `Webhook` implies `Spec => []SpecMatchesStatus` |
| | `PreexistingLeftAlone` | `Spec => []PreexistingNeverAdopted` |
| | `Implements` | `DistinctNames` implies `Spec => ImplementsExternalResource` |
| `ProviderConfigProofs` | `TypeCorrect`, `AccountingAlways` | `Spec => []TypeOK`, `[]Accounting` |
| | `SettledUsersKept` | `Spec => []SettledUsersKeepConfig` |
| `DeleteAllProofs` | `TypeCorrect`, `RemovedWhenNil` | `Spec => []TypeOK`, `[]NilMeansRemoved` |
| `TeardownProofs` | `UserKept`, `SecretKept` | `Spec => []UserOutlivesBuckets`, `Spec => SecretOutlivesBuckets` |
| | `UsersAccountedFor` | `Spec => []`(`AtMostOneUser` and `EveryUserAccountedFor` of the ObjectsUser) |
| | `BucketsAccountedFor` | `Spec => []`(`EveryBucketAccountedFor`, `DeletedMeansRemoved` and `SpecMatchesStatus` of the Buckets) |
| | `RemovedOnRequest` | `Spec => DeletedOnlyOnRequest` and `ObjectsRemovedOnRequest`, each of its controller |
| | `UsersImplement`, `BucketsImplement` | both controllers take steps of `ExternalResource` only |

Assumptions: `MaxMishaps` is a natural number; `Orphans` and `SecretRefs` are
sets of resources; the deletion policies are the two of the API; `None`, the
marks of a bucket's origin (`before`, `outside`), the mark of the lock and the
context of the NoopClient are none of the names, resources and accounts that
they are compared with. `Teardown` has one ObjectsUser and a set of Buckets of any
size, with at least one user ID. TLC evaluates them in the runs.

Three theorems of `BucketNaming` have a premise, since without it they are false:

* `Webhook`: the webhook is served (`operator_command.go:99`). Without it
  nothing keeps the name of the spec, and the status may name another bucket.
* `OneName`, also the premise within `PreexistingNeverAdopted`: no resource can
  be given a second name. The lock does not say which bucket it is for, so a
  resource that is renamed may take over a bucket under its new name.
* `DistinctNames`: no two resources can be given one bucket name. Where they can,
  two instances let two resources manage one bucket (`bucket_adopt`), and the
  deletion of one removes the bucket of a live one, which no step of
  `ExternalResource` does. All resources share the names of `Names`, so with two or
  more of them the premise leaves each its metadata name; a single resource may be
  renamed within `Names`, with and without webhook.

### Exclusion of creations

`CreateIsExclusive` (at most one instance is between announcing and recording a
creation) is not inductive: nothing in it keeps a second instance from
announcing. The strengthening `Exclusion` adds the chain the code relies on:

* `CachesAgree`, `TasksAgree`: what a copy that is still `cur` must share with
  the stored object;
* `CreationAnnounced`: whoever is within Create, the stored object says
  "pending" and has a finalizer, or is gone;
* `CreationChecked`: whoever has not announced yet read an object that did not
  say "pending".

So an instance that announces from a current copy knows that nobody is within
Create, and one with an outdated copy gets a conflict. The finalizer is in
there because an object without one may vanish without a trace. The object that
is gone is needed, too: an instance with `Orphan` in mind may remove the
finalizer while another one creates.

`ManagedReconcilerProofs` holds the part that does not depend on the kind, one
lemma per form of step (`GotoExclusion`, `SaveExclusion`, `StoreExclusion` and
what they are combined to). Both kinds use it: `ObjectsUserProofs` and
`BucketProofs` state once, in lemmas named `...Effect`, what each action does to
the reconcile it belongs to, and the invariants are proved from these.

### The users of a resource

`Ownership` is inductive together with `TypeOK` and `Exclusion`. For each
resource, with the users it has (`Owned`), it says of

* the stored object (`Stored`): it names its user or announces one, it has a
  finalizer if it has a user, and annotation and status never name two users;
* a reconcile by itself (`Sound`): e.g. it removes the finalizer because no user
  was found or because the user is to be orphaned;
* a reconcile and the stored object (`Known`): as long as the copy is current,
  the ID in memory is the stored one, or the annotated one on its way to the
  status; while the creation is announced, this much holds of any copy;
* a reconcile and the users (`Seen`): one that saw no user is right as long as
  its copy is current, and within Create the only user of the resource is the
  one in the annotation in memory.

The argument in short: a user is created only after an announcement from a
current copy, by a reconcile that had found none, so there was none; by
`Exclusion` nobody else is within Create, and whoever else found none holds a
copy that the announcement outdated. The annotation is dropped in memory when
the ID moves to the status, so the two Updates before Create may store metadata
without it, but they come only when the resource has no user; the update that
records the outcome starts from what is stored. `GotoOwnership`,
`SaveOwnership` and `StoreOwnership` reduce each form of step to what it has to
show about its own resource, `OwnershipStep` goes through the actions, and
`StatusKept` derives the action property from `Known`.

`Ownership` says little of copies that are outdated, but Delete may act on one, and
the conflict that its write meets comes only after the user is gone. What
copies of any age may be relied on for is `Mandate`: an ID on a stored object, in
a cache or in a reconcile is that of a user made for this resource (`Named`, with
`Made` instead of `Owned`, since the user may have been deleted meanwhile), a
deletion request in a copy still holds (`Asked`), and a reconcile deletes by the
request it has read, never for an orphan (`Directed`). It is inductive with
`TypeOK` and `Exclusion`; the latter, because the write that records a creation
stores its annotation over whatever is there.

`Implements` follows from `Ownership` and `Mandate`: `AbstractStep` says when a
step is one of `ExternalResource`, and the lemmas after it go through the actions:
creation is `Provision` since the resource owned nothing (`Seen`), deletion
`Deprovision` since the user is its own and the request is there (`Mandate`), the
end of a resource is `Release` since no user is left (`Seen`, for a current copy) or
it may be left. A delete call without an answer, a user that somebody else
removed and a create call without an answer are a `Fault`, whatever they did to
`external`.

### The buckets of a resource

`Bucket` has no ID to keep, but a name anybody may use. Its argument is
in three layers, each inductive with the ones before:

* `Orderly`: `TypeOK`, `Exclusion` and `Requests`. A condition or a reconcile
  that speaks of a deletion does so because it was requested; while its copy is
  current a reconcile has read the request that is stored.
* `Custody`: the stored object accounts for the buckets of its resource (`Stored`),
  a copy of any age is right about the deletion request and the lock, which nothing
  ever takes back (`Aged`), a reconcile is where its copy says (`Sound`), agrees
  with what is stored (`Known`), and has found no bucket only if there is none
  (`Seen`). `Removed` is what a status with the conditions of a successful
  deletion means; it is the hard part, since it is first true of a copy in
  memory, is then written without a check of anything else, and must not become
  false again: once the deletion is requested and its buckets are gone, the
  resource cannot come to have one, because a creation would have to be announced
  from a copy without the request.
* `Rightful`: stored object, caches and reconciles name the bucket of their own
  spec (`Fits`), and a reconcile on its way to Create looked under the right name
  (`Looked`). The webhook decides by the stored spec and status, the controller by
  a copy of both; they agree because a status is written with the spec it was
  derived from, or not at all.

Buckets change hands in one way, Create; all else at S3 takes buckets away
(`Fewer`), and what `Custody` says is kept by that. So the proof goes by form of
step, as for users, and only `MakeBucket` has to argue about new buckets.

The refinement needs `MadeByName` in addition: a bucket that a resource made has
a name that could be in its spec, which with `DistinctNames` says that `RemoveBucket`
takes it from nobody else.

### ProviderConfigs

The reconcile that removes the finalizer counts usages in one cache and has its
ProviderConfig from another; only the write is checked, and the check does not
look at usages. `Accounting` adds to `SettledUsersKeepConfig` that copies that are
current say what is stored (`CopiesAgree`), that every cache knows the usage of a
settled user, also after a restart (`SettledKnown`), and that a reconcile about to
finalize has read the deletion request and, if its write is going to be accepted,
the ProviderConfig has no settled user (`CountsAgree`). Users settle in the step
that requests the deletion, which outdates every copy without the request, so a
count that came to none was made after that.

### Removal of objects

`DeleteAllProofs` argues for any set of objects and any batch size, from
`DeleteAllAssumption` alone. The inductive invariant `Removal` says what the three
parties may be doing at the same time (`Handed`); that as long as no error is on
its way, an object that was listed and is still there is in the hands of the
lister or in the batch (`InHand`); that a listing without an error is complete
(`Listed`); and that the remover has finished, and no error is left, when the caller
has returned nil (`Concluded`). An element of `Objects` is one upload: the
same key uploaded again is another object.

### ObjectsUser and Buckets together

The invariant of `Teardown` is `Together`: that of the ObjectsUser controller
(`Provided`, which is `TypeOK`, `Exclusion`, `Ownership` and `Mandate`), that of the
Bucket controller (`Held`, which is the three layers above with `MadeByName`), and
`Hosted`, that every bucket belongs to a user that lives.

Nothing of the first two is proved again. A step of one controller is a step of its
module (`ProvidedStep`, `HeldStep`) and leaves the variables of the other alone, except
for `mishaps`, which both count, and, seen from the Buckets, for the credentials,
which change whenever the Secret does: `Custody` and what follows from it hold
whatever the credentials become (`ProvidedAside`, `HeldAside`). Two things are
different from either module alone. A refused delete call is a step that `ObjectsUser`
does not have; as it ends in `OnError` like any other error, it keeps `Provided`
(`RefusedDelete`). And the ObjectsUser is ready from the start, which satisfies
`Provided` as the beginning does (`ProvidedAtRest`).

`Hosted` is what connects the two. It is kept because of what is assumed of
cloudscale.ch, that a user with buckets is not deleted and no bucket is made without a
user. That alone says nothing about the ObjectsUser, which the controller might let go:
`UserKept` needs `Stored`, by which an ObjectsUser whose user lives is there, with its
finalizer. `SecretKept` is about what becomes of the Secret then: it goes with
its ObjectsUser, or somebody removes it, and that is a mishap; whoever writes it
leaves one behind (`SecretGoes`).

### Only model-checked

Liveness, since the prover has neither fairness nor `ENABLED`: that creations,
deletions and teardowns complete, users converge and are counted, and the removal
of objects returns. Every invariant and action property that a passing run checks
is proved, too.

Before they were proved, the inductive invariants were checked by TLC:
`Ownership`, `Mandate`, `Exclusion`, `Custody`, `Rightful` and `Accounting` are
invariants of runs, with a mutant each that breaks them. `Together` has no run of
its own: all of it but `Hosted` and `MadeByName` is checked for each controller.

## Not modelled

* `ObjectsUser` and `Bucket` keep Connect and `deleteAllObjects` as one step that
  may fail; `ProviderConfig` and `DeleteAll` have their steps. In `Bucket` a
  removal that fails may have emptied the bucket or not.
* Goroutines that an earlier attempt of `deleteAllObjects` left behind are, to
  `DeleteAll`, somebody else who removes objects.
* In `ProviderConfig`, Secrets, ObjectsUsers and the usage that `Track` compares
  (`connector.go:100`) are read as they are stored. The client reads them from a
  cache, too, by which an update of a usage may be skipped or repeated until the next
  reconcile. In `ObjectsUser`, `CreateOrUpdate` and the publisher see the Secret as
  stored.
* Deleting a ProviderConfigUsage by hand; stores of credentials other
  than `apiTokenSecretRef`, which the code does not read.
* The remover of minio-go also reports errors that name no object, when a request is
  answered with another status than 200; `DeleteAll` has one error per object.
* A Secret made by a user is an ordinary one (`Opaque`) without controller; one that
  another resource controls is refused likewise.
* Several key pairs of a user (only the first is used), partial credentials,
  labels, events, logging, `status.endpoint`, `status.atProvider.tags`.
* Start-up code (what it decides are the constants `Workers` and `Webhook`), the
  lease of the leader election, generated code, the sample generator and the test
  environment.

## Plan

Done: all components that run in the operator, on their own and the two
controllers together; the proofs of every safety invariant and action property
that a run checks, and of both refinements, alone and in the composition.

Left to TLC is liveness. What could be added to the model is listed above; the
ProviderConfig could join the composition, where its usages would be those of the
ObjectsUser of `Teardown`.
