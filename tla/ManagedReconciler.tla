--------------------------- MODULE ManagedReconciler ---------------------------
(***************************************************************************)
(* The managed-resource reconciler of crossplane-runtime, as the two       *)
(* controllers of this provider configure and use it (SetupController in   *)
(* operator/bucketcontroller/setup.go and                                  *)
(* operator/objectsusercontroller/setup.go).  The library itself is not    *)
(* part of the repository: this module models the calls it makes into the  *)
(* provider (Connect, Observe, Create, Update, Delete) and the API-server  *)
(* writes it makes between them.  ObjectsUser and Bucket extend it with    *)
(* what the provider does in those calls.                                  *)
(*                                                                         *)
(* Workers are instances of the operator.  Leader election is off by       *)
(* default, so two instances may run at once (a rolling update, or two     *)
(* replicas); each has its own informer cache, which may be stale, and     *)
(* reconciles one resource of a kind at a time.                            *)
(*                                                                         *)
(* The resourceVersion of an object is not a number here.  A copy of an    *)
(* object (in a cache or in the memory of a reconcile) carries a flag cur: *)
(* no write changed the stored object since that copy was read.  A write   *)
(* from a copy that is not cur is refused with a conflict.                 *)
(***************************************************************************)
EXTENDS Naturals, FiniteSets

CONSTANTS
    Resources,      \* managed resources; each element is one lifetime (UID)
    Workers,        \* operator instances
    None,           \* the absent value: empty ID, missing annotation, no data
    Orphans,        \* resources applied with spec.deletionPolicy=Orphan
    MaxMishaps      \* bound on failed calls, crashes and outside interventions

ASSUME MaxMishapsAssumption == MaxMishaps \in Nat

ASSUME OrphansAssumption == Orphans \subseteq Resources

VARIABLES
    api,            \* api[r]: the object as the API server stores it
    cache,          \* cache[w][r]: the copy in the informer cache of w
    task,           \* task[w][r]: the reconcile of r that w is running
    mishaps         \* how many mishaps have happened

reconcilerVars == <<api, cache, task, mishaps>>

------------------------------------------------------------------------------
(* Types.  What spec, note and status hold is up to the kind: note is the  *)
(* payload annotation that Create leaves on the object, status the field   *)
(* under status.atProvider that identifies the external resource.          *)

Creations == {"none", "pending", "succeeded", "failed"}

\* The object before it is applied and after it is removed.
Blank == [phase |-> "new", deleting |-> FALSE, finalizer |-> FALSE,
          spec |-> None, creation |-> "none", note |-> None, status |-> None,
          ready |-> "none", synced |-> "none"]

Gone == [Blank EXCEPT !.phase = "gone"]

LiveObjects(Specs, Notes, Statuses) ==
    [phase: {"live"},
     deleting: BOOLEAN,                 \* metadata.deletionTimestamp is set
     finalizer: BOOLEAN,
     spec: Specs,
     creation: Creations,               \* the latest external-create annotation
     note: Notes \cup {None},
     status: Statuses \cup {None},
     ready: {"none", "Creating", "Available", "Deleting"},
     synced: {"none", "Success", "Error"}]

\* A copy in a cache, of one of the live objects Lives or of one that is not.
Copies(Lives) == [obj: {Blank, Gone} \cup Lives, cur: BOOLEAN]

\* seen is the external observation, ctx what the external client carries from
\* one call of a reconcile to the next.
Idle == [pc |-> "idle", obj |-> Blank, cur |-> FALSE, seen |-> "unknown",
         ctx |-> None]

Running(Steps, Lives, Contexts) ==
    [pc: Steps, obj: Lives, cur: BOOLEAN,
     seen: {"unknown", "missing", "outdated", "current"},
     ctx: Contexts \cup {None}]

ReconcilerType(Steps, Lives, Contexts) ==
    /\ api \in [Resources -> {Blank, Gone} \cup Lives]
    /\ cache \in [Workers -> [Resources -> Copies(Lives)]]
    /\ task \in [Workers -> [Resources -> {Idle} \cup Running(Steps, Lives, Contexts)]]
    /\ mishaps \in 0..MaxMishaps

BaseSteps == {"connect", "observe", "publish", "addFinalizer",
              "pending", "create", "record", "publishCreated", "update",
              "publishUpdated", "delete", "finalize", "status"}

ReconcilerInit ==
    /\ api = [r \in Resources |-> Blank]
    /\ cache = [w \in Workers |-> [r \in Resources |-> [obj |-> Blank, cur |-> TRUE]]]
    /\ task = [w \in Workers |-> [r \in Resources |-> Idle]]
    /\ mishaps = 0

------------------------------------------------------------------------------
(* Writing to the API server. *)

\* Mutant: an update that is not tied to the version that was read.
WriteAccepted_Blind(r, t) == api[r].phase = "live"

\* The API server accepts an update of the object from the copy in memory.
WriteAccepted(r, t) == api[r].phase = "live" /\ t.cur

\* A write that leaves the object as it is does not change its version.
Outdate(copies, r, o) ==
    [v \in Workers |-> [copies[v] EXCEPT ![r].cur = @ /\ o = api[r]]]

\* The object r becomes o by a write from outside the operator.
Store(r, o) ==
    /\ api' = [api EXCEPT ![r] = o]
    /\ cache' = Outdate(cache, r, o)
    /\ task' = Outdate(task, r, o)

\* The reconcile of r by w writes o and goes on as t.
Save(w, r, o, t) ==
    /\ api' = [api EXCEPT ![r] = o]
    /\ cache' = Outdate(cache, r, o)
    /\ task' = [Outdate(task, r, o) EXCEPT ![w][r] = t]

\* The reconcile goes on as t without a write.
Goto(w, r, t) ==
    /\ task' = [task EXCEPT ![w][r] = t]
    /\ UNCHANGED <<api, cache>>

\* client.Update sends the metadata and the spec; the status stays as stored.
Updated(r, o) ==
    [o EXCEPT !.status = api[r].status, !.ready = api[r].ready,
              !.synced = api[r].synced]

Mishap == mishaps < MaxMishaps /\ mishaps' = mishaps + 1

------------------------------------------------------------------------------
(* Control flow of one reconcile. *)

\* The reconcile ends: it still writes the conditions it set to the status.
Closed(t, ready, synced) ==
    [t EXCEPT !.pc = "status", !.obj.ready = ready, !.obj.synced = synced,
              !.seen = "unknown", !.ctx = None]

AfterFinalizer(t) ==
    CASE t.seen = "missing"  -> [t EXCEPT !.pc = "pending"]
      [] t.seen = "outdated" -> [t EXCEPT !.pc = "update"]
      [] OTHER               -> Closed(t, t.obj.ready, "Success")

AfterPublish(t) ==
    IF t.obj.finalizer THEN AfterFinalizer(t)
                       ELSE [t EXCEPT !.pc = "addFinalizer"]

\* Observe returned without an error and left o in memory.
Observed(w, r, o, seen, ctx) ==
    LET step == IF ~o.deleting THEN "publish"
                ELSE IF seen = "missing" THEN "finalize" ELSE "delete"
    IN  Goto(w, r, [task[w][r] EXCEPT !.pc = step, !.obj = o, !.seen = seen,
                                      !.ctx = ctx])

\* Create returned: the outcome and the annotations are recorded next.
Recording(t, outcome) ==
    [t EXCEPT !.pc = "record", !.obj.creation = outcome]

\* The steps of a deletion; a provider may divide its Delete into more than one.
DeleteSteps == {"removeObjects", "delete", "finalize"}

\* What a failed call makes of the conditions.
OnError(t) ==
    CASE t.pc \in {"pending", "publishCreated"} -> Closed(t, "Creating", "Error")
      [] t.pc \in DeleteSteps                    -> Closed(t, "Deleting", "Error")
      [] OTHER                                  -> Closed(t, t.obj.ready, "Error")

------------------------------------------------------------------------------
(* The user's side. *)

Apply(r, spec) ==
    /\ api[r].phase = "new"
    /\ Store(r, [Blank EXCEPT !.phase = "live", !.spec = spec])
    /\ UNCHANGED mishaps

\* Setting the deletion timestamp; without a finalizer the object is gone.
RequestDeletion(r) ==
    /\ api[r].phase = "live" /\ ~api[r].deleting
    /\ Store(r, IF api[r].finalizer THEN [api[r] EXCEPT !.deleting = TRUE]
                                    ELSE Gone)
    /\ UNCHANGED mishaps

------------------------------------------------------------------------------
(* The operator's side. *)

\* The informer of w catches up with the stored object.
Sync(w, r) ==
    /\ ~cache[w][r].cur
    /\ cache' = [cache EXCEPT ![w][r] = [obj |-> api[r], cur |-> TRUE]]
    /\ UNCHANGED <<api, task, mishaps>>

\* Mutant: a creation that did not conclude is not looked at.
FirstStep_Continues(r, t) ==
    IF t.obj.deleting /\ r \in Orphans THEN [t EXCEPT !.pc = "finalize"] ELSE t

\* An orphan is let go at once.  A resource whose creation was started and never
\* concluded is refused and not requeued.
FirstStep(r, t) ==
    IF t.obj.deleting /\ r \in Orphans THEN [t EXCEPT !.pc = "finalize"]
    ELSE IF t.obj.creation = "pending" THEN Closed(t, "Creating", "Error")
    ELSE t

\* Reconcile reads the object from the cache.
Begin(w, r) ==
    LET c == cache[w][r]
    IN  /\ \A q \in Resources : task[w][q].pc = "idle"
        /\ c.obj.phase = "live"
        /\ Goto(w, r, FirstStep(r, [Idle EXCEPT !.pc = "connect", !.obj = c.obj,
                                                !.cur = c.cur]))
        /\ UNCHANGED mishaps

\* The response of an Update is decoded into the object in memory: a status
\* set there and not stored yet is kept or lost.
AddFinalizer(w, r) ==
    LET t == task[w][r]
        o == Updated(r, [t.obj EXCEPT !.finalizer = TRUE])
    IN  /\ t.pc = "addFinalizer" /\ WriteAccepted(r, t)
        /\ \E s \in {t.obj.status, o.status} :
              Save(w, r, o, AfterFinalizer([t EXCEPT !.obj = [o EXCEPT !.status = s]]))
        /\ UNCHANGED mishaps

\* Creation is announced on the object before Create is called.
MarkPending(w, r) ==
    LET t == task[w][r]
        o == Updated(r, [t.obj EXCEPT !.creation = "pending"])
    IN  /\ t.pc = "pending" /\ WriteAccepted(r, t)
        /\ \E s \in {t.obj.status, o.status} :
              Save(w, r, o, [t EXCEPT !.pc = "create", !.obj = [o EXCEPT !.status = s]])
        /\ UNCHANGED mishaps

\* The reconcile after Create's outcome is stored with the object o.
Recorded(t, o) ==
    LET u == [t EXCEPT !.obj = o, !.cur = TRUE]
    IN  IF o.creation = "succeeded" THEN [u EXCEPT !.pc = "publishCreated"]
                                    ELSE Closed(u, "Creating", "Error")

\* UpdateCriticalAnnotations: an update that is repeated after a conflict, then
\* with the object as the cache has it, to which the annotations are added; here
\* it is repeated until the cache is current.
RecordCreation(w, r) ==
    LET t == task[w][r]
        o == [api[r] EXCEPT !.creation = t.obj.creation,
                            !.note = IF t.obj.note = None THEN @ ELSE t.obj.note]
    IN  /\ t.pc = "record" /\ api[r].phase = "live"
        /\ \/ /\ t.cur
              /\ \E s \in {t.obj.status, o.status} :
                    Save(w, r, o, Recorded(t, [o EXCEPT !.status = s]))
           \/ /\ ~t.cur /\ cache[w][r].cur
              /\ Save(w, r, o, Recorded(t, o))
        /\ UNCHANGED mishaps

\* The finalizer is removed, and with it the object.
RemoveFinalizer(w, r) ==
    /\ task[w][r].pc = "finalize" /\ WriteAccepted(r, task[w][r])
    /\ Save(w, r, Gone, Idle)
    /\ UNCHANGED mishaps

\* Status().Update writes the status alone.
WriteStatus(w, r) ==
    LET t == task[w][r]
        o == [api[r] EXCEPT !.status = t.obj.status, !.ready = t.obj.ready,
                            !.synced = t.obj.synced]
    IN  /\ t.pc = "status" /\ WriteAccepted(r, t)
        /\ Save(w, r, o, Idle)
        /\ UNCHANGED mishaps

\* A write from an outdated copy is refused.  The status write that would
\* report it is refused for the same reason, so the reconcile ends here.  So it
\* does when the object to annotate is gone.
Conflict(w, r) ==
    /\ \/ /\ task[w][r].pc \in {"addFinalizer", "pending", "finalize", "status"}
          /\ ~WriteAccepted(r, task[w][r])
       \/ task[w][r].pc = "record" /\ api[r].phase = "gone"
    /\ Goto(w, r, Idle)
    /\ UNCHANGED mishaps

\* A call fails and nothing happened on the other side.
CallFails(w, r, steps) ==
    /\ task[w][r].pc \in steps
    /\ Mishap
    /\ Goto(w, r, OnError(task[w][r]))

\* The reconcile ends without another write: the process dies, the status
\* write fails, or the annotations cannot be recorded in five attempts.
Abandon(w, r) ==
    /\ task[w][r].pc # "idle"
    /\ Mishap
    /\ Goto(w, r, Idle)

\* The writes of a reconcile that need no external call.
ReconcilerStep(w, r) ==
    \/ AddFinalizer(w, r) \/ MarkPending(w, r) \/ RecordCreation(w, r)
    \/ RemoveFinalizer(w, r) \/ WriteStatus(w, r) \/ Conflict(w, r)

------------------------------------------------------------------------------
(* Safety *)

\* The steps of Create, up to the write of the annotations that conclude it; a
\* provider may divide its Create into more than one step.
CreateSteps == {"create", "createSecret", "record"}

\* While an instance is between announcing the creation of an external resource
\* and recording it, no other instance is.  The caches may be stale and nobody
\* holds a lock: the conflict on the annotation is all there is (it is what
\* Create in both controllers relies on).
CreateIsExclusive ==
    \A r \in Resources, v, w \in Workers :
        task[v][r].pc \in CreateSteps /\ task[w][r].pc \in CreateSteps => v = w

\* A creation that was announced and that nobody is working on any more.  The
\* operator does not touch such a resource, its deletion included.
Inconclusive(r) ==
    /\ api[r].creation = "pending"
    /\ \A w \in Workers : task[w][r].pc \notin CreateSteps

\* What the user of a resource has asked for (see ExternalResource).
Wish(r) == IF api[r].phase = "live" /\ api[r].deleting THEN "deleting" ELSE api[r].phase

(* What makes it inductive. *)

\* A copy that no write has outdated is what is stored.
CachesAgree ==
    \A w \in Workers, r \in Resources :
        cache[w][r].cur => cache[w][r].obj = api[r]

\* So is the object in memory as far as the reconcile has not changed it.
TasksAgree ==
    \A w \in Workers, r \in Resources :
        task[w][r].cur =>
            /\ task[w][r].obj.finalizer = api[r].finalizer
            /\ task[w][r].pc # "record" => task[w][r].obj.creation = api[r].creation
            /\ task[w][r].pc \in {"connect", "observe"} => task[w][r].obj = api[r]

\* Create runs only under the announcement on the stored object.
CreationAnnounced ==
    \A w \in Workers, r \in Resources :
        task[w][r].pc \in CreateSteps =>
            api[r].phase = "gone" \/ (api[r].creation = "pending" /\ api[r].finalizer)

\* Up to the announcement, a reconcile has read an object without one; it adds
\* the finalizer before the announcement.
BeforeCreate == {"connect", "observe", "publish", "addFinalizer", "pending"}

CreationChecked ==
    \A w \in Workers, r \in Resources :
        /\ task[w][r].pc \in BeforeCreate => task[w][r].obj.creation # "pending"
        /\ task[w][r].pc = "pending" => task[w][r].obj.finalizer

Exclusion ==
    /\ CreateIsExclusive /\ CachesAgree /\ TasksAgree
    /\ CreationAnnounced /\ CreationChecked

==============================================================================
