---------------------------- MODULE BucketProofs -------------------------------
(***************************************************************************)
(* Theorems about Bucket, for every number of resources, operator          *)
(* instances, names, accounts and mishaps: the types, that Create is       *)
(* exclusive, that a reconcile follows the deletion request it read, and   *)
(* that the operator accounts for every bucket it made (Custody).          *)
(*                                                                         *)
(* What each action does to the reconcile it belongs to is stated once, in *)
(* the lemmas named ...Effect: it goes on as some task u, and the fields   *)
(* of u are those of the task before or others that the lemma names.  The  *)
(* invariants, here and in BucketNaming, are proved from these lemmas.     *)
(*                                                                         *)
(* Buckets change hands in one way only: Create gives one to the resource  *)
(* it works for.  Everything else that happens to S3 takes buckets away    *)
(* (Fewer), and what Custody says of a resource, but for the object        *)
(* itself, is about having no bucket and so survives that.                 *)
(***************************************************************************)
EXTENDS Bucket, ManagedReconcilerProofs

------------------------------------------------------------------------------
(* Reconciles of this controller. *)

Tasks == Running(Steps, Lives, Clients)

\* The steps of this controller include those of the reconciler.
LEMMA StepsType == "idle" \notin Steps /\ BaseSteps \subseteq Steps
BY DEF Steps, BaseSteps

\* A reconcile begins with the copy in the cache.
LEMMA Begun ==
    ASSUME TypeOK, NEW w \in Workers, NEW r \in Resources, Begin(w, r)
    PROVE  LET c == cache[w][r]
               t == FirstStep(r, [Idle EXCEPT !.pc = "connect", !.obj = c.obj,
                                              !.cur = c.cur])
           IN  /\ Goto(w, r, t) /\ t.cur = c.cur /\ t.seen = "unknown"
               /\ t.obj.finalizer = c.obj.finalizer
               /\ t.obj.creation = c.obj.creation
               /\ t.obj.status = c.obj.status /\ t.obj.note = c.obj.note
               /\ t.obj.deleting = c.obj.deleting /\ t.obj.spec = c.obj.spec
               /\ \/ t.pc = "finalize" /\ t.obj = c.obj /\ t.obj.deleting /\ r \in Orphans
                  \/ t.pc = "status" /\ t.obj.ready = "Creating" /\ t.obj.synced = "Error"
                  \/ /\ t.pc = "connect" /\ t.obj = c.obj /\ c.obj.creation # "pending"
                     /\ ~(t.obj.deleting /\ r \in Orphans)
<1>1. ReconcilerType(Steps, Lives, Clients)
  BY DEF TypeOK
<1>2. Lives = LiveObjects(Specs, {"claimed"}, BucketNames)
  BY DEF Lives
<1>3. QED
  BY <1>1, <1>2, StepsType, BeginEffect

\* A reconcile that is not idle holds a live object.
LEMMA TaskTypes ==
    ASSUME TypeOK, NEW w \in Workers, NEW r \in Resources, task[w][r].pc # "idle"
    PROVE  /\ task[w][r] \in Tasks
           /\ task[w][r].obj \in Lives
           /\ task[w][r].obj.spec \in Specs
           /\ task[w][r].obj.status \in BucketNames \cup {None}
           /\ task[w][r].ctx \in Clients \cup {None}
<1>1. task[w][r] \in Tasks
  BY RunningTask DEF TypeOK, Tasks
<1>2. task[w][r].obj \in Lives /\ task[w][r].ctx \in Clients \cup {None}
  BY <1>1 DEF Running, Tasks
<1>3. QED
  BY <1>1, <1>2 DEF Lives, LiveObjects

\* The name of the bucket of a resource is a bucket name.
LEMMA NameTypes ==
    ASSUME NEW r \in Resources, NEW spec \in Specs
    PROVE  GetBucketName(r, spec) \in BucketNames /\ GetBucketName(r, spec) # None
<1>1. spec.name \in Names \cup {None}
  BY DEF Specs
<1>2. QED
  BY <1>1, BucketAssumption DEF GetBucketName, BucketNames

\* Two objects that differ in the conditions at most.
Alike(o, p) ==
    /\ o.deleting = p.deleting /\ o.finalizer = p.finalizer /\ o.spec = p.spec
    /\ o.creation = p.creation /\ o.note = p.note /\ o.status = p.status

\* The reconcile t ends as u, without an error or with one.
Ended(t, u) ==
    /\ u.pc = "status" /\ u.cur = t.cur /\ u.seen = "unknown" /\ u.ctx = None
    /\ Alike(u.obj, t.obj)

Failed(t, u) ==
    /\ Ended(t, u) /\ u.obj.synced = "Error"
    /\ u.obj.ready = "Deleting" => t.obj.ready = "Deleting" \/ t.pc \in DeleteSteps

\* An error ends a reconcile; so does a result that is written to the conditions.
LEMMA EndedEffect ==
    ASSUME NEW t \in Tasks
    PROVE  /\ OnError(t) \in Tasks /\ Failed(t, OnError(t))
           /\ \A ready \in {"none", "Creating", "Available", "Deleting"} :
                LET u == Closed(t, ready, "Success")
                IN  /\ u \in Tasks /\ Ended(t, u)
                    /\ u.obj.ready = ready /\ u.obj.synced = "Success"
<1>1. OnError(t) \in Tasks
  BY StepsType, ControlTypes DEF Lives, Tasks
<1> DEFINE e == OnError(t)
<1>2. /\ e.pc = "status" /\ e.cur = t.cur /\ e.obj.finalizer = t.obj.finalizer
      /\ e.obj.creation = t.obj.creation /\ e.obj.status = t.obj.status
      /\ e.seen = "unknown" /\ e.obj.note = t.obj.note
      /\ e.obj.spec = t.obj.spec /\ e.obj.deleting = t.obj.deleting
      /\ e.ctx = None /\ e.obj.synced = "Error"
      /\ \/ e.obj.ready \in {t.obj.ready, "Creating"}
         \/ e.obj.ready = "Deleting" /\ t.pc \in DeleteSteps
  BY ControlEffect DEF Lives, Tasks
<1> HIDE DEF e
<1>3. Failed(t, e)
  BY <1>2 DEF Failed, Ended, Alike
<1>4. ASSUME NEW ready \in {"none", "Creating", "Available", "Deleting"}
      PROVE  LET u == Closed(t, ready, "Success")
             IN  /\ u \in Tasks /\ Ended(t, u)
                 /\ u.obj.ready = ready /\ u.obj.synced = "Success"
  <2> DEFINE u == Closed(t, ready, "Success")
  <2>1. u \in Tasks
    BY StepsType, ControlTypes DEF Lives, Tasks
  <2>2. /\ u.pc = "status" /\ u.cur = t.cur /\ u.obj.finalizer = t.obj.finalizer
        /\ u.obj.creation = t.obj.creation /\ u.obj.status = t.obj.status
        /\ u.seen = "unknown" /\ u.obj.note = t.obj.note
        /\ u.obj.spec = t.obj.spec /\ u.obj.deleting = t.obj.deleting
        /\ u.ctx = None /\ u.obj.ready = ready /\ u.obj.synced = "Success"
    BY ControlEffect DEF Lives, Tasks
  <2> HIDE DEF u
  <2>3. Ended(t, u)
    BY <2>2 DEF Ended, Alike
  <2>4. QED
    BY <2>1, <2>2, <2>3 DEF u
<1>5. QED
  BY <1>1, <1>3, <1>4 DEF e

\* Connect leaves a client, or ends the reconcile.
LEMMA ConnectEffect ==
    ASSUME TypeOK, NEW w \in Workers, NEW r \in Resources,
           ConnectNoop(w, r) \/ Connect(w, r)
    PROVE  LET t == task[w][r]
           IN  /\ t.pc = "connect" /\ UNCHANGED <<mishaps, s3, creds, accounts, lost>>
               /\ \E u \in Tasks :
                    /\ Goto(w, r, u) /\ u.cur = t.cur
                    /\ \/ Failed(t, u)
                       \/ /\ u.pc = "observe" /\ u.obj = t.obj /\ u.seen = t.seen
                          /\ u.ctx \in Clients
                          /\ u.ctx = "noop" => IsBucketAlreadyDeleted(t.obj)
<1> DEFINE t == task[w][r]
           u(c) == [t EXCEPT !.pc = "observe", !.ctx = c]
<1>1. t.pc = "connect" /\ UNCHANGED <<mishaps, s3, creds, accounts, lost>>
  BY DEF ConnectNoop, Connect
<1>2. t \in Tasks
  BY <1>1, TaskTypes
<1>3. ASSUME NEW c \in Clients
      PROVE  /\ u(c) \in Tasks /\ u(c).pc = "observe" /\ u(c).obj = t.obj
             /\ u(c).seen = t.seen /\ u(c).ctx = c /\ u(c).cur = t.cur
  BY <1>2 DEF Tasks, Running, Steps, BaseSteps
<1> HIDE DEF u
<1>4. CASE ConnectNoop(w, r)
  <2>1. Goto(w, r, u("noop")) /\ IsBucketAlreadyDeleted(t.obj)
    BY <1>4 DEF ConnectNoop, u
  <2>2. "noop" \in Clients
    BY DEF Clients
  <2>3. QED
    BY <1>1, <1>3, <2>1, <2>2
<1>5. CASE Connect(w, r) /\ creds[r] # None
  <2>1. creds[r] \in Accounts
    BY <1>5 DEF TypeOK
  <2>2. Goto(w, r, u(creds[r])) /\ creds[r] \in Clients /\ creds[r] # "noop"
    BY <1>5, <2>1, BucketAssumption DEF Connect, Clients, u
  <2>3. QED
    BY <1>1, <1>3, <2>2
<1>6. CASE Connect(w, r) /\ creds[r] = None
  <2>1. Goto(w, r, OnError(t))
    BY <1>6 DEF Connect
  <2>2. QED
    BY <1>1, <1>2, <2>1, EndedEffect DEF Failed, Ended
<1>7. QED
  BY <1>4, <1>5, <1>6

\* The bucket that the status is set to; nothing else of the object changes but
\* the condition.
LEMMA FoundEffect ==
    ASSUME NEW r \in Resources, NEW o \in Lives
    PROVE  LET p == Found(r, o)
           IN  /\ p \in Lives /\ p.status = GetBucketName(r, o.spec)
               /\ p.ready = "Available" /\ p.deleting = o.deleting
               /\ p.finalizer = o.finalizer /\ p.spec = o.spec
               /\ p.creation = o.creation /\ p.note = o.note
<1>1. GetBucketName(r, o.spec) \in BucketNames
  BY NameTypes DEF Lives, LiveObjects
<1>2. QED
  BY <1>1 DEF Found, Lives, LiveObjects

\* Observe finds no bucket, finds one that the resource has locked, or fails.
LEMMA ObserveEffect ==
    ASSUME TypeOK, NEW w \in Workers, NEW r \in Resources,
           ObserveNoop(w, r) \/ ObserveBucket(w, r)
    PROVE  LET t == task[w][r]
               n == GetBucketName(r, t.obj.spec)
           IN  /\ t.pc = "observe" /\ UNCHANGED <<mishaps, s3, creds, accounts, lost>>
               /\ \E u \in Tasks :
                    /\ Goto(w, r, u) /\ u.cur = t.cur
                    /\ \/ Failed(t, u)
                       \/ /\ u.obj = t.obj /\ u.seen = "missing"
                          /\ \/ u.pc = "publish" /\ ~t.obj.deleting
                             \/ u.pc = "finalize" /\ t.obj.deleting
                          /\ \/ t.ctx = "noop"
                             \/ u.ctx \in Clients /\ ~Exists(n)
                       \/ /\ u.obj = Found(r, t.obj) /\ HasLock(t.obj)
                          /\ u.seen = "current" /\ u.ctx \in Clients
                          /\ \/ u.pc = "publish" /\ ~t.obj.deleting
                             \/ u.pc = "delete" /\ t.obj.deleting
                             \/ /\ u.pc = "removeObjects" /\ t.obj.deleting
                                /\ HasDeleteAllPolicy(t.obj.spec)
<1> DEFINE t == task[w][r]
           n == GetBucketName(r, t.obj.spec)
           found == Found(r, t.obj)
<1>1. t.pc = "observe" /\ UNCHANGED <<mishaps, s3, creds, accounts, lost>>
  BY DEF ObserveNoop, ObserveBucket
<1>2. t \in Tasks /\ t.obj \in Lives /\ t.ctx \in Clients
  BY <1>1, TaskTypes DEF TypeOK, Calling
<1>3. /\ found \in Lives /\ found.deleting = t.obj.deleting
  BY <1>2, FoundEffect
<1>4. ASSUME NEW o \in Lives, o.deleting = t.obj.deleting,
             NEW seen \in {"missing", "current"}, NEW ctx \in Clients \cup {None},
             Observed(w, r, o, seen, ctx)
      PROVE  \E u \in Tasks :
                /\ Goto(w, r, u) /\ u.cur = t.cur /\ u.obj = o /\ u.seen = seen
                /\ u.ctx = ctx
                /\ \/ u.pc = "publish" /\ ~t.obj.deleting
                   \/ u.pc = "delete" /\ seen # "missing" /\ t.obj.deleting
                   \/ u.pc = "finalize" /\ seen = "missing" /\ t.obj.deleting
  <2>1. PICK u : /\ Goto(w, r, u) /\ u.cur = t.cur /\ u.obj = o /\ u.seen = seen
                 /\ u.ctx = ctx
                 /\ \/ u.pc = "publish" /\ ~o.deleting
                    \/ u.pc = "delete" /\ seen # "missing" /\ o.deleting
                    \/ u.pc = "finalize" /\ seen = "missing" /\ o.deleting
    BY <1>1, <1>4, ObservedEffect DEF TypeOK
  <2>2. mishaps' \in 0..MaxMishaps
    BY <1>1 DEF TypeOK, ReconcilerType
  <2>3. task' \in [Workers -> [Resources -> {Idle} \cup Tasks]]
    <3>1. ReconcilerType(Steps, Lives, Clients)'
      BY <1>1, <1>2, <1>4, <2>2, StepsType, ObservedTypes DEF TypeOK
    <3>2. QED
      BY <3>1 DEF ReconcilerType, Tasks
  <2>4. task'[w][r] = u
    BY <2>1, GotoEffect DEF TypeOK
  <2>5. u \in Tasks
    BY <2>1, <2>3, <2>4 DEF Idle
  <2>6. QED
    BY <1>4, <2>1, <2>5
<1>5. CASE ObserveNoop(w, r)
  <2>1. Observed(w, r, t.obj, "missing", None) /\ t.ctx = "noop"
    BY <1>5 DEF ObserveNoop
  <2>2. QED
    BY <1>1, <1>2, <1>4, <2>1
<1>6. CASE ObserveBucket(w, r) /\ ~Exists(n) /\ Observed(w, r, t.obj, "missing", t.ctx)
  BY <1>1, <1>2, <1>4, <1>6
<1>7. CASE /\ Exists(n) /\ HasLock(t.obj) /\ t.obj.deleting
           /\ HasDeleteAllPolicy(t.obj.spec)
           /\ Goto(w, r, [t EXCEPT !.pc = "removeObjects", !.obj = found,
                                   !.seen = "current"])
  <2> DEFINE u == [t EXCEPT !.pc = "removeObjects", !.obj = found, !.seen = "current"]
  <2>1. /\ u \in Tasks /\ u.pc = "removeObjects" /\ u.obj = found
        /\ u.seen = "current" /\ u.ctx = t.ctx /\ u.cur = t.cur
    BY <1>2, <1>3 DEF Tasks, Running, Steps
  <2> HIDE DEF u, found
  <2>2. QED
    BY <1>1, <1>2, <1>7, <2>1 DEF u, found
<1>8. CASE Exists(n) /\ HasLock(t.obj) /\ Observed(w, r, found, "current", t.ctx)
  <2> HIDE DEF found
  <2>1. QED
    BY <1>1, <1>2, <1>3, <1>4, <1>8 DEF found
<1>9. CASE Goto(w, r, OnError(t))
  BY <1>1, <1>2, <1>9, EndedEffect DEF Failed, Ended
<1>10. QED
  BY <1>5, <1>6, <1>7, <1>8, <1>9 DEF ObserveBucket, Accessible

\* Publishing leads up to Create, or ends the reconcile.
LEMMA PublishEffect ==
    ASSUME TypeOK, NEW w \in Workers, NEW r \in Resources, Publish(w, r)
    PROVE  LET t == task[w][r]
           IN  /\ t.pc \in {"publish", "publishCreated"}
               /\ UNCHANGED <<mishaps, s3, creds, accounts, lost>>
               /\ \E u \in Tasks :
                    /\ Goto(w, r, u) /\ u.cur = t.cur
                    /\ \/ /\ Ended(t, u) /\ u.obj.synced = "Success"
                          /\ u.obj.ready = "Deleting" =>
                               t.pc = "publish" /\ t.obj.ready = "Deleting"
                       \/ /\ t.pc = "publish" /\ u.obj = t.obj
                          /\ \/ /\ u.pc = "addFinalizer" /\ u.seen = t.seen
                                /\ u.ctx = t.ctx
                             \/ /\ u.pc = "pending" /\ u.seen = "missing"
                                /\ t.seen = "missing" /\ u.ctx = t.ctx
                                /\ u.obj.finalizer
                             \/ u.pc = "update" /\ u.seen = "outdated"
<1> DEFINE t == task[w][r]
<1>1. t.pc \in {"publish", "publishCreated"}
      /\ UNCHANGED <<mishaps, s3, creds, accounts, lost>>
  BY DEF Publish
<1>2. t \in Tasks /\ t.obj \in Lives
  BY <1>1, TaskTypes
<1>3. CASE t.pc = "publish"
  <2> DEFINE u == AfterPublish(t)
  <2>1. Goto(w, r, u)
    BY <1>3 DEF Publish
  <2>2. u \in Tasks
    BY <1>2, StepsType, ControlTypes DEF Lives, Tasks
  <2>3. /\ u.cur = t.cur /\ u.obj.finalizer = t.obj.finalizer
        /\ u.obj.creation = t.obj.creation /\ u.obj.status = t.obj.status
        /\ u.obj.note = t.obj.note /\ u.obj.spec = t.obj.spec
        /\ u.obj.deleting = t.obj.deleting
        /\ \/ /\ u.pc = "addFinalizer" /\ u.seen = t.seen
              /\ u.obj = t.obj /\ u.ctx = t.ctx
           \/ /\ u.pc = "pending" /\ u.seen = "missing" /\ t.seen = "missing"
              /\ u.obj.finalizer /\ u.obj = t.obj /\ u.ctx = t.ctx
           \/ u.pc = "update" /\ u.seen = "outdated" /\ u.obj = t.obj
           \/ /\ u.pc = "status" /\ u.seen = "unknown" /\ u.ctx = None
              /\ u.obj.ready = t.obj.ready /\ u.obj.synced = "Success"
    <3>1. CASE t.obj.finalizer /\ t.seen \notin {"missing", "outdated"}
      <4>1. u = Closed(t, t.obj.ready, "Success")
        BY <3>1 DEF AfterPublish, AfterFinalizer
      <4>2. QED
        BY <1>2, <4>1, ControlEffect DEF Lives, Tasks
    <3>2. CASE ~(t.obj.finalizer /\ t.seen \notin {"missing", "outdated"})
      <4>1. u.pc # "status"
        BY <1>2, <3>2 DEF AfterPublish, AfterFinalizer, Tasks, Running
      <4>2. QED
        BY <1>2, <4>1, AfterPublishEffect DEF Lives, Tasks
    <3>3. QED
      BY <3>1, <3>2, SMTT(30)
  <2> HIDE DEF u
  <2>4. u.pc = "status" => Ended(t, u)
    BY <2>3 DEF Ended, Alike
  <2>5. QED
    BY <1>1, <1>3, <2>1, <2>2, <2>3, <2>4
<1>4. CASE t.pc = "publishCreated"
  <2>1. Goto(w, r, Closed(t, "Creating", "Success"))
    BY <1>4 DEF Publish
  <2>2. QED
    BY <1>1, <1>2, <2>1, EndedEffect DEF Ended
<1>5. QED
  BY <1>1, <1>3, <1>4

\* Create leads to the record of its outcome.  The lock is in memory, or S3 is as
\* before, or the answer was lost.
LEMMA CreateEffect ==
    ASSUME TypeOK, NEW w \in Workers, NEW r \in Resources,
           MakeBucket(w, r) \/ MakeExistingBucket(w, r) \/ CreateFails(w, r)
    PROVE  LET t == task[w][r]
               n == GetBucketName(r, t.obj.spec)
           IN  /\ t.pc = "create" /\ UNCHANGED <<creds, accounts>>
               /\ mishaps' = mishaps \/ Mishap
               /\ \E u \in Tasks :
                    /\ Goto(w, r, u) /\ u.pc = "record" /\ u.cur = t.cur
                    /\ u.seen = t.seen /\ u.ctx = t.ctx
                    /\ u.obj.deleting = t.obj.deleting
                    /\ u.obj.finalizer = t.obj.finalizer
                    /\ u.obj.spec = t.obj.spec /\ u.obj.status = t.obj.status
                    /\ u.obj.ready = t.obj.ready /\ u.obj.creation # "pending"
                    /\ u.obj.note \in {t.obj.note, "claimed"}
                    /\ \/ UNCHANGED <<s3, lost>>
                       \/ NewBucket(r, t) /\ lost' = lost \cup {n}
                       \/ /\ NewBucket(r, t) /\ u.obj.note = "claimed"
                          /\ lost' = IF api[r].phase = "live"
                                     THEN lost \cup Disowned(r, api[r].spec, s3')
                                     ELSE lost
<1> DEFINE t == task[w][r]
           n == GetBucketName(r, t.obj.spec)
<1>1. /\ t.pc = "create" /\ UNCHANGED <<creds, accounts>>
      /\ mishaps' = mishaps \/ Mishap
  BY DEF MakeBucket, MakeExistingBucket, CreateFails
<1>2. t \in Tasks /\ t.obj \in Lives
  BY <1>1, TaskTypes
<1>3. ASSUME NEW x \in Tasks, NEW outcome \in {"succeeded", "failed"}
      PROVE  LET u == Recording(x, outcome)
             IN  /\ u \in Tasks /\ u.pc = "record" /\ u.cur = x.cur
                 /\ u.seen = x.seen /\ u.ctx = x.ctx
                 /\ u.obj.deleting = x.obj.deleting
                 /\ u.obj.finalizer = x.obj.finalizer
                 /\ u.obj.spec = x.obj.spec /\ u.obj.status = x.obj.status
                 /\ u.obj.ready = x.obj.ready /\ u.obj.creation # "pending"
                 /\ u.obj.note = x.obj.note
  <2>1. Recording(x, outcome) \in Tasks
    BY <1>3, StepsType, ControlTypes DEF Lives, Tasks, Creations
  <2>2. QED
    BY <2>1 DEF Recording, Tasks, Running, Lives, LiveObjects, Creations
<1> DEFINE x == [t EXCEPT !.obj.note = "claimed"]
<1>4. /\ x \in Tasks /\ x.pc = t.pc /\ x.cur = t.cur /\ x.seen = t.seen
      /\ x.ctx = t.ctx /\ x.obj.deleting = t.obj.deleting
      /\ x.obj.finalizer = t.obj.finalizer /\ x.obj.spec = t.obj.spec
      /\ x.obj.status = t.obj.status /\ x.obj.ready = t.obj.ready
      /\ x.obj.note = "claimed"
  <2>1. [t.obj EXCEPT !.note = "claimed"] \in Lives
    BY <1>2 DEF Lives, LiveObjects
  <2>2. x \in Tasks /\ x.obj = [t.obj EXCEPT !.note = "claimed"]
    BY <1>2, <2>1 DEF Tasks, Running
  <2>3. QED
    BY <1>2, <2>2 DEF Tasks, Running, Lives, LiveObjects
<1> DEFINE claimed == Recording(x, "succeeded")
           failed == Recording(t, "failed")
<1>5. /\ claimed \in Tasks /\ claimed.pc = "record" /\ claimed.cur = t.cur
      /\ claimed.seen = t.seen /\ claimed.ctx = t.ctx
      /\ claimed.obj.deleting = t.obj.deleting
      /\ claimed.obj.finalizer = t.obj.finalizer
      /\ claimed.obj.spec = t.obj.spec /\ claimed.obj.status = t.obj.status
      /\ claimed.obj.ready = t.obj.ready /\ claimed.obj.creation # "pending"
      /\ claimed.obj.note = "claimed"
  <2> HIDE DEF x
  <2>1. QED
    BY <1>3, <1>4
<1>6. /\ failed \in Tasks /\ failed.pc = "record" /\ failed.cur = t.cur
      /\ failed.seen = t.seen /\ failed.ctx = t.ctx
      /\ failed.obj.deleting = t.obj.deleting
      /\ failed.obj.finalizer = t.obj.finalizer
      /\ failed.obj.spec = t.obj.spec /\ failed.obj.status = t.obj.status
      /\ failed.obj.ready = t.obj.ready /\ failed.obj.creation # "pending"
      /\ failed.obj.note = t.obj.note
  BY <1>2, <1>3
<1>7. Locked(t) = claimed
  BY DEF Locked
<1> HIDE DEF x, claimed, failed
<1>8. CASE MakeBucket(w, r)
  <2>1. /\ Goto(w, r, claimed) /\ NewBucket(r, t)
        /\ lost' = IF api[r].phase = "live"
                   THEN lost \cup Disowned(r, api[r].spec, s3') ELSE lost
    BY <1>7, <1>8 DEF MakeBucket
  <2>2. QED
    BY <1>1, <1>5, <2>1
<1>9. CASE MakeExistingBucket(w, r)
  <2>1. UNCHANGED <<s3, lost>> /\ (Goto(w, r, claimed) \/ Goto(w, r, failed))
    BY <1>7, <1>9 DEF MakeExistingBucket, failed
  <2>2. QED
    BY <1>1, <1>5, <1>6, <2>1
<1>10. CASE CreateFails(w, r)
  <2>1. /\ Goto(w, r, failed)
        /\ \/ UNCHANGED <<s3, lost>>
           \/ NewBucket(r, t) /\ lost' = lost \cup {n}
    BY <1>10, SMTT(30) DEF CreateFails, failed
  <2>2. QED
    BY <1>1, <1>6, <2>1
<1>11. QED
  BY <1>8, <1>9, <1>10

\* Removing the objects and then the bucket: the two steps of Delete.
LEMMA DeleteEffect ==
    ASSUME TypeOK, NEW w \in Workers, NEW r \in Resources,
           \/ RemoveObjects(w, r) \/ ListingFails(w, r) \/ RemoveObjectsFails(w, r)
           \/ RemoveBucket(w, r) \/ RemoveBucketRefused(w, r) \/ RemoveAnswerLost(w, r)
    PROVE  LET t == task[w][r]
               n == t.obj.status
               removed == /\ Exists(n) /\ s3' = [s3 EXCEPT ![n] = NoBucket]
                          /\ lost' = lost \ {n}
           IN  /\ t.pc \in {"removeObjects", "delete"}
               /\ UNCHANGED <<creds, accounts>>
               /\ mishaps' = mishaps \/ Mishap
               /\ \/ UNCHANGED <<s3, lost>>
                  \/ /\ Exists(n) /\ s3' = [s3 EXCEPT ![n].objects = FALSE]
                     /\ UNCHANGED lost
                  \/ removed
               /\ \E u \in Tasks :
                    /\ Goto(w, r, u) /\ u.cur = t.cur
                    /\ \/ Failed(t, u)
                       \/ /\ t.pc = "removeObjects" /\ u.pc = "delete"
                          /\ u.obj = t.obj /\ u.ctx = t.ctx /\ u.seen = t.seen
                       \/ /\ t.pc = "delete" /\ removed /\ Ended(t, u)
                          /\ u.obj.ready = "Deleting" /\ u.obj.synced = "Success"
<1> DEFINE t == task[w][r]
           n == t.obj.status
           v == [t EXCEPT !.pc = "delete"]
<1>1. /\ t.pc \in {"removeObjects", "delete"} /\ UNCHANGED <<creds, accounts>>
      /\ mishaps' = mishaps \/ Mishap
  BY DEF RemoveObjects, ListingFails, RemoveObjectsFails, RemoveBucket,
         RemoveBucketRefused, RemoveAnswerLost
<1>2. t \in Tasks
  BY <1>1, TaskTypes
<1>3. /\ v \in Tasks /\ v.pc = "delete" /\ v.obj = t.obj /\ v.cur = t.cur
      /\ v.ctx = t.ctx /\ v.seen = t.seen
  BY <1>2 DEF Tasks, Running, Steps, BaseSteps
<1> HIDE DEF v
<1>4. CASE RemoveObjects(w, r) \/ ListingFails(w, r)
  <2>1. t.pc = "removeObjects" /\ Goto(w, r, v) /\ UNCHANGED lost
    BY <1>4, Zenon DEF RemoveObjects, ListingFails, v
  <2>2. \/ s3' = s3
        \/ Accessible(n, t.ctx, t.obj.spec.region)
           /\ s3' = [s3 EXCEPT ![n].objects = FALSE]
    BY <1>4, Zenon DEF RemoveObjects, ListingFails
  <2>3. s3' = s3 \/ (Exists(n) /\ s3' = [s3 EXCEPT ![n].objects = FALSE])
    BY <2>2, Zenon DEF Accessible
  <2>4. QED
    BY <1>1, <1>3, <2>1, <2>3, SMTT(30)
<1>5. CASE RemoveObjectsFails(w, r) \/ RemoveBucketRefused(w, r)
  <2>1. /\ Goto(w, r, OnError(t)) /\ UNCHANGED lost
        /\ \/ UNCHANGED s3
           \/ Exists(n) /\ s3' = [s3 EXCEPT ![n].objects = FALSE]
    BY <1>5 DEF RemoveObjectsFails, RemoveBucketRefused, Accessible
  <2>2. QED
    BY <1>1, <1>2, <2>1, EndedEffect DEF Failed, Ended
<1>6. CASE RemoveBucket(w, r)
  <2>1. /\ Goto(w, r, Closed(t, "Deleting", "Success")) /\ t.pc = "delete"
        /\ Exists(n) /\ s3' = [s3 EXCEPT ![n] = NoBucket] /\ lost' = lost \ {n}
    BY <1>6 DEF RemoveBucket, Accessible
  <2>2. QED
    BY <1>1, <1>2, <2>1, EndedEffect DEF Ended
<1>7. CASE RemoveAnswerLost(w, r)
  <2>1. /\ Goto(w, r, OnError(t))
        /\ Exists(n) /\ s3' = [s3 EXCEPT ![n] = NoBucket] /\ lost' = lost \ {n}
    BY <1>7 DEF RemoveAnswerLost, Accessible
  <2>2. QED
    BY <1>1, <1>2, <2>1, EndedEffect DEF Failed, Ended
<1>8. QED
  BY <1>4, <1>5, <1>6, <1>7

------------------------------------------------------------------------------
(* Types, exclusion and the deletion requests are kept together. *)

Orderly == TypeOK /\ Exclusion /\ Requests

CloudType ==
    /\ s3 \in [BucketNames -> Buckets]
    /\ creds \in [Resources -> Accounts \cup {None}]
    /\ accounts \in SUBSET Accounts
    /\ lost \in SUBSET BucketNames

\* A reconcile goes on without a write, as a task that is allowed where it is.
LEMMA GotoOrderly ==
    ASSUME Orderly, NEW w \in Workers, NEW r \in Resources,
           NEW u \in {Idle} \cup Tasks, Goto(w, r, u),
           mishaps' = mishaps \/ Mishap, CloudType', Exclusion',
           u.pc \in Calling => u.ctx \in Clients,
           Told(u.obj), Directed(u),
           u.cur => task[w][r].cur /\ u.obj.deleting = task[w][r].obj.deleting
    PROVE  Orderly'
<1>1. /\ api' = api /\ cache' = cache
      /\ \A v \in Workers, q \in Resources :
           task'[v][q] = IF v = w /\ q = r THEN u ELSE task[v][q]
  BY GotoEffect DEF Orderly, TypeOK
<1>2. ReconcilerType(Steps, Lives, Clients)'
  <2>1. mishaps' \in 0..MaxMishaps
    BY MishapTypes DEF Orderly, TypeOK, ReconcilerType
  <2>2. QED
    BY <2>1, GotoTypes DEF Orderly, TypeOK, Tasks
<1>3. \A v \in Workers, q \in Resources :
        task'[v][q].pc \in Calling => task'[v][q].ctx \in Clients
  BY <1>1 DEF Orderly, TypeOK
<1>4. Requests'
  BY <1>1 DEF Orderly, Requests
<1>5. QED
  BY <1>2, <1>3, <1>4 DEF Orderly, TypeOK, CloudType

\* A reconcile writes the object and goes on, or ends.
LEMMA SaveOrderly ==
    ASSUME Orderly, NEW w \in Workers, NEW r \in Resources, NEW o, NEW u,
           Save(w, r, o, u), ReconcilerType(Steps, Lives, Clients)', Exclusion',
           UNCHANGED <<s3, creds, accounts, lost>>,
           u.pc \in Calling => u.ctx \in Clients,
           Told(o), Told(u.obj), Directed(u), u.cur => u.obj.deleting = o.deleting
    PROVE  Orderly'
<1>1. /\ api'[r] = o /\ task'[w][r] = u
      /\ \A q \in Resources : q # r => api'[q] = api[q]
      /\ \A v \in Workers, q \in Resources :
           /\ cache'[v][q].obj = cache[v][q].obj
           /\ v # w \/ q # r =>
                /\ task'[v][q].pc = task[v][q].pc
                /\ task'[v][q].obj = task[v][q].obj
                /\ task'[v][q].ctx = task[v][q].ctx
                /\ task'[v][q].cur => task[v][q].cur /\ api'[q] = api[q]
  BY SaveEffect DEF Orderly, TypeOK
<1>2. \A v \in Workers, q \in Resources :
        task'[v][q].pc \in Calling => task'[v][q].ctx \in Clients
  BY <1>1 DEF Orderly, TypeOK
<1>3. Requests'
  <2>1. ASSUME NEW q \in Resources
        PROVE  Told(api'[q])
    BY <1>1 DEF Orderly, Requests
  <2>2. ASSUME NEW v \in Workers, NEW q \in Resources
        PROVE  /\ Told(cache'[v][q].obj) /\ Told(task'[v][q].obj)
               /\ Directed(task'[v][q])
               /\ task'[v][q].cur => task'[v][q].obj.deleting = api'[q].deleting
    <3>1. CASE v = w /\ q = r
      BY <1>1, <3>1 DEF Orderly, Requests
    <3>2. CASE v # w \/ q # r
      BY <1>1, <3>2 DEF Orderly, Requests, Directed, DeleteSteps
    <3>3. QED
      BY <3>1, <3>2
  <2>3. QED
    BY <2>1, <2>2 DEF Requests
<1>4. QED
  BY <1>2, <1>3 DEF Orderly, TypeOK

\* Somebody else writes the object.
LEMMA StoreOrderly ==
    ASSUME Orderly, NEW r \in Resources, NEW o, Store(r, o), CloudType',
           ReconcilerType(Steps, Lives, Clients)', Exclusion', Told(o)
    PROVE  Orderly'
<1>1. /\ api'[r] = o
      /\ \A q \in Resources : q # r => api'[q] = api[q]
      /\ \A v \in Workers, q \in Resources :
           /\ cache'[v][q].obj = cache[v][q].obj
           /\ task'[v][q].pc = task[v][q].pc
           /\ task'[v][q].obj = task[v][q].obj
           /\ task'[v][q].ctx = task[v][q].ctx
           /\ task'[v][q].cur => task[v][q].cur /\ api'[q] = api[q]
  BY StoreEffect DEF Orderly, TypeOK
<1>2. \A v \in Workers, q \in Resources :
        task'[v][q].pc \in Calling => task'[v][q].ctx \in Clients
  BY <1>1 DEF Orderly, TypeOK
<1>3. Requests'
  <2>1. ASSUME NEW q \in Resources
        PROVE  Told(api'[q])
    BY <1>1 DEF Orderly, Requests
  <2>2. ASSUME NEW v \in Workers, NEW q \in Resources
        PROVE  /\ Told(cache'[v][q].obj) /\ Told(task'[v][q].obj)
               /\ Directed(task'[v][q])
               /\ task'[v][q].cur => task'[v][q].obj.deleting = api'[q].deleting
    BY <1>1 DEF Orderly, Requests, Directed, DeleteSteps
  <2>3. QED
    BY <2>1, <2>2 DEF Requests
<1>4. QED
  BY <1>2, <1>3 DEF Orderly, TypeOK, CloudType

\* A reconcile that is not about to record an outcome ends: what it says of a
\* deletion was requested.
LEMMA EndedOrderly ==
    ASSUME Orderly, NEW w \in Workers, NEW r \in Resources, NEW u \in Tasks,
           Goto(w, r, u), mishaps' = mishaps \/ Mishap, CloudType',
           task[w][r].pc # "record", Ended(task[w][r], u),
           u.obj.ready = "Deleting" => \/ task[w][r].obj.ready = "Deleting"
                                       \/ task[w][r].pc \in DeleteSteps
    PROVE  Orderly'
<1> DEFINE t == task[w][r]
<1>1. /\ u.pc = "status" /\ u.cur = t.cur
      /\ u.obj.deleting = t.obj.deleting /\ u.obj.finalizer = t.obj.finalizer
      /\ u.obj.creation = t.obj.creation
  BY DEF Ended, Alike
<1>2. Exclusion'
  BY <1>1, CloseExclusion DEF Orderly, TypeOK
<1>3. Told(t.obj) /\ Directed(t)
  BY DEF Orderly, Requests
<1>4. Told(u.obj) /\ Directed(u) /\ u.pc \notin Calling
  BY <1>1, <1>3 DEF Told, Directed, DeleteSteps, Calling
<1>5. QED
  BY <1>1, <1>2, <1>4, GotoOrderly

\* Connect, Observe and Publish.
LEMMA ObserveStepOrderly ==
    ASSUME Orderly, NEW w \in Workers, NEW r \in Resources,
           \/ ConnectNoop(w, r) \/ Connect(w, r)
           \/ ObserveNoop(w, r) \/ ObserveBucket(w, r) \/ Publish(w, r)
    PROVE  Orderly'
<1> DEFINE t == task[w][r]
<1>1. TypeOK /\ Exclusion /\ Told(t.obj) /\ Directed(t)
  BY DEF Orderly, Requests
<1>2. UNCHANGED <<mishaps, s3, creds, accounts, lost>>
  BY DEF ConnectNoop, Connect, ObserveNoop, ObserveBucket, Publish
<1>3. CloudType'
  BY <1>1, <1>2 DEF TypeOK, CloudType
<1>4. t.pc = "pending" => t.obj.finalizer
  BY <1>1 DEF Exclusion, CreationChecked
<1>5. CASE ConnectNoop(w, r) \/ Connect(w, r)
  <2>1. t.pc = "connect"
    BY <1>5 DEF ConnectNoop, Connect
  <2>2. PICK u \in Tasks :
            /\ Goto(w, r, u) /\ u.cur = t.cur
            /\ \/ Failed(t, u)
               \/ /\ u.pc = "observe" /\ u.obj = t.obj /\ u.ctx \in Clients
                  /\ u.ctx = "noop" => IsBucketAlreadyDeleted(t.obj)
    BY <1>1, <1>5, ConnectEffect
  <2>3. CASE Failed(t, u)
    BY <1>2, <1>3, <2>1, <2>2, <2>3, EndedOrderly DEF Failed
  <2>4. CASE u.pc = "observe" /\ u.obj = t.obj
    <3>1. u.pc = "observe" /\ u.obj = t.obj /\ ~Failed(t, u)
      BY <2>4 DEF Failed, Ended
    <3>2. u.ctx \in Clients /\ (u.ctx = "noop" => IsBucketAlreadyDeleted(t.obj))
      BY <2>2, <3>1
    <3>3. Directed(u)
      BY <3>1, <3>2 DEF Directed, DeleteSteps
    <3>4. Exclusion'
      BY <1>1, <2>1, <2>2, <3>1, GotoExclusion DEF TypeOK, CreateSteps, BeforeCreate
    <3>5. QED
      BY <1>1, <1>2, <1>3, <2>2, <3>1, <3>2, <3>3, <3>4, GotoOrderly
  <2>5. QED
    BY <2>2, <2>3, <2>4
<1>6. CASE ObserveNoop(w, r) \/ ObserveBucket(w, r)
  <2>1. t.pc = "observe" /\ t.obj \in Lives
    BY <1>1, <1>6, TaskTypes DEF ObserveNoop, ObserveBucket
  <2>2. PICK u \in Tasks :
            /\ Goto(w, r, u) /\ u.cur = t.cur
            /\ \/ Failed(t, u)
               \/ /\ u.obj = t.obj
                  /\ \/ u.pc = "publish" /\ ~t.obj.deleting
                     \/ u.pc = "finalize" /\ t.obj.deleting
                  /\ t.ctx = "noop" \/ u.ctx \in Clients
               \/ /\ u.obj = Found(r, t.obj) /\ u.ctx \in Clients
                  /\ \/ u.pc = "publish" /\ ~t.obj.deleting
                     \/ u.pc \in {"delete", "removeObjects"} /\ t.obj.deleting
    BY <1>1, <1>6, ObserveEffect
  <2>3. CASE Failed(t, u)
    BY <1>2, <1>3, <2>1, <2>2, <2>3, EndedOrderly DEF Failed
  <2>4. CASE ~Failed(t, u)
    <3>1. /\ u.obj.deleting = t.obj.deleting /\ u.obj.creation = t.obj.creation
          /\ u.obj.finalizer = t.obj.finalizer /\ Told(u.obj)
      BY <1>1, <2>1, <2>2, <2>4, FoundEffect DEF Told
    <3>2. \/ u.pc = "publish" /\ ~t.obj.deleting
          \/ u.pc = "finalize" /\ t.obj.deleting
          \/ u.pc \in {"delete", "removeObjects"} /\ t.obj.deleting /\ u.ctx \in Clients
      BY <2>2, <2>4
    <3>3. u.pc = "publish" => u.ctx \in Clients
      <4>1. t.ctx = "noop" => t.obj.deleting
        BY <1>1, <2>1 DEF Directed, IsBucketAlreadyDeleted, Told
      <4>2. QED
        BY <2>2, <2>4, <3>2, <4>1
    <3>4. Directed(u)
      BY <3>1, <3>2, <3>3 DEF Directed, DeleteSteps
    <3>5. Exclusion'
      <4>1. u.pc \notin CreateSteps /\ t.pc \in BeforeCreate /\ t.pc # "record"
            /\ u.pc \notin {"connect", "observe", "pending", "record"}
        BY <2>1, <3>2 DEF CreateSteps, BeforeCreate
      <4>2. QED
        BY <1>1, <2>2, <3>1, <4>1, GotoExclusion DEF TypeOK
    <3>6. u.pc \in Calling => u.ctx \in Clients
      BY <3>2 DEF Calling
    <3>7. QED
      BY <1>2, <1>3, <2>2, <3>1, <3>4, <3>5, <3>6, GotoOrderly
  <2>5. QED
    BY <2>3, <2>4, SMTT(30)
<1>7. CASE Publish(w, r)
  <2>1. t.pc \in {"publish", "publishCreated"}
    BY <1>7 DEF Publish
  <2>2. PICK u \in Tasks :
            /\ Goto(w, r, u) /\ u.cur = t.cur
            /\ \/ /\ Ended(t, u)
                  /\ u.obj.ready = "Deleting" => t.obj.ready = "Deleting"
               \/ /\ t.pc = "publish" /\ u.obj = t.obj
                  /\ \/ u.pc = "addFinalizer" /\ u.ctx = t.ctx
                     \/ u.pc = "pending" /\ u.ctx = t.ctx /\ u.obj.finalizer
                     \/ u.pc = "update"
    BY <1>1, <1>7, PublishEffect
  <2>3. CASE Ended(t, u)
    <3>1. u.obj.ready = "Deleting" => t.obj.ready = "Deleting"
      BY <2>2, <2>3 DEF Ended
    <3>2. QED
      BY <1>2, <1>3, <2>1, <2>2, <2>3, <3>1, EndedOrderly
  <2>4. CASE ~Ended(t, u)
    <3>1. /\ t.pc = "publish" /\ u.obj = t.obj
          /\ \/ u.pc = "addFinalizer" /\ u.ctx = t.ctx
             \/ u.pc = "pending" /\ u.ctx = t.ctx /\ u.obj.finalizer
             \/ u.pc = "update"
      BY <2>2, <2>4
    <3>2. Directed(u) /\ u.pc \notin Calling
      BY <1>1, <3>1 DEF Directed, DeleteSteps, Calling
    <3>3. Exclusion'
      <4>1. u.pc \notin CreateSteps /\ t.pc \in BeforeCreate /\ t.pc # "record"
            /\ u.pc \notin {"connect", "observe", "record"}
        BY <3>1 DEF CreateSteps, BeforeCreate
      <4>2. QED
        BY <1>1, <2>2, <3>1, <4>1, GotoExclusion DEF TypeOK
    <3>4. QED
      BY <1>1, <1>2, <1>3, <2>2, <3>1, <3>2, <3>3, GotoOrderly
  <2>5. QED
    BY <2>3, <2>4
<1>8. QED
  BY <1>5, <1>6, <1>7

\* Changing a bucket, or making or removing one, leaves a bucket or none.
LEMMA BucketTypes ==
    ASSUME TypeOK
    PROVE  /\ \A n \in BucketNames : [s3 EXCEPT ![n] = NoBucket] \in [BucketNames -> Buckets]
           /\ \A n \in BucketNames : Exists(n) =>
                \A x \in BOOLEAN :
                   [s3 EXCEPT ![n].objects = x] \in [BucketNames -> Buckets]
           /\ \A r \in Resources, t \in Tasks :
                NewBucket(r, t) => s3' \in [BucketNames -> Buckets]
<1>1. s3 \in [BucketNames -> Buckets]
  BY DEF TypeOK
<1>2. ASSUME NEW n \in BucketNames, Exists(n), NEW x \in BOOLEAN
      PROVE  [s3 EXCEPT ![n].objects = x] \in [BucketNames -> Buckets]
  <2>1. [s3[n] EXCEPT !.objects = x] \in Buckets
    BY <1>1, <1>2 DEF Buckets, Exists
  <2>2. QED
    BY <1>1, <2>1
<1>3. ASSUME NEW r \in Resources, NEW t \in Tasks, NewBucket(r, t)
      PROVE  s3' \in [BucketNames -> Buckets]
  <2>1. t.obj.spec \in Specs
    BY DEF Tasks, Running, Lives, LiveObjects
  <2>2. t.ctx \in Accounts /\ t.obj.spec.region \in Regions
    BY <1>3, <2>1 DEF NewBucket, TypeOK, Specs
  <2>3. [region |-> t.obj.spec.region, account |-> t.ctx, creator |-> r,
         objects |-> FALSE] \in Buckets
    BY <2>2 DEF Buckets
  <2>4. QED
    BY <1>1, <1>3, <2>3 DEF NewBucket
<1>4. NoBucket \in Buckets
  BY DEF Buckets
<1>5. QED
  BY <1>1, <1>2, <1>3, <1>4

\* Create.
LEMMA CreateStepOrderly ==
    ASSUME Orderly, NEW w \in Workers, NEW r \in Resources,
           MakeBucket(w, r) \/ MakeExistingBucket(w, r) \/ CreateFails(w, r)
    PROVE  Orderly'
<1> DEFINE t == task[w][r]
           n == GetBucketName(r, t.obj.spec)
<1>1. TypeOK /\ Exclusion /\ Told(t.obj) /\ Directed(t)
  BY DEF Orderly, Requests
<1>2. /\ t.pc = "create" /\ UNCHANGED <<creds, accounts>>
      /\ mishaps' = mishaps \/ Mishap
  BY <1>1, CreateEffect
<1>3. t \in Tasks /\ t.obj.spec \in Specs
  BY <1>1, <1>2, TaskTypes
<1>4. PICK u \in Tasks :
          /\ Goto(w, r, u) /\ u.pc = "record" /\ u.cur = t.cur
          /\ u.obj.deleting = t.obj.deleting
          /\ u.obj.finalizer = t.obj.finalizer
          /\ u.obj.ready = t.obj.ready
          /\ \/ UNCHANGED <<s3, lost>>
             \/ NewBucket(r, t) /\ lost' = lost \cup {n}
             \/ /\ NewBucket(r, t)
                /\ lost' = IF api[r].phase = "live"
                           THEN lost \cup Disowned(r, api[r].spec, s3') ELSE lost
  BY <1>1, CreateEffect
<1>5. CloudType'
  <2>1. n \in BucketNames
    BY <1>3, NameTypes
  <2>2. NewBucket(r, t) => s3' \in [BucketNames -> Buckets]
    BY <1>1, <1>3, BucketTypes
  <2> HIDE DEF n
  <2>3. lost' \in SUBSET BucketNames
    BY <1>1, <1>4, <2>1 DEF TypeOK, Disowned
  <2>4. QED
    BY <1>1, <1>2, <1>4, <2>2, <2>3 DEF TypeOK, CloudType
<1>6. Exclusion'
  BY <1>1, <1>2, <1>4, CreateExclusion DEF TypeOK, CreateSteps
<1>7. Told(u.obj) /\ Directed(u) /\ u.pc \notin Calling
  BY <1>1, <1>2, <1>4 DEF Told, Directed, DeleteSteps, Calling
<1>8. QED
  BY <1>2, <1>4, <1>5, <1>6, <1>7, GotoOrderly

\* Delete.
LEMMA DeleteStepOrderly ==
    ASSUME Orderly, NEW w \in Workers, NEW r \in Resources,
           \/ RemoveObjects(w, r) \/ ListingFails(w, r) \/ RemoveObjectsFails(w, r)
           \/ RemoveBucket(w, r) \/ RemoveBucketRefused(w, r) \/ RemoveAnswerLost(w, r)
    PROVE  Orderly'
<1> DEFINE t == task[w][r]
           n == t.obj.status
<1>1. TypeOK /\ Exclusion /\ Told(t.obj) /\ Directed(t)
  BY SMTT(30) DEF Orderly, Requests
<1>2. /\ t.pc \in {"removeObjects", "delete"} /\ UNCHANGED <<creds, accounts>>
      /\ mishaps' = mishaps \/ Mishap
      /\ \/ UNCHANGED <<s3, lost>>
         \/ /\ Exists(n) /\ s3' = [s3 EXCEPT ![n].objects = FALSE]
            /\ UNCHANGED lost
         \/ s3' = [s3 EXCEPT ![n] = NoBucket] /\ lost' = lost \ {n}
  BY <1>1, DeleteEffect
<1>3. t \in Tasks /\ t.ctx \in Clients
  BY <1>1, <1>2, TaskTypes DEF TypeOK, Calling
<1>4. PICK u \in Tasks :
          /\ Goto(w, r, u) /\ u.cur = t.cur
          /\ \/ Failed(t, u)
             \/ u.pc = "delete" /\ u.obj = t.obj /\ u.ctx = t.ctx
             \/ Ended(t, u)
  BY <1>1, DeleteEffect
<1>5. CloudType'
  <2>1. n \in BucketNames \cup {None}
    BY <1>1, <1>2, TaskTypes
  <2> HIDE DEF n
  <2>2. s3' \in [BucketNames -> Buckets]
    <3>1. CASE n \in BucketNames
      <4>1. s3 \in [BucketNames -> Buckets]
        BY <1>1 DEF TypeOK
      <4>2. /\ [s3 EXCEPT ![n] = NoBucket] \in [BucketNames -> Buckets]
            /\ Exists(n) =>
                 [s3 EXCEPT ![n].objects = FALSE] \in [BucketNames -> Buckets]
        BY <1>1, <3>1, BucketTypes
      <4>3. QED
        BY <1>2, <4>1, <4>2
    <3>2. CASE n \notin BucketNames
      BY <1>1, <1>2, <3>2 DEF TypeOK
    <3>3. QED
      BY <3>1, <3>2
  <2>3. QED
    BY <1>1, <1>2, <2>2 DEF TypeOK, CloudType
<1>6. CASE Ended(t, u)
  BY <1>2, <1>4, <1>5, <1>6, EndedOrderly DEF DeleteSteps
<1>7. CASE ~Ended(t, u)
  <2>1. u.pc = "delete" /\ u.obj = t.obj /\ u.ctx = t.ctx
    BY <1>4, <1>7 DEF Failed
  <2>2. Directed(u)
    BY <1>1, <1>2, <2>1, SMTT(30) DEF Directed, DeleteSteps
  <2>3. Exclusion'
    BY <1>1, <1>2, <1>4, <2>1, GotoExclusion DEF TypeOK, CreateSteps, BeforeCreate
  <2>4. QED
    BY <1>1, <1>2, <1>3, <1>4, <1>5, <2>1, <2>2, <2>3, GotoOrderly
<1>8. QED
  BY <1>6, <1>7

\* The steps that are the same for every kind of resource.
LEMMA OperatorOrderly ==
    ASSUME Orderly, NEW w \in Workers, NEW r \in Resources,
           \/ Sync(w, r) \/ Begin(w, r) \/ ReconcilerStep(w, r)
           \/ CallFails(w, r, Calls(task[w][r])) \/ Abandon(w, r),
           UNCHANGED <<s3, creds, accounts, lost>>
    PROVE  Orderly'
<1> DEFINE t == task[w][r]
<1>1. /\ TypeOK /\ Exclusion /\ Told(t.obj) /\ Directed(t) /\ Told(api[r])
      /\ Told(cache[w][r].obj)
      /\ t.cur => t.obj.deleting = api[r].deleting
  BY DEF Orderly, Requests
<1>2. CloudType'
  BY <1>1 DEF TypeOK, CloudType
<1>3. Calls(t) \in SUBSET (Steps \ {"record"}) /\ Calls(t) \in SUBSET Steps
  BY DEF Calls, Steps, BaseSteps
<1>4. ReconcilerType(Steps, Lives, Clients)'
  BY <1>1, <1>3, StepsType, OperatorTypes DEF TypeOK, Lives
<1>5. Exclusion'
  BY <1>1, <1>3, StepsType, OperatorExclusion DEF TypeOK, Lives
<1>6. Told(Idle.obj) /\ Directed(Idle) /\ Idle.pc \notin Calling /\ Idle.cur = FALSE
  BY DEF Idle, Blank, Told, Directed, DeleteSteps, Calling
<1>7. CASE Sync(w, r)
  <2>1. /\ api' = api /\ task' = task
        /\ \A v \in Workers, q \in Resources :
             cache'[v][q].obj \in {api[q], cache[v][q].obj}
    <3>1. /\ api' = api /\ task' = task
          /\ cache' = [cache EXCEPT ![w][r] = [obj |-> api[r], cur |-> TRUE]]
      BY <1>7 DEF Sync
    <3>2. \A v \in Workers, q \in Resources :
            cache'[v][q] = IF v = w /\ q = r THEN [obj |-> api[r], cur |-> TRUE]
                                             ELSE cache[v][q]
      BY <1>1, <3>1 DEF TypeOK, ReconcilerType
    <3>3. QED
      BY <3>1, <3>2
  <2>2. Requests'
    BY <2>1 DEF Orderly, Requests
  <2>3. QED
    BY <1>1, <1>2, <1>4, <1>5, <2>1, <2>2 DEF Orderly, TypeOK, CloudType
<1>8. CASE Begin(w, r)
  <2> DEFINE c == cache[w][r]
             u == FirstStep(r, [Idle EXCEPT !.pc = "connect", !.obj = c.obj,
                                            !.cur = c.cur])
  <2>1. /\ Goto(w, r, u) /\ u.cur = c.cur /\ u.obj.deleting = c.obj.deleting
        /\ \/ u.pc = "finalize" /\ u.obj = c.obj /\ u.obj.deleting
           \/ u.pc = "status" /\ u.obj.ready = "Creating"
           \/ u.pc = "connect" /\ u.obj = c.obj
    BY <1>1, <1>8, Begun, ZenonT(40)
  <2> HIDE DEF u
  <2>2. /\ Told(u.obj) /\ Directed(u) /\ u.pc \notin Calling
        /\ u.cur => u.obj.deleting = api[r].deleting
    BY <1>1, <2>1
       DEF Told, Directed, DeleteSteps, Calling, Exclusion, CachesAgree
  <2>3. /\ api' = api /\ cache' = cache
        /\ \A v \in Workers, q \in Resources :
             task'[v][q] = IF v = w /\ q = r THEN u ELSE task[v][q]
    BY <1>1, <2>1, GotoEffect DEF TypeOK
  <2>4. Requests'
    BY <2>2, <2>3 DEF Orderly, Requests
  <2>5. \A v \in Workers, q \in Resources :
          task'[v][q].pc \in Calling => task'[v][q].ctx \in Clients
    BY <1>1, <2>2, <2>3 DEF TypeOK
  <2>6. QED
    BY <1>2, <1>4, <1>5, <2>4, <2>5 DEF Orderly, TypeOK, CloudType
<1>9. CASE Conflict(w, r) \/ Abandon(w, r)
  <2>1. Goto(w, r, Idle) /\ (mishaps' = mishaps \/ Mishap)
    BY <1>9 DEF Conflict, Abandon
  <2>2. QED
    BY <1>2, <1>5, <1>6, <2>1, GotoOrderly
<1>10. CASE CallFails(w, r, Calls(t))
  <2>1. Goto(w, r, OnError(t)) /\ Mishap /\ t.pc \in Calls(t)
    BY <1>10 DEF CallFails
  <2>2. t.pc # "record" /\ t.pc # "idle"
    BY <2>1 DEF Calls
  <2>3. t \in Tasks
    BY <1>1, <2>2, TaskTypes
  <2>4. OnError(t) \in Tasks /\ Failed(t, OnError(t))
    BY <2>3, EndedEffect
  <2>5. QED
    BY <1>2, <2>1, <2>2, <2>4, EndedOrderly DEF Failed
<1>11. CASE AddFinalizer(w, r)
  <2>1. t.pc = "addFinalizer" /\ t.cur
    BY <1>11 DEF AddFinalizer, WriteAccepted
  <2>2. PICK o, u :
           /\ Save(w, r, o, u)
           /\ o.deleting = t.obj.deleting /\ o.ready = api[r].ready
           /\ u.obj.deleting = t.obj.deleting /\ u.obj.ready = api[r].ready
           /\ \/ u.pc = "pending" /\ u.ctx = t.ctx
              \/ u.pc \in {"update", "status"}
    BY <1>1, <1>11, StepsType, AddFinalizerEffect DEF TypeOK, Lives
  <2>3. /\ Told(o) /\ Told(u.obj) /\ Directed(u) /\ u.pc \notin Calling
        /\ u.obj.deleting = o.deleting
    BY <1>1, <2>1, <2>2 DEF Told, Directed, DeleteSteps, Calling
  <2>4. QED
    BY <1>4, <1>5, <2>2, <2>3, SaveOrderly
<1>12. CASE MarkPending(w, r)
  <2>1. t.pc = "pending" /\ t.cur
    BY <1>12 DEF MarkPending, WriteAccepted
  <2>2. PICK o, u :
           /\ Save(w, r, o, u)
           /\ o.deleting = t.obj.deleting /\ o.ready = api[r].ready
           /\ u.obj.deleting = t.obj.deleting /\ u.obj.ready = api[r].ready
           /\ u.pc = "create" /\ u.ctx = t.ctx
    BY <1>1, <1>12, StepsType, MarkPendingEffect DEF TypeOK, Lives
  <2>3. /\ Told(o) /\ Told(u.obj) /\ Directed(u) /\ u.ctx \in Clients
        /\ u.obj.deleting = o.deleting
    BY <1>1, <2>1, <2>2 DEF Told, Directed, DeleteSteps
  <2>4. QED
    BY <1>4, <1>5, <2>2, <2>3, SaveOrderly
<1>13. CASE RecordCreation(w, r)
  <2>1. PICK o, u :
           /\ Save(w, r, o, u) /\ o.phase = "live"
           /\ o.finalizer = api[r].finalizer
           /\ o.deleting = api[r].deleting /\ o.spec = api[r].spec
           /\ o.creation = t.obj.creation
           /\ o.note = IF t.obj.note = None THEN api[r].note ELSE t.obj.note
           /\ o.status = api[r].status /\ o.ready = api[r].ready
           /\ o.synced = api[r].synced
           /\ u.cur = TRUE
           /\ u.obj.finalizer = o.finalizer
           /\ u.obj.deleting = o.deleting /\ u.obj.spec = o.spec
           /\ u.obj.creation = o.creation /\ u.obj.note = o.note
           /\ \/ u.obj.status = o.status
              \/ t.cur /\ u.obj.status = t.obj.status
           /\ \/ /\ u.pc = "publishCreated" /\ u.obj.ready = api[r].ready
                 /\ u.obj.synced = api[r].synced
              \/ /\ u.pc = "status" /\ u.seen = "unknown"
                 /\ u.obj.ready = "Creating"
    <3>1. ReconcilerType(Steps, Lives, Clients)
      BY <1>1 DEF TypeOK
    <3> HIDE DEF t
    <3>2. QED
      BY <1>13, <3>1, StepsType, RecordEffect DEF Lives, t
  <2>2. Told(o) /\ Told(u.obj) /\ Directed(u) /\ u.pc \notin Calling
    BY <1>1, <2>1 DEF Told, Directed, DeleteSteps, Calling
  <2>3. QED
    BY <1>4, <1>5, <2>1, <2>2, SaveOrderly
<1>14. CASE RemoveFinalizer(w, r)
  <2>1. Save(w, r, Gone, Idle)
    BY <1>14 DEF RemoveFinalizer
  <2>2. Told(Gone)
    BY DEF Gone, Blank, Told
  <2>3. QED
    BY <1>4, <1>5, <1>6, <2>1, <2>2, SaveOrderly
<1>15. CASE WriteStatus(w, r)
  <2>1. t.cur
    BY <1>15 DEF WriteStatus, WriteAccepted
  <2>2. PICK o : /\ Save(w, r, o, Idle) /\ o.deleting = api[r].deleting
                 /\ o.ready = t.obj.ready
    BY <1>1, <1>15, EndEffect DEF TypeOK, Lives
  <2>3. Told(o)
    BY <1>1, <2>1, <2>2 DEF Told
  <2>4. QED
    BY <1>4, <1>5, <1>6, <2>2, <2>3, SaveOrderly
<1>16. QED
  BY <1>7, <1>8, <1>9, <1>10, <1>11, <1>12, <1>13, <1>14, <1>15 DEF ReconcilerStep

\* What happens outside the operator.
LEMMA EnvironmentOrderly ==
    ASSUME Orderly, Environment
    PROVE  Orderly'
<1>1. TypeOK /\ Exclusion /\ (\A r \in Resources : Told(api[r]))
  BY DEF Orderly, Requests
<1>2. ASSUME NEW r \in Resources,
             (\E spec \in Specs : Apply(r, spec)) \/ RequestDeletion(r),
             UNCHANGED <<s3, creds, accounts, lost>>
      PROVE  Orderly'
  <2>1. ReconcilerType(Steps, Lives, Clients)'
    BY <1>1, <1>2, UserTypes DEF TypeOK, Lives
  <2>2. Exclusion'
    BY <1>1, <1>2, UserExclusion DEF TypeOK, Lives
  <2>3. CloudType'
    BY <1>1, <1>2 DEF TypeOK, CloudType
  <2>4. PICK o : Store(r, o) /\ Told(o)
    <3>1. CASE \E spec \in Specs : Apply(r, spec)
      <4>1. PICK o : Store(r, o) /\ o.ready = "none"
        BY <1>1, <3>1, UserEffect DEF TypeOK, Lives
      <4>2. QED
        BY <4>1 DEF Told
    <3>2. CASE RequestDeletion(r)
      <4>1. \/ Store(r, Gone)
            \/ \E o : Store(r, o) /\ o.deleting
        BY <1>1, <3>2, UserEffect DEF TypeOK, Lives
      <4>2. QED
        BY <4>1 DEF Gone, Blank, Told
    <3>3. QED
      BY <1>2, <3>1, <3>2
  <2>5. QED
    BY <2>1, <2>2, <2>3, <2>4, StoreOrderly
<1>3. ASSUME NEW r \in Resources, NEW spec \in Specs, Edit(r, spec)
      PROVE  Orderly'
  <2> DEFINE o == [api[r] EXCEPT !.spec = spec]
  <2>1. /\ api[r].phase = "live" /\ Store(r, o) /\ Mishap
        /\ lost' = lost \cup Disowned(r, spec, s3) /\ UNCHANGED <<s3, creds, accounts>>
    BY <1>3 DEF Edit
  <2>2. api[r] \in Lives
    BY <1>1, <2>1, LivePhase DEF TypeOK, Lives
  <2>3. /\ o \in Lives /\ o.creation = api[r].creation
        /\ o.finalizer = api[r].finalizer /\ o.deleting = api[r].deleting
        /\ o.ready = api[r].ready
    BY <2>2 DEF Lives, LiveObjects
  <2> HIDE DEF o
  <2>4. ReconcilerType(Steps, Lives, Clients)'
    <3>1. mishaps' \in 0..MaxMishaps
      BY <1>1, <2>1, MishapTypes DEF TypeOK, ReconcilerType
    <3>2. QED
      BY <1>1, <2>1, <2>3, <3>1, StoreTypes DEF TypeOK
  <2>5. Exclusion'
    BY <1>1, <2>1, <2>3, StoreExclusion DEF TypeOK
  <2>6. CloudType'
    BY <1>1, <2>1 DEF TypeOK, CloudType, Disowned
  <2>7. Told(o)
    BY <1>1, <2>3 DEF Told
  <2>8. QED
    BY <2>1, <2>4, <2>5, <2>6, <2>7, StoreOrderly
<1>4. ASSUME UNCHANGED <<api, cache, task>>, Mishap, CloudType'
      PROVE  Orderly'
  <2>1. ReconcilerType(Steps, Lives, Clients)'
    BY <1>1, <1>4, MishapTypes DEF TypeOK, ReconcilerType
  <2>2. Exclusion'
    BY <1>1, <1>4 DEF Exclusion, CreateIsExclusive, CachesAgree, TasksAgree,
                      CreationAnnounced, CreationChecked
  <2>3. QED
    BY <1>4, <2>1, <2>2 DEF Orderly, TypeOK, CloudType, Requests
<1>5. ASSUME NEW n \in BucketNames, S3Intervention(n)
      PROVE  Orderly'
  <2>1. /\ UNCHANGED <<api, cache, task, creds, accounts>> /\ Mishap
        /\ lost' \in {lost, lost \ {n}}
        /\ \/ \E b \in Buckets : s3' = [s3 EXCEPT ![n] = b]
           \/ s3' = [s3 EXCEPT ![n] = NoBucket]
           \/ Exists(n) /\ s3' = [s3 EXCEPT ![n].objects = TRUE]
    BY <1>5 DEF S3Intervention
  <2>2. s3' \in [BucketNames -> Buckets]
    <3>1. s3 \in [BucketNames -> Buckets]
      BY <1>1 DEF TypeOK
    <3>2. /\ [s3 EXCEPT ![n] = NoBucket] \in [BucketNames -> Buckets]
          /\ Exists(n) => [s3 EXCEPT ![n].objects = TRUE] \in [BucketNames -> Buckets]
      BY <1>1, BucketTypes
    <3>3. \A b \in Buckets : [s3 EXCEPT ![n] = b] \in [BucketNames -> Buckets]
      BY <3>1
    <3>4. QED
      BY <2>1, <3>2, <3>3
  <2>3. CloudType'
    BY <1>1, <2>1, <2>2 DEF TypeOK, CloudType
  <2>4. QED
    BY <1>4, <2>1, <2>3
<1>6. ASSUME NEW r \in Resources, NEW a \in Accounts \cup {None}, CredentialsChange(r, a)
      PROVE  Orderly'
  <2>1. CloudType'
    BY <1>1, <1>6 DEF CredentialsChange, TypeOK, CloudType
  <2>2. QED
    BY <1>4, <1>6, <2>1 DEF CredentialsChange
<1>7. ASSUME NEW a \in Accounts, AccountRemoved(a)
      PROVE  Orderly'
  <2>1. CloudType'
    BY <1>1, <1>7 DEF AccountRemoved, TypeOK, CloudType
  <2>2. QED
    BY <1>4, <1>7, <2>1 DEF AccountRemoved
<1>8. QED
  BY <1>2, <1>3, <1>5, <1>6, <1>7 DEF Environment

\* Every step.
LEMMA OrderlyStep ==
    ASSUME Orderly, [Next]_vars
    PROVE  Orderly'
<1>1. ASSUME NEW w \in Workers, NEW r \in Resources,
             \/ (Sync(w, r) \/ Begin(w, r)) /\ UNCHANGED <<s3, creds, accounts, lost>>
             \/ Progress(w, r) \/ Failure(w, r)
      PROVE  Orderly'
  BY <1>1, OperatorOrderly, ObserveStepOrderly, CreateStepOrderly, DeleteStepOrderly
     DEF Progress, Failure
<1>2. CASE UNCHANGED vars
  BY <1>2 DEF vars, Orderly, TypeOK, ReconcilerType, Requests, Exclusion,
              CreateIsExclusive, CachesAgree, TasksAgree, CreationAnnounced,
              CreationChecked
<1>3. QED
  BY <1>1, <1>2, EnvironmentOrderly DEF Next

\* Whatever happens to the credentials and their accounts only.
LEMMA OrderlyAside ==
    ASSUME Orderly, UNCHANGED <<api, cache, task, s3, lost>>, mishaps' \in 0..MaxMishaps,
           creds' \in [Resources -> Accounts \cup {None}], accounts' \in SUBSET Accounts
    PROVE  Orderly'
<1>1. TypeOK'
  BY DEF Orderly, TypeOK, ReconcilerType
<1>2. Exclusion'
  BY DEF Orderly, Exclusion, CreateIsExclusive, CachesAgree, TasksAgree,
         CreationAnnounced, CreationChecked
<1>3. Requests'
  BY DEF Orderly, Requests
<1>4. QED
  BY <1>1, <1>2, <1>3 DEF Orderly

\* No copy is outdated and nothing runs in the beginning, whatever is in the cloud.
LEMMA OrderlyStart ==
    ASSUME ReconcilerInit, CloudType
    PROVE  Orderly
<1>1. \A w \in Workers, r \in Resources :
        /\ api[r] = Blank /\ cache[w][r].obj = Blank /\ task[w][r] = Idle
  BY DEF ReconcilerInit
<1>2. TypeOK
  <2>1. mishaps \in 0..MaxMishaps
    BY MaxMishapsAssumption DEF ReconcilerInit
  <2>2. ReconcilerType(Steps, Lives, Clients)
    BY <2>1 DEF ReconcilerInit, ReconcilerType, Copies
  <2>3. Idle.pc \notin Calling
    BY DEF Idle, Calling
  <2>4. QED
    BY <1>1, <2>2, <2>3 DEF CloudType, TypeOK
<1>3. Idle.pc = "idle" /\ Idle.cur = FALSE /\ Idle.obj = Blank
  BY DEF Idle
<1>4. Exclusion
  BY <1>1, <1>3
     DEF Exclusion, CreateIsExclusive, CachesAgree, TasksAgree, CreationAnnounced,
         CreationChecked, CreateSteps, BeforeCreate
<1>5. Told(Blank) /\ Directed(Idle)
  BY <1>3 DEF Blank, Told, Directed, DeleteSteps
<1>6. Requests
  <2>1. ASSUME NEW r \in Resources, NEW w \in Workers
        PROVE  /\ Told(api[r]) /\ Told(cache[w][r].obj) /\ Told(task[w][r].obj)
               /\ Directed(task[w][r]) /\ ~task[w][r].cur
    BY <1>1, <1>3, <1>5
  <2>2. \A r \in Resources : Told(api[r])
    BY <1>5 DEF ReconcilerInit
  <2>3. QED
    BY <2>1, <2>2 DEF Requests
<1>7. QED
  BY <1>2, <1>4, <1>6 DEF Orderly

LEMMA OrderlyInit == Init => Orderly
<1>1. Init => CloudType
  BY DEF Init, CloudType
<1>2. QED
  BY <1>1, OrderlyStart DEF Init

\* Types, exclusion and requests hold in every reachable state.
LEMMA OrderlyHolds == Spec => []Orderly
<1>1. QED
  BY OrderlyInit, OrderlyStep, PTL DEF Spec

\* The state of the controller always has its type, for all constants: in
\* particular, no call is made without an S3 client, which the code would answer
\* with a nil dereference.
THEOREM TypeCorrect == Spec => []TypeOK
<1>1. Orderly => TypeOK
  BY DEF Orderly
<1>2. QED
  BY <1>1, OrderlyHolds, PTL

\* At most one instance of the operator makes a bucket for a resource at a time,
\* whatever the age of the caches.
THEOREM ExclusionAlways == Spec => []Exclusion
<1>1. Orderly => Exclusion
  BY DEF Orderly
<1>2. QED
  BY <1>1, OrderlyHolds, PTL

\* A reconcile creates or deletes by the deletion request it has read, which is the
\* one on the stored object as long as its copy is current.
THEOREM RequestsAlways == Spec => []Requests
<1>1. Orderly => Requests
  BY DEF Orderly
<1>2. QED
  BY <1>1, OrderlyHolds, PTL

------------------------------------------------------------------------------
(* Custody.  Frames: what a step leaves as it was. *)

\* No resource is given a bucket.
Fewer == \A q \in Resources : Owned(q)' \subseteq Owned(q) /\ Made(q)' \subseteq Made(q)

\* The write of o leaves true what copies of any age say of the object p.
Heir(o, p) ==
    o.phase # "gone" => /\ p.phase # "gone" /\ (p.deleting => o.deleting)
                        /\ p.note # None => o.note = p.note

\* Copies of an object are as they were, or of one that it has been since.
LEMMA HeirLemma ==
    ASSUME NEW x, NEW o, NEW p, Aged(x, p), Heir(o, p)
    PROVE  Aged(x, o)
BY DEF Aged, Heir

\* What is said of a resource and its buckets is true of fewer buckets.
LEMMA FewerKept ==
    ASSUME NEW r, NEW o, NEW t, NEW B, NEW M,
           NEW C \in SUBSET B, NEW N \in SUBSET M
    PROVE  /\ Stored(r, o, B, M) => Stored(r, o, C, N)
           /\ Known(r, t, o, B, M) => Known(r, t, o, C, N)
           /\ Seen(t, B) => Seen(t, C)
<1>1. Removed(t.obj, B, M) => Removed(t.obj, C, N)
  BY DEF Removed
<1>2. Removed(o, B, M) => Removed(o, C, N)
  BY DEF Removed
<1>3. B = {} => C = {}
  OBVIOUS
<1>4. Stored(r, o, B, M) => Stored(r, o, C, N)
  BY <1>2, <1>3 DEF Stored
<1>5. Known(r, t, o, B, M) => Known(r, t, o, C, N)
  BY <1>1 DEF Known
<1>6. Seen(t, B) => Seen(t, C)
  BY <1>3 DEF Seen
<1>7. QED
  BY <1>4, <1>5, <1>6

\* A reconcile of which only the age of its copy has changed.
LEMMA OlderKept ==
    ASSUME NEW r, NEW o, NEW t, NEW u, NEW B, NEW M,
           u.pc = t.pc, u.obj = t.obj, u.seen = t.seen, u.cur => t.cur
    PROVE  /\ Sound(r, t) => Sound(r, u)
           /\ Known(r, t, o, B, M) => Known(r, u, o, B, M)
           /\ Seen(t, B) => Seen(u, B)
<1>1. Sound(r, t) => Sound(r, u)
  BY DEF Sound
<1>2. Known(r, t, o, B, M) => Known(r, u, o, B, M)
  BY DEF Known
<1>3. Seen(t, B) => Seen(u, B)
  BY DEF Seen
<1>4. QED
  BY <1>1, <1>2, <1>3

\* A resource that only a part of a step is about that it has no share in.
LEMMA FrameKept ==
    ASSUME Custody, NEW q \in Resources,
           Owned(q)' \subseteq Owned(q), Made(q)' \subseteq Made(q),
           api'[q] = api[q],
           \A v \in Workers :
              /\ cache'[v][q].obj \in {cache[v][q].obj, api[q]}
              /\ task'[v][q].pc = task[v][q].pc /\ task'[v][q].obj = task[v][q].obj
              /\ task'[v][q].seen = task[v][q].seen
              /\ task'[v][q].cur => task[v][q].cur
    PROVE  Kept(q)'
<1>1. Kept(q)
  BY DEF Custody
<1>2. Stored(q, api'[q], Owned(q)', Made(q)')
  BY <1>1, FewerKept DEF Kept
<1>3. ASSUME NEW v \in Workers
      PROVE  /\ Aged(cache'[v][q].obj, api'[q]) /\ Sound(q, task'[v][q])
             /\ Known(q, task'[v][q], api'[q], Owned(q)', Made(q)')
             /\ Seen(task'[v][q], Owned(q)')
  <2> DEFINE t == task[v][q]
             u == task'[v][q]
  <2>1. /\ Aged(cache[v][q].obj, api[q]) /\ Sound(q, t)
        /\ Known(q, t, api[q], Owned(q), Made(q)) /\ Seen(t, Owned(q))
    BY <1>1 DEF Kept
  <2>2. Aged(cache'[v][q].obj, api'[q])
    BY <1>3, <2>1 DEF Aged
  <2>3. u.pc = t.pc /\ u.obj = t.obj /\ u.seen = t.seen /\ (u.cur => t.cur)
    BY <1>3
  <2> HIDE DEF t, u
  <2>4. /\ Sound(q, u) /\ Known(q, u, api[q], Owned(q), Made(q))
        /\ Seen(u, Owned(q))
    BY <2>1, <2>3, OlderKept
  <2>5. /\ Known(q, u, api'[q], Owned(q)', Made(q)') /\ Seen(u, Owned(q)')
    BY <2>4, FewerKept
  <2>6. QED
    BY <2>2, <2>4, <2>5 DEF u
<1>4. QED
  BY <1>2, <1>3 DEF Kept

\* S3 changes, and no object or reconcile.
LEMMA CloudCustody ==
    ASSUME Custody, Fewer, UNCHANGED <<api, cache, task>>
    PROVE  Custody'
<1>1. ASSUME NEW q \in Resources
      PROVE  Kept(q)'
  BY <1>1, FrameKept DEF Fewer
<1>2. QED
  BY <1>1 DEF Custody

\* A reconcile goes on without a write.
LEMMA GotoCustody ==
    ASSUME Orderly, Custody, Fewer, NEW w \in Workers, NEW r \in Resources, NEW u,
           Goto(w, r, u), Sound(r, u),
           Known(r, u, api[r], Owned(r)', Made(r)'), Seen(u, Owned(r)')
    PROVE  Custody'
<1>1. /\ api' = api /\ cache' = cache
      /\ \A v \in Workers, q \in Resources :
           task'[v][q] = IF v = w /\ q = r THEN u ELSE task[v][q]
  BY GotoEffect DEF Orderly, TypeOK
<1>2. ASSUME NEW q \in Resources, q # r
      PROVE  Kept(q)'
  BY <1>1, <1>2, FrameKept DEF Fewer
<1>3. Kept(r)'
  <2>1. Kept(r)
    BY DEF Custody
  <2>2. Stored(r, api'[r], Owned(r)', Made(r)')
    BY <1>1, <2>1, FewerKept DEF Kept, Fewer
  <2>3. ASSUME NEW v \in Workers
        PROVE  /\ Aged(cache'[v][r].obj, api'[r]) /\ Sound(r, task'[v][r])
               /\ Known(r, task'[v][r], api'[r], Owned(r)', Made(r)')
               /\ Seen(task'[v][r], Owned(r)')
    <3>1. CASE v = w
      BY <1>1, <2>1, <3>1 DEF Kept
    <3>2. CASE v # w
      BY <1>1, <2>1, <3>2, FewerKept DEF Kept, Fewer
    <3>3. QED
      BY <3>1, <3>2
  <2>4. QED
    BY <2>2, <2>3 DEF Kept
<1>4. QED
  BY <1>2, <1>3 DEF Custody

\* A reconcile whose object becomes o.
LEMMA HeirKept ==
    ASSUME NEW r, NEW p, NEW o, NEW t, NEW B, NEW M,
           Known(r, t, p, B, M), Heir(o, p), t.cur => o = p,
           t.pc \in CreateSteps => r \in Orphans \/ o.phase = "live"
    PROVE  Known(r, t, o, B, M)
BY HeirLemma DEF Known

\* A reconcile writes the object and goes on, or ends.
LEMMA SaveCustody ==
    ASSUME Orderly, Custody, UNCHANGED <<s3, lost>>,
           NEW w \in Workers, NEW r \in Resources, NEW o, NEW u, Save(w, r, o, u),
           Stored(r, o, Owned(r), Made(r)), Heir(o, api[r]),
           \/ o.phase = "live" \/ r \in Orphans
           \/ \A v \in Workers : v # w => task[v][r].pc \notin CreateSteps,
           Sound(r, u), Known(r, u, o, Owned(r), Made(r)), Seen(u, Owned(r))
    PROVE  Custody'
<1>1. /\ api'[r] = o /\ task'[w][r] = u
      /\ \A q \in Resources : q # r => api'[q] = api[q]
      /\ \A v \in Workers, q \in Resources :
           /\ cache'[v][q].obj = cache[v][q].obj
           /\ v # w \/ q # r =>
                /\ task'[v][q].pc = task[v][q].pc
                /\ task'[v][q].obj = task[v][q].obj
                /\ task'[v][q].seen = task[v][q].seen
                /\ task'[v][q].cur => task[v][q].cur /\ api'[q] = api[q]
  BY SaveEffect DEF Orderly, TypeOK
<1>2. \A q \in Resources : Made(q)' = Made(q) /\ Owned(q)' = Owned(q)
  BY DEF Made, Owned
<1>3. ASSUME NEW q \in Resources, q # r
      PROVE  Kept(q)'
  BY <1>1, <1>2, <1>3, FrameKept
<1>4. Kept(r)'
  <2>1. Kept(r)
    BY DEF Custody
  <2>2. ASSUME NEW v \in Workers
        PROVE  /\ Aged(cache'[v][r].obj, o) /\ Sound(r, task'[v][r])
               /\ Known(r, task'[v][r], o, Owned(r), Made(r))
               /\ Seen(task'[v][r], Owned(r))
    <3>1. Aged(cache'[v][r].obj, o)
      BY <1>1, <2>1, HeirLemma DEF Kept
    <3>2. CASE v = w
      BY <1>1, <3>1, <3>2
    <3>3. CASE v # w
      <4> DEFINE x == task'[v][r]
      <4>1. /\ Sound(r, task[v][r]) /\ Seen(task[v][r], Owned(r))
            /\ Known(r, task[v][r], api[r], Owned(r), Made(r))
        BY <2>1 DEF Kept
      <4>2. /\ x.pc = task[v][r].pc /\ x.obj = task[v][r].obj
            /\ x.seen = task[v][r].seen
            /\ x.cur => task[v][r].cur /\ o = api[r]
            /\ x.pc \in CreateSteps => r \in Orphans \/ o.phase = "live"
        BY <1>1, <3>3
      <4> HIDE DEF x
      <4>3. /\ Sound(r, x) /\ Known(r, x, api[r], Owned(r), Made(r))
            /\ Seen(x, Owned(r))
        BY <4>1, <4>2, OlderKept
      <4>4. Known(r, x, o, Owned(r), Made(r))
        BY <4>2, <4>3, HeirKept
      <4>5. QED
        BY <3>1, <4>3, <4>4 DEF x
    <3>4. QED
      BY <3>2, <3>3
  <2>3. QED
    BY <1>1, <1>2, <2>2 DEF Kept
<1>5. QED
  BY <1>3, <1>4 DEF Custody

\* Somebody else writes the object.
LEMMA StoreCustody ==
    ASSUME Orderly, Custody, Fewer, NEW r \in Resources, NEW o, Store(r, o),
           Stored(r, o, Owned(r)', Made(r)'), Heir(o, api[r]),
           \/ o.phase = "live"
           \/ \A v \in Workers : task[v][r].pc \notin CreateSteps
    PROVE  Custody'
<1>1. /\ api'[r] = o
      /\ \A q \in Resources : q # r => api'[q] = api[q]
      /\ \A v \in Workers, q \in Resources :
           /\ cache'[v][q].obj = cache[v][q].obj
           /\ task'[v][q].pc = task[v][q].pc
           /\ task'[v][q].obj = task[v][q].obj
           /\ task'[v][q].seen = task[v][q].seen
           /\ task'[v][q].cur => task[v][q].cur /\ api'[q] = api[q]
  BY StoreEffect DEF Orderly, TypeOK
<1>2. ASSUME NEW q \in Resources, q # r
      PROVE  Kept(q)'
  BY <1>1, <1>2, FrameKept DEF Fewer
<1>3. Kept(r)'
  <2>1. Kept(r)
    BY DEF Custody
  <2>2. ASSUME NEW v \in Workers
        PROVE  /\ Aged(cache'[v][r].obj, o) /\ Sound(r, task'[v][r])
               /\ Known(r, task'[v][r], o, Owned(r)', Made(r)')
               /\ Seen(task'[v][r], Owned(r)')
    <3> DEFINE x == task'[v][r]
    <3>1. Aged(cache'[v][r].obj, o)
      BY <1>1, <2>1, HeirLemma DEF Kept
    <3>2. /\ Sound(r, task[v][r]) /\ Seen(task[v][r], Owned(r))
          /\ Known(r, task[v][r], api[r], Owned(r), Made(r))
      BY <2>1 DEF Kept
    <3>3. /\ x.pc = task[v][r].pc /\ x.obj = task[v][r].obj
          /\ x.seen = task[v][r].seen
          /\ x.cur => task[v][r].cur /\ o = api[r]
          /\ x.pc \in CreateSteps => r \in Orphans \/ o.phase = "live"
      BY <1>1
    <3> HIDE DEF x
    <3>4. Owned(r)' \subseteq Owned(r) /\ Made(r)' \subseteq Made(r)
      BY DEF Fewer
    <3>5. Sound(r, x) /\ Known(r, x, api[r], Owned(r), Made(r)) /\ Seen(x, Owned(r))
      BY <3>2, <3>3, OlderKept
    <3>6. Known(r, x, api[r], Owned(r)', Made(r)') /\ Seen(x, Owned(r)')
      BY <3>4, <3>5, FewerKept
    <3>7. Known(r, x, o, Owned(r)', Made(r)')
      BY <3>3, <3>6, HeirKept
    <3>8. QED
      BY <3>1, <3>5, <3>6, <3>7 DEF x
  <2>3. QED
    BY <1>1, <2>2 DEF Kept
<1>4. QED
  BY <1>2, <1>3 DEF Custody

\* A reconcile that is not about to record an outcome ends; if it says that the
\* bucket is removed, it is.
LEMMA EndedCustody ==
    ASSUME Orderly, Custody, Fewer, NEW w \in Workers, NEW r \in Resources,
           NEW u \in Tasks, Goto(w, r, u), task[w][r].pc # "record",
           Ended(task[w][r], u),
           u.cur /\ IsBucketAlreadyDeleted(u.obj) =>
                Removed(u.obj, Owned(r)', Made(r)')
    PROVE  Custody'
<1> DEFINE t == task[w][r]
<1>1. Sound(r, t) /\ Known(r, t, api[r], Owned(r), Made(r))
  BY DEF Custody, Kept
<1>2. /\ u.pc = "status" /\ u.cur = t.cur /\ u.seen = "unknown"
      /\ u.obj.deleting = t.obj.deleting /\ u.obj.note = t.obj.note
      /\ u.obj.spec = t.obj.spec
  BY DEF Ended, Alike
<1> HIDE DEF t
<1>3. Sound(r, u) /\ Seen(u, Owned(r)')
  BY <1>2 DEF Sound, Seen, CreateSteps
<1>4. Known(r, u, api[r], Owned(r)', Made(r)')
  BY <1>1, <1>2 DEF Known, Aged, CreateSteps, t
<1>5. QED
  BY <1>3, <1>4, GotoCustody

------------------------------------------------------------------------------
(* The calls of a reconcile. *)

\* What Orderly and Custody say of one reconcile and its object.
LEMMA KeptFacts ==
    ASSUME Orderly, Custody, NEW w \in Workers, NEW r \in Resources
    PROVE  LET t == task[w][r]
           IN  /\ TypeOK /\ Exclusion
               /\ Told(api[r]) /\ Told(cache[w][r].obj) /\ Told(t.obj) /\ Directed(t)
               /\ t.cur => t.obj.deleting = api[r].deleting
               /\ Stored(r, api[r], Owned(r), Made(r))
               /\ Aged(cache[w][r].obj, api[r])
               /\ Sound(r, t) /\ Known(r, t, api[r], Owned(r), Made(r))
               /\ Seen(t, Owned(r))
BY DEF Orderly, Requests, Custody, Kept

\* A step that leaves S3 alone gives nobody a bucket.
LEMMA UnchangedFewer ==
    ASSUME UNCHANGED <<s3, lost>>
    PROVE  Fewer /\ \A q \in Resources : Owned(q)' = Owned(q) /\ Made(q)' = Made(q)
BY DEF Fewer, Owned, Made

\* A bucket that is not there was made by nobody.
LEMMA NoMaker ==
    ASSUME NEW n, ~Exists(n), NEW r \in Resources
    PROVE  s3[n].creator # r
<1>1. s3[n].creator = None
  BY DEF Exists, NoBucket
<1>2. QED
  BY <1>1, BucketAssumption

\* Connect leaves everything to Observe, or ends the reconcile.
LEMMA ConnectCustody ==
    ASSUME Orderly, Custody, NEW w \in Workers, NEW r \in Resources,
           ConnectNoop(w, r) \/ Connect(w, r)
    PROVE  Custody'
<1> DEFINE t == task[w][r]
           B == Owned(r)
           M == Made(r)
<1>1. /\ TypeOK /\ Sound(r, t) /\ Known(r, t, api[r], B, M) /\ Seen(t, B)
  BY KeptFacts
<1>2. t.pc = "connect" /\ UNCHANGED <<s3, lost>>
  BY DEF ConnectNoop, Connect
<1>3. Fewer /\ Owned(r)' = B /\ Made(r)' = M
  BY <1>2, UnchangedFewer
<1>4. PICK u \in Tasks :
          /\ Goto(w, r, u) /\ u.cur = t.cur
          /\ \/ Failed(t, u)
             \/ u.pc = "observe" /\ u.obj = t.obj /\ u.seen = t.seen
  BY <1>1, ConnectEffect
<1> HIDE DEF B, M
<1>5. CASE Failed(t, u)
  BY <1>2, <1>3, <1>4, <1>5, EndedCustody DEF Failed, IsBucketAlreadyDeleted
<1>6. CASE u.pc = "observe" /\ u.obj = t.obj
  <2> HIDE DEF t
  <2>1. Sound(r, u)
    BY <1>1, <1>2, <1>6 DEF Sound
  <2>2. Known(r, u, api[r], B, M)
    BY <1>1, <1>2, <1>4, <1>6 DEF Known, CreateSteps
  <2>3. Seen(u, B)
    BY <1>6 DEF Seen, CreateSteps
  <2>4. QED
    BY <1>3, <1>4, <2>1, <2>2, <2>3, GotoCustody
<1>7. QED
  BY <1>4, <1>5, <1>6

\* Observe sees no bucket where there is none, and else takes it only by its lock.
LEMMA ObserveCustody ==
    ASSUME Orderly, Custody, NEW w \in Workers, NEW r \in Resources,
           ObserveNoop(w, r) \/ ObserveBucket(w, r)
    PROVE  Custody'
<1> DEFINE t == task[w][r]
           n == GetBucketName(r, t.obj.spec)
           B == Owned(r)
           M == Made(r)
<1>1. /\ TypeOK /\ Sound(r, t) /\ Known(r, t, api[r], B, M) /\ Seen(t, B)
      /\ Directed(t) /\ Stored(r, api[r], B, M)
  BY KeptFacts
<1>2. t.pc = "observe" /\ UNCHANGED <<s3, lost>>
  BY DEF ObserveNoop, ObserveBucket
<1>3. Fewer /\ Owned(r)' = B /\ Made(r)' = M
  BY <1>2, UnchangedFewer
<1>4. PICK u \in Tasks :
          /\ Goto(w, r, u) /\ u.cur = t.cur
          /\ \/ Failed(t, u)
             \/ /\ u.obj = t.obj /\ u.seen = "missing"
                /\ u.pc \in {"publish", "finalize"}
                /\ t.ctx = "noop" \/ ~Exists(n)
             \/ /\ u.obj = Found(r, t.obj) /\ HasLock(t.obj) /\ u.seen = "current"
                /\ \/ u.pc = "publish"
                   \/ u.pc = "delete" /\ t.obj.deleting
                   \/ /\ u.pc = "removeObjects" /\ t.obj.deleting
                      /\ HasDeleteAllPolicy(t.obj.spec)
  BY <1>1, ObserveEffect
<1>5. CASE Failed(t, u)
  BY <1>2, <1>3, <1>4, <1>5, EndedCustody DEF Failed, IsBucketAlreadyDeleted
<1>6. CASE /\ u.obj = t.obj /\ u.seen = "missing" /\ u.pc \in {"publish", "finalize"}
           /\ t.ctx = "noop" \/ ~Exists(n)
  <2>1. t.cur => B = {}
    <3>1. CASE t.ctx = "noop"
      BY <1>1, <1>2, <3>1 DEF Directed, Known, Removed
    <3>2. CASE ~Exists(n) /\ t.cur
      <4>1. n \notin B
        BY <3>2, NoMaker DEF Owned, Made
      <4>2. B \subseteq {n}
        BY <1>1, <3>2 DEF Known, Stored
      <4>3. QED
        BY <4>1, <4>2
    <3>3. QED
      BY <1>6, <3>1, <3>2
  <2> HIDE DEF t, B, M
  <2>2. Sound(r, u)
    BY <1>1, <1>2, <1>6 DEF Sound
  <2>3. Known(r, u, api[r], B, M)
    BY <1>1, <1>2, <1>4, <1>6 DEF Known, CreateSteps
  <2>4. Seen(u, B)
    BY <1>4, <1>6, <2>1 DEF Seen, CreateSteps
  <2>5. QED
    BY <1>3, <1>4, <2>2, <2>3, <2>4, GotoCustody
<1>7. CASE /\ u.obj = Found(r, t.obj) /\ HasLock(t.obj) /\ u.seen = "current"
           /\ \/ u.pc = "publish"
              \/ u.pc = "delete" /\ t.obj.deleting
              \/ /\ u.pc = "removeObjects" /\ t.obj.deleting
                 /\ HasDeleteAllPolicy(t.obj.spec)
  <2>1. t.obj \in Lives
    BY <1>1, <1>2, TaskTypes
  <2>2. /\ u.obj.status = GetBucketName(r, t.obj.spec) /\ u.obj.ready = "Available"
        /\ u.obj.deleting = t.obj.deleting /\ u.obj.spec = t.obj.spec
        /\ u.obj.creation = t.obj.creation /\ u.obj.note = t.obj.note
    BY <1>7, <2>1, FoundEffect
  <2> HIDE DEF t, B, M, n
  <2>3. Sound(r, u)
    BY <1>1, <1>2, <1>7, <2>2 DEF Sound, HasLock
  <2>4. Known(r, u, api[r], B, M)
    BY <1>1, <1>2, <1>4, <1>7, <2>2
       DEF Known, CreateSteps, Aged, IsBucketAlreadyDeleted
  <2>5. Seen(u, B)
    BY <1>7 DEF Seen, CreateSteps
  <2>6. QED
    BY <1>3, <1>4, <2>3, <2>4, <2>5, GotoCustody
<1>8. QED
  BY <1>4, <1>5, <1>6, <1>7

\* Publish passes on what Observe has seen.
LEMMA PublishCustody ==
    ASSUME Orderly, Custody, NEW w \in Workers, NEW r \in Resources, Publish(w, r)
    PROVE  Custody'
<1> DEFINE t == task[w][r]
           B == Owned(r)
           M == Made(r)
<1>1. /\ TypeOK /\ Sound(r, t) /\ Known(r, t, api[r], B, M) /\ Seen(t, B)
      /\ Directed(t) /\ Told(t.obj)
  BY KeptFacts
<1>2. t.pc \in {"publish", "publishCreated"} /\ UNCHANGED <<s3, lost>>
  BY DEF Publish
<1>3. Fewer /\ Owned(r)' = B /\ Made(r)' = M
  BY <1>2, UnchangedFewer
<1>4. PICK u \in Tasks :
          /\ Goto(w, r, u) /\ u.cur = t.cur
          /\ \/ /\ Ended(t, u)
                /\ u.obj.ready = "Deleting" =>
                     t.pc = "publish" /\ t.obj.ready = "Deleting"
             \/ /\ t.pc = "publish" /\ u.obj = t.obj
                /\ \/ u.pc = "addFinalizer" /\ u.seen = t.seen
                   \/ u.pc = "pending" /\ u.seen = "missing" /\ t.seen = "missing"
                   \/ u.pc = "update"
  BY <1>1, PublishEffect
<1> HIDE DEF B, M
<1>5. CASE /\ Ended(t, u)
           /\ u.obj.ready = "Deleting" => t.pc = "publish" /\ t.obj.ready = "Deleting"
  <2>1. ~IsBucketAlreadyDeleted(u.obj)
    BY <1>1, <1>5 DEF IsBucketAlreadyDeleted, Told, Directed
  <2>2. QED
    BY <1>2, <1>3, <1>4, <1>5, <2>1, EndedCustody
<1>6. CASE /\ t.pc = "publish" /\ u.obj = t.obj
           /\ \/ u.pc = "addFinalizer" /\ u.seen = t.seen
              \/ u.pc = "pending" /\ u.seen = "missing" /\ t.seen = "missing"
              \/ u.pc = "update"
  <2> HIDE DEF t
  <2>1. Sound(r, u)
    BY <1>1, <1>6 DEF Sound
  <2>2. Known(r, u, api[r], B, M)
    BY <1>1, <1>4, <1>6 DEF Known, CreateSteps
  <2>3. Seen(u, B)
    BY <1>1, <1>4, <1>6 DEF Seen, CreateSteps
  <2>4. QED
    BY <1>3, <1>4, <2>1, <2>2, <2>3, GotoCustody
<1>7. QED
  BY <1>4, <1>5, <1>6

\* While a resource's bucket is made, the stored object awaits its outcome.
LEMMA Awaited ==
    ASSUME Orderly, Custody, NEW w \in Workers, NEW r \in Resources,
           task[w][r].pc \in CreateSteps
    PROVE  /\ api[r].phase = "gone" => api[r] = Gone /\ r \in Orphans
           /\ api[r].phase # "gone" =>
                api[r].phase = "live" /\ api[r].creation = "pending" /\ api[r].finalizer
           /\ ~IsBucketAlreadyDeleted(api[r])
<1> DEFINE t == task[w][r]
<1>1. /\ TypeOK /\ Exclusion /\ Stored(r, api[r], Owned(r), Made(r))
      /\ Known(r, t, api[r], Owned(r), Made(r))
  BY KeptFacts
<1>2. api[r].phase = "gone" \/ (api[r].creation = "pending" /\ api[r].finalizer)
  BY <1>1 DEF Exclusion, CreationAnnounced
<1>3. api[r] \in {Blank, Gone} \cup Lives
  BY <1>1 DEF TypeOK, ReconcilerType
<1>4. CASE api[r].phase = "gone"
  <2>1. api[r] = Gone
    BY <1>3, <1>4 DEF Blank, Lives, LiveObjects
  <2>2. r \in Orphans
    BY <1>1, <1>4 DEF Known
  <2>3. QED
    BY <1>4, <2>1, <2>2 DEF Gone, Blank, IsBucketAlreadyDeleted
<1>5. CASE api[r].phase # "gone"
  <2>1. api[r].creation = "pending" /\ api[r].finalizer
    BY <1>2, <1>5
  <2>2. api[r].phase = "live"
    BY <1>3, <2>1 DEF Blank, Gone, Lives, LiveObjects
  <2>3. ~IsBucketAlreadyDeleted(api[r])
    BY <1>1, <2>1 DEF Stored, Removed
  <2>4. QED
    BY <1>5, <2>1, <2>2, <2>3
<1>6. QED
  BY <1>4, <1>5

\* A bucket is made for r by the one reconcile that may, and r had none.  The
\* resource knows of it, unless its name was edited or the answer was lost.
LEMMA MakeCustody ==
    ASSUME Orderly, Custody, NEW w \in Workers, NEW r \in Resources, NEW u,
           task[w][r].pc = "create", Goto(w, r, u), NewBucket(r, task[w][r]),
           Sound(r, u), Known(r, u, api[r], {}, {}), u.pc = "record",
           ~IsBucketAlreadyDeleted(u.obj), lost \subseteq lost',
           \/ GetBucketName(r, task[w][r].obj.spec) \in lost'
           \/ /\ u.obj.note = "claimed"
              /\ api[r].phase = "live" =>
                   Owned(r)' \subseteq {GetBucketName(r, api[r].spec)}
    PROVE  Custody'
<1> DEFINE t == task[w][r]
           n == GetBucketName(r, t.obj.spec)
           B == Owned(r)'
           M == Made(r)'
<1>1. /\ TypeOK /\ Exclusion /\ Stored(r, api[r], Owned(r), Made(r))
      /\ Known(r, t, api[r], Owned(r), Made(r)) /\ Seen(t, Owned(r))
  BY KeptFacts
<1>2. /\ api' = api /\ cache' = cache
      /\ \A v \in Workers, q \in Resources :
           task'[v][q] = IF v = w /\ q = r THEN u ELSE task[v][q]
  BY <1>1, GotoEffect DEF TypeOK
<1>3. /\ ~Exists(n) /\ s3 \in [BucketNames -> Buckets]
      /\ s3' = [s3 EXCEPT ![n] = [region |-> t.obj.spec.region, account |-> t.ctx,
                                  creator |-> r, objects |-> FALSE]]
  BY <1>1 DEF NewBucket, TypeOK
<1> HIDE DEF n
<1>4. \A m \in BucketNames : s3'[m].creator = IF m = n THEN r ELSE s3[m].creator
  BY <1>3
<1>5. \A q \in Resources : q # r =>
          Made(q)' \subseteq Made(q) /\ Owned(q)' \subseteq Owned(q)
  BY <1>4 DEF Made, Owned
<1>6. M \subseteq Made(r) \cup {n} /\ B \subseteq {n}
  <2>1. M \subseteq Made(r) \cup {n}
    BY <1>4 DEF Made
  <2>2. Made(r) \ lost' \subseteq Owned(r)
    BY DEF Owned
  <2>3. Owned(r) = {}
    BY <1>1 DEF Seen
  <2>4. QED
    BY <2>1, <2>2, <2>3 DEF Owned
<1>7. \/ B = {}
      \/ /\ u.obj.note = "claimed"
         /\ api[r].phase = "live" => B \subseteq {GetBucketName(r, api[r].spec)}
  BY <1>6 DEF Owned, n
<1>8. t.pc \in CreateSteps
  BY DEF CreateSteps
<1>9. /\ api[r].phase = "gone" => r \in Orphans
      /\ api[r].phase # "gone" =>
           api[r].phase = "live" /\ api[r].creation = "pending" /\ api[r].finalizer
      /\ ~IsBucketAlreadyDeleted(api[r])
  BY <1>8, Awaited
<1> HIDE DEF B, M
<1>10. Stored(r, api[r], B, M)
  <2>1. \A x, y \in B : x = y
    BY <1>6
  <2>2. QED
    BY <1>7, <1>9, <2>1 DEF Stored
<1>11. ASSUME NEW v \in Workers, v # w
       PROVE  /\ Aged(cache[v][r].obj, api[r]) /\ Sound(r, task[v][r])
              /\ Known(r, task[v][r], api[r], B, M) /\ Seen(task[v][r], B)
  <2> DEFINE x == task[v][r]
  <2>1. /\ Aged(cache[v][r].obj, api[r]) /\ Sound(r, x)
        /\ Known(r, x, api[r], Owned(r), Made(r)) /\ Seen(x, Owned(r))
    BY KeptFacts
  <2>2. x.pc \notin CreateSteps
    BY <1>1, <1>8, <1>11 DEF Exclusion, CreateIsExclusive
  <2>3. x.cur => x.obj.creation = "pending"
    <3>1. x.pc # "record"
      BY <2>2 DEF CreateSteps
    <3>2. x.cur => x.obj.creation = api[r].creation /\ api[r].phase = "live"
      BY <1>1, <2>1, <3>1 DEF Exclusion, TasksAgree, Known
    <3>3. QED
      BY <1>9, <3>2
  <2> HIDE DEF x
  <2>4. x.cur => ~IsBucketAlreadyDeleted(x.obj) /\ x.seen = "unknown"
    BY <2>1, <2>2, <2>3 DEF Known, Removed, Sound, CreateSteps
  <2>5. Known(r, x, api[r], B, M)
    BY <2>1, <2>4 DEF Known
  <2>6. Seen(x, B)
    BY <2>2, <2>4 DEF Seen, CreateSteps
  <2>7. QED
    BY <2>1, <2>5, <2>6 DEF x
<1>12. Aged(cache[w][r].obj, api[r])
  BY KeptFacts
<1>13. Known(r, u, api[r], B, M) /\ Seen(u, B)
  BY <1>7 DEF Known, Seen, CreateSteps
<1>14. Kept(r)'
  <2>1. Stored(r, api'[r], Owned(r)', Made(r)')
    BY <1>2, <1>10 DEF B, M
  <2>2. ASSUME NEW v \in Workers
        PROVE  /\ Aged(cache'[v][r].obj, api'[r]) /\ Sound(r, task'[v][r])
               /\ Known(r, task'[v][r], api'[r], Owned(r)', Made(r)')
               /\ Seen(task'[v][r], Owned(r)')
    <3>1. CASE v = w
      BY <1>2, <1>12, <1>13, <3>1 DEF B, M
    <3>2. CASE v # w
      BY <1>2, <1>11, <3>2 DEF B, M
    <3>3. QED
      BY <3>1, <3>2
  <2>3. QED
    BY <2>1, <2>2 DEF Kept
<1>15. ASSUME NEW q \in Resources, q # r
       PROVE  Kept(q)'
  BY <1>2, <1>5, <1>15, FrameKept
<1>16. QED
  BY <1>14, <1>15 DEF Custody

\* Create.
LEMMA CreateCustody ==
    ASSUME Orderly, Custody, NEW w \in Workers, NEW r \in Resources,
           MakeBucket(w, r) \/ MakeExistingBucket(w, r) \/ CreateFails(w, r)
    PROVE  Custody'
<1> DEFINE t == task[w][r]
           n == GetBucketName(r, t.obj.spec)
           B == Owned(r)
           M == Made(r)
<1>1. /\ TypeOK /\ Sound(r, t) /\ Known(r, t, api[r], B, M) /\ Seen(t, B)
      /\ Directed(t) /\ Told(t.obj)
  BY KeptFacts
<1>2. t.pc = "create" /\ t \in Tasks
  BY <1>1, CreateEffect, TaskTypes
<1>3. PICK u \in Tasks :
          /\ Goto(w, r, u) /\ u.pc = "record" /\ u.cur = t.cur
          /\ u.obj.deleting = t.obj.deleting
          /\ u.obj.spec = t.obj.spec
          /\ u.obj.ready = t.obj.ready /\ u.obj.creation # "pending"
          /\ \/ UNCHANGED <<s3, lost>>
             \/ NewBucket(r, t) /\ lost' = lost \cup {n}
             \/ /\ NewBucket(r, t) /\ u.obj.note = "claimed"
                /\ lost' = IF api[r].phase = "live"
                           THEN lost \cup Disowned(r, api[r].spec, s3') ELSE lost
  BY <1>1, CreateEffect
<1>4. ~IsBucketAlreadyDeleted(u.obj)
  BY <1>1, <1>2, <1>3 DEF IsBucketAlreadyDeleted, Told, Directed
<1>5. Sound(r, u) /\ \A C, N : Known(r, u, api[r], C, N)
  <2> HIDE DEF t, B, M
  <2>1. Sound(r, u)
    BY <1>3 DEF Sound
  <2>2. \A C, N : Known(r, u, api[r], C, N)
    BY <1>1, <1>2, <1>3, <1>4 DEF Known, CreateSteps
  <2>3. QED
    BY <2>1, <2>2
<1>6. CASE UNCHANGED <<s3, lost>>
  <2>1. Fewer /\ Owned(r)' = B
    BY <1>6, UnchangedFewer
  <2> HIDE DEF t, B, M
  <2>2. Seen(u, B)
    BY <1>1, <1>2, <1>3 DEF Seen
  <2>3. QED
    BY <1>3, <1>5, <2>1, <2>2, GotoCustody
<1>7. CASE NewBucket(r, t) /\ lost' = lost \cup {n}
  BY <1>2, <1>3, <1>4, <1>5, <1>7, MakeCustody
<1>8. CASE /\ NewBucket(r, t) /\ u.obj.note = "claimed"
           /\ lost' = IF api[r].phase = "live"
                      THEN lost \cup Disowned(r, api[r].spec, s3') ELSE lost
  <2>1. ASSUME api[r].phase = "live"
        PROVE  Owned(r)' \subseteq {GetBucketName(r, api[r].spec)}
    BY <1>8, <2>1 DEF Owned, Made, Disowned
  <2>2. lost \subseteq lost'
    BY <1>8
  <2>3. QED
    BY <1>2, <1>3, <1>4, <1>5, <1>8, <2>1, <2>2, MakeCustody
<1>9. QED
  BY <1>3, <1>6, <1>7, <1>8

\* Removing objects or a bucket gives nobody a bucket.
LEMMA RemovalFewer ==
    ASSUME TypeOK, NEW n,
           \/ UNCHANGED <<s3, lost>>
           \/ Exists(n) /\ s3' = [s3 EXCEPT ![n].objects = FALSE] /\ UNCHANGED lost
           \/ s3' = [s3 EXCEPT ![n] = NoBucket] /\ lost' = lost \ {n}
    PROVE  Fewer
<1>1. CASE UNCHANGED <<s3, lost>>
  BY <1>1, UnchangedFewer
<1>2. CASE Exists(n) /\ s3' = [s3 EXCEPT ![n].objects = FALSE] /\ UNCHANGED lost
  <2>1. \A m \in BucketNames : s3'[m].creator = s3[m].creator
    <3>1. \A m \in BucketNames : s3[m] \in Buckets /\ s3'[m] =
             IF m = n THEN [s3[m] EXCEPT !.objects = FALSE] ELSE s3[m]
      BY <1>2 DEF TypeOK
    <3>2. \A b \in Buckets : [b EXCEPT !.objects = FALSE].creator = b.creator
      BY DEF Buckets, NoBucket
    <3>3. QED
      BY <3>1, <3>2
  <2>2. QED
    BY <1>2, <2>1 DEF Fewer, Made, Owned
<1>3. CASE s3' = [s3 EXCEPT ![n] = NoBucket] /\ lost' = lost \ {n}
  <2>1. \A m \in BucketNames : s3'[m] = IF m = n THEN NoBucket ELSE s3[m]
    BY <1>3 DEF TypeOK
  <2>2. \A q \in Resources : NoBucket.creator # q
    BY BucketAssumption DEF NoBucket
  <2>3. \A q \in Resources : Made(q)' \subseteq Made(q) \ {n}
    BY <2>1, <2>2 DEF Made
  <2>4. QED
    BY <1>3, <2>3 DEF Fewer, Owned
<1>4. QED
  BY <1>1, <1>2, <1>3

\* Delete.  A reconcile says that the bucket is removed only after it removed the
\* one that the status names, which is the only one the resource has.
LEMMA DeleteCustody ==
    ASSUME Orderly, Custody, NEW w \in Workers, NEW r \in Resources,
           \/ RemoveObjects(w, r) \/ ListingFails(w, r) \/ RemoveObjectsFails(w, r)
           \/ RemoveBucket(w, r) \/ RemoveBucketRefused(w, r) \/ RemoveAnswerLost(w, r)
    PROVE  Custody'
<1> DEFINE t == task[w][r]
           n == t.obj.status
           removed == /\ Exists(n) /\ s3' = [s3 EXCEPT ![n] = NoBucket]
                      /\ lost' = lost \ {n}
<1>1. /\ TypeOK /\ Sound(r, t) /\ Known(r, t, api[r], Owned(r), Made(r))
      /\ Seen(t, Owned(r)) /\ Stored(r, api[r], Owned(r), Made(r))
  BY KeptFacts, SMTT(30)
<1>2. /\ t.pc \in {"removeObjects", "delete"}
      /\ \/ UNCHANGED <<s3, lost>>
         \/ /\ Exists(n) /\ s3' = [s3 EXCEPT ![n].objects = FALSE]
            /\ UNCHANGED lost
         \/ removed
  BY <1>1, DeleteEffect
<1>3. t \in Tasks /\ t.obj.spec \in Specs
  BY <1>1, <1>2, TaskTypes
<1>4. PICK u \in Tasks :
          /\ Goto(w, r, u) /\ u.cur = t.cur
          /\ \/ Failed(t, u)
             \/ /\ t.pc = "removeObjects" /\ u.pc = "delete"
                /\ u.obj = t.obj /\ u.ctx = t.ctx /\ u.seen = t.seen
             \/ /\ t.pc = "delete" /\ removed /\ Ended(t, u)
                /\ u.obj.ready = "Deleting" /\ u.obj.synced = "Success"
  BY <1>1, DeleteEffect
<1>5. n = GetBucketName(r, t.obj.spec) /\ n \in BucketNames /\ n # None
  <2>1. n = GetBucketName(r, t.obj.spec)
    BY <1>1, <1>2 DEF Sound
  <2>2. QED
    BY <1>3, <2>1, NameTypes
<1>6. Fewer
  <2> HIDE DEF n
  <2>1. QED
    BY <1>1, <1>2, RemovalFewer
<1>7. CASE Failed(t, u)
  BY <1>2, <1>4, <1>6, <1>7, EndedCustody DEF Failed, IsBucketAlreadyDeleted
<1>8. CASE /\ t.pc = "removeObjects" /\ u.pc = "delete"
           /\ u.obj = t.obj /\ u.seen = t.seen
  <2>1. Known(r, t, api[r], Owned(r)', Made(r)')
    BY <1>1, <1>6, FewerKept DEF Fewer
  <2> HIDE DEF t
  <2>2. Sound(r, u)
    BY <1>1, <1>8 DEF Sound
  <2>3. Known(r, u, api[r], Owned(r)', Made(r)')
    BY <1>4, <1>8, <2>1 DEF Known, CreateSteps
  <2>4. Seen(u, Owned(r)')
    BY <1>8 DEF Seen, CreateSteps
  <2>5. QED
    BY <1>4, <1>6, <2>2, <2>3, <2>4, GotoCustody
<1>9. CASE t.pc = "delete" /\ removed /\ Ended(t, u)
  <2>1. u.obj.creation # "pending" /\ u.obj.status = n
    BY <1>1, <1>9 DEF Sound, Ended, Alike
  <2>2. n \notin Made(r)'
    <3>1. s3'[n] = NoBucket
      BY <1>1, <1>5, <1>9 DEF TypeOK
    <3>2. QED
      BY <3>1, BucketAssumption DEF Made, NoBucket
  <2>3. t.cur => Owned(r)' = {}
    <3>1. t.cur => Owned(r) \subseteq {n}
      BY <1>1, <1>5 DEF Known, Stored
    <3>2. Owned(r)' \subseteq Owned(r) \ {n}
      BY <1>6, <2>2 DEF Fewer, Owned
    <3>3. QED
      BY <3>1, <3>2
  <2> HIDE DEF n
  <2>4. u.cur => Removed(u.obj, Owned(r)', Made(r)')
    BY <1>4, <1>5, <2>1, <2>2, <2>3 DEF Removed
  <2>5. QED
    BY <1>4, <1>6, <1>9, <2>4, EndedCustody
<1>10. QED
  BY <1>4, <1>7, <1>8, <1>9

------------------------------------------------------------------------------
(* The reads and writes of a reconcile. *)

\* A reconcile that is over holds nothing.
LEMMA IdleKept ==
    ASSUME NEW r, NEW now, NEW B, NEW M
    PROVE  Sound(r, Idle) /\ Known(r, Idle, now, B, M) /\ Seen(Idle, B)
<1>1. /\ Idle.pc = "idle" /\ Idle.cur = FALSE /\ ~Idle.obj.deleting
      /\ Idle.obj.note = None /\ Idle.obj.creation = "none" /\ Idle.seen = "unknown"
  BY DEF Idle, Blank
<1>2. Sound(r, Idle) /\ Seen(Idle, B)
  BY <1>1 DEF Sound, Seen, CreateSteps
<1>3. Known(r, Idle, now, B, M)
  BY <1>1 DEF Known, CreateSteps, Aged
<1>4. QED
  BY <1>2, <1>3

\* An object that differs from p in nothing that buckets depend on.
LEMMA StoredAlike ==
    ASSUME NEW r, NEW o, NEW p, NEW B, NEW M, Stored(r, p, B, M),
           o.phase = "live", p.phase = "live", o.spec = p.spec,
           B # {} => o.finalizer,
           B # {} /\ r \notin Orphans => o.creation = "pending" \/ o.note = "claimed",
           IsBucketAlreadyDeleted(o) => Removed(o, B, M)
    PROVE  Stored(r, o, B, M)
BY DEF Stored

\* A reconcile begins with the copy in the cache, whatever its age.
LEMMA BeginCustody ==
    ASSUME Orderly, Custody, NEW w \in Workers, NEW r \in Resources, Begin(w, r),
           UNCHANGED <<s3, lost>>
    PROVE  Custody'
<1> DEFINE c == cache[w][r]
           u == FirstStep(r, [Idle EXCEPT !.pc = "connect", !.obj = c.obj, !.cur = c.cur])
           B == Owned(r)
           M == Made(r)
<1>1. /\ TypeOK /\ Exclusion /\ Aged(c.obj, api[r]) /\ Stored(r, api[r], B, M)
  BY KeptFacts
<1>2. c.obj.phase = "live" /\ (c.cur => c.obj = api[r])
  BY <1>1 DEF Begin, Exclusion, CachesAgree
<1>3. /\ Goto(w, r, u) /\ u.cur = c.cur /\ u.seen = "unknown"
      /\ u.obj.note = c.obj.note /\ u.obj.deleting = c.obj.deleting
      /\ u.obj.spec = c.obj.spec
      /\ \/ u.pc = "finalize" /\ u.obj = c.obj /\ r \in Orphans
         \/ u.pc = "status" /\ u.obj.ready = "Creating"
         \/ /\ u.pc = "connect" /\ u.obj = c.obj /\ c.obj.creation # "pending"
            /\ ~(u.obj.deleting /\ r \in Orphans)
  BY <1>1, Begun, ZenonT(40)
<1>4. Fewer /\ Owned(r)' = B /\ Made(r)' = M
  BY UnchangedFewer
<1> HIDE DEF c, u, B, M
<1>5. Sound(r, u) /\ Seen(u, B)
  BY <1>3 DEF Sound, Seen, CreateSteps
<1>6. Known(r, u, api[r], B, M)
  <2>1. Aged(u.obj, api[r])
    BY <1>1, <1>3 DEF Aged
  <2>2. c.cur => c.obj.phase = "live" /\
                 (IsBucketAlreadyDeleted(c.obj) => Removed(c.obj, B, M))
    BY <1>1, <1>2 DEF Stored
  <2>3. u.cur /\ IsBucketAlreadyDeleted(u.obj) => Removed(u.obj, B, M)
    BY <1>3, <2>2 DEF IsBucketAlreadyDeleted
  <2>4. QED
    BY <1>2, <1>3, <2>1, <2>3 DEF Known, CreateSteps
<1>7. QED
  BY <1>3, <1>4, <1>5, <1>6, GotoCustody

\* The steps that write nothing.
LEMMA ReadCustody ==
    ASSUME Orderly, Custody, NEW w \in Workers, NEW r \in Resources,
           UNCHANGED <<s3, lost>>,
           \/ Sync(w, r) \/ Begin(w, r) \/ Conflict(w, r) \/ Abandon(w, r)
           \/ CallFails(w, r, Calls(task[w][r]))
    PROVE  Custody'
<1> DEFINE t == task[w][r]
<1>1. TypeOK
  BY KeptFacts
<1>2. Fewer /\ \A q \in Resources : Owned(q)' = Owned(q) /\ Made(q)' = Made(q)
  BY UnchangedFewer
<1>3. CASE Sync(w, r)
  <2>1. /\ api' = api /\ task' = task
        /\ cache' = [cache EXCEPT ![w][r] = [obj |-> api[r], cur |-> TRUE]]
    BY <1>3 DEF Sync
  <2>2. \A v \in Workers, q \in Resources :
          cache'[v][q].obj \in {cache[v][q].obj, api[q]}
    BY <1>1, <2>1 DEF TypeOK, ReconcilerType
  <2>3. ASSUME NEW q \in Resources
        PROVE  Kept(q)'
    BY <1>2, <2>1, <2>2, <2>3, FrameKept
  <2>4. QED
    BY <2>3 DEF Custody
<1>4. CASE Begin(w, r)
  BY <1>4, BeginCustody
<1>5. CASE Conflict(w, r) \/ Abandon(w, r)
  <2>1. Goto(w, r, Idle)
    BY <1>5 DEF Conflict, Abandon
  <2>2. QED
    BY <1>2, <2>1, IdleKept, GotoCustody
<1>6. CASE CallFails(w, r, Calls(t))
  <2>1. Goto(w, r, OnError(t)) /\ t.pc # "record" /\ t.pc # "idle"
    BY <1>6 DEF CallFails, Calls
  <2>2. OnError(t) \in Tasks /\ Failed(t, OnError(t))
    BY <1>1, <2>1, TaskTypes, EndedEffect
  <2>3. QED
    BY <1>2, <2>1, <2>2, EndedCustody DEF Failed, IsBucketAlreadyDeleted
<1>7. QED
  BY <1>3, <1>4, <1>5, <1>6

\* The writes that lead up to Create are made from current copies, of an object
\* that is not being deleted; the last is made only where no bucket was seen.
LEMMA PrepareCustody ==
    ASSUME Orderly, Custody, NEW w \in Workers, NEW r \in Resources,
           UNCHANGED <<s3, lost>>, AddFinalizer(w, r) \/ MarkPending(w, r)
    PROVE  Custody'
<1> DEFINE t == task[w][r]
           B == Owned(r)
           M == Made(r)
<1>1. /\ TypeOK /\ Exclusion /\ Stored(r, api[r], B, M)
      /\ Sound(r, t) /\ Known(r, t, api[r], B, M) /\ Seen(t, B)
      /\ Told(api[r]) /\ Directed(t) /\ (t.cur => t.obj.deleting = api[r].deleting)
  BY KeptFacts
<1>2. t.pc \in {"addFinalizer", "pending"} /\ t.cur /\ api[r].phase = "live"
  BY DEF AddFinalizer, MarkPending, WriteAccepted
<1>3. /\ ~t.obj.deleting /\ ~api[r].deleting /\ api[r].ready # "Deleting"
      /\ t.obj.spec = api[r].spec /\ t.obj.note = api[r].note
      /\ t.obj.creation = api[r].creation /\ t.obj.creation # "pending"
  BY <1>1, <1>2 DEF Directed, Told, Known, Sound, Exclusion, TasksAgree
<1>4. CASE AddFinalizer(w, r)
  <2>1. t.pc = "addFinalizer"
    BY <1>4 DEF AddFinalizer
  <2>2. PICK o, u :
           /\ Save(w, r, o, u) /\ o.phase = "live" /\ o.finalizer
           /\ o.deleting = t.obj.deleting /\ o.spec = t.obj.spec
           /\ o.creation = t.obj.creation /\ o.note = t.obj.note
           /\ o.status = api[r].status /\ o.ready = api[r].ready
           /\ o.synced = api[r].synced
           /\ u.cur = t.cur /\ u.obj.finalizer
           /\ u.obj.deleting = t.obj.deleting /\ u.obj.spec = t.obj.spec
           /\ u.obj.creation = t.obj.creation /\ u.obj.note = t.obj.note
           /\ u.obj.status \in {t.obj.status, api[r].status}
           /\ u.obj.ready = api[r].ready
           /\ \/ /\ u.pc = "pending" /\ u.seen = "missing"
                 /\ t.seen = "missing" /\ u.ctx = t.ctx
              \/ u.pc = "update" /\ u.seen = "outdated"
              \/ u.pc = "status" /\ u.seen = "unknown"
    BY <1>1, <1>4, StepsType, AddFinalizerEffect DEF TypeOK, Lives
  <2> HIDE DEF t, B, M
  <2>3. ~IsBucketAlreadyDeleted(o) /\ ~IsBucketAlreadyDeleted(u.obj)
    BY <1>3, <2>2 DEF IsBucketAlreadyDeleted
  <2>4. Stored(r, o, B, M)
    <3>1. B # {} /\ r \notin Orphans => o.creation = "pending" \/ o.note = "claimed"
      BY <1>1, <1>3, <2>2 DEF Stored
    <3>2. QED
      BY <1>1, <1>2, <1>3, <2>2, <2>3, <3>1, StoredAlike
  <2>5. Heir(o, api[r])
    BY <1>2, <1>3, <2>2 DEF Heir
  <2>6. Sound(r, u)
    BY <1>3, <2>2 DEF Sound
  <2>7. Known(r, u, o, B, M)
    BY <1>3, <2>2, <2>3 DEF Known, Aged, CreateSteps
  <2>8. Seen(u, B)
    BY <1>1, <1>2, <2>1, <2>2 DEF Seen, CreateSteps
  <2>9. QED
    BY <2>2, <2>4, <2>5, <2>6, <2>7, <2>8, SaveCustody DEF B, M
<1>5. CASE MarkPending(w, r)
  <2>1. t.pc = "pending"
    BY <1>5 DEF MarkPending
  <2>2. PICK o, u :
           /\ Save(w, r, o, u) /\ o.phase = "live"
           /\ o.finalizer = t.obj.finalizer
           /\ o.deleting = t.obj.deleting /\ o.spec = t.obj.spec
           /\ o.creation = "pending" /\ o.note = t.obj.note
           /\ o.status = api[r].status /\ o.ready = api[r].ready
           /\ o.synced = api[r].synced
           /\ u.pc = "create" /\ u.cur = t.cur /\ u.seen = t.seen
           /\ u.ctx = t.ctx
           /\ u.obj.finalizer = t.obj.finalizer
           /\ u.obj.deleting = t.obj.deleting /\ u.obj.spec = t.obj.spec
           /\ u.obj.creation = "pending" /\ u.obj.note = t.obj.note
           /\ u.obj.status \in {t.obj.status, api[r].status}
           /\ u.obj.ready = api[r].ready
    BY <1>1, <1>5, StepsType, MarkPendingEffect DEF TypeOK, Lives
  <2> HIDE DEF t, B, M
  <2>3. ~IsBucketAlreadyDeleted(o) /\ ~IsBucketAlreadyDeleted(u.obj)
    BY <1>3, <2>2 DEF IsBucketAlreadyDeleted
  <2>4. B = {}
    BY <1>1, <1>2, <2>1 DEF Sound, Seen
  <2>5. Stored(r, o, B, M)
    BY <1>1, <1>2, <1>3, <2>2, <2>3, <2>4, StoredAlike
  <2>6. Heir(o, api[r])
    BY <1>2, <1>3, <2>2 DEF Heir
  <2>7. Sound(r, u)
    BY <2>2 DEF Sound
  <2>8. Known(r, u, o, B, M)
    BY <1>3, <2>2, <2>3 DEF Known, Aged, CreateSteps
  <2>9. Seen(u, B)
    BY <2>2, <2>4 DEF Seen, CreateSteps
  <2>10. QED
    BY <2>2, <2>5, <2>6, <2>7, <2>8, <2>9, SaveCustody DEF B, M
<1>6. QED
  BY <1>4, <1>5

\* What Create left in memory is added to the object, however stale the reconcile:
\* the bucket it made is the one its lock is for.
LEMMA RecordCustody ==
    ASSUME Orderly, Custody, NEW w \in Workers, NEW r \in Resources,
           UNCHANGED <<s3, lost>>, RecordCreation(w, r)
    PROVE  Custody'
<1> DEFINE t == task[w][r]
           B == Owned(r)
           M == Made(r)
<1>1. /\ TypeOK /\ Exclusion /\ Stored(r, api[r], B, M)
      /\ Sound(r, t) /\ Known(r, t, api[r], B, M) /\ Seen(t, B)
  BY KeptFacts
<1>2. PICK o, u :
         /\ Save(w, r, o, u) /\ o.phase = "live"
         /\ o.finalizer = api[r].finalizer
         /\ o.deleting = api[r].deleting /\ o.spec = api[r].spec
         /\ o.creation = t.obj.creation
         /\ o.note = IF t.obj.note = None THEN api[r].note ELSE t.obj.note
         /\ o.status = api[r].status /\ o.ready = api[r].ready
         /\ o.synced = api[r].synced
         /\ u.cur = TRUE
         /\ u.obj.finalizer = o.finalizer
         /\ u.obj.deleting = o.deleting /\ u.obj.spec = o.spec
         /\ u.obj.creation = o.creation /\ u.obj.note = o.note
         /\ \/ u.obj.status = o.status
            \/ t.cur /\ u.obj.status = t.obj.status
         /\ \/ /\ u.pc = "publishCreated" /\ u.obj.ready = api[r].ready
               /\ u.obj.synced = api[r].synced
            \/ /\ u.pc = "status" /\ u.seen = "unknown"
               /\ u.obj.ready = "Creating"
  <2>1. ReconcilerType(Steps, Lives, Clients)
    BY <1>1 DEF TypeOK
  <2> HIDE DEF t
  <2>2. QED
    BY <2>1, StepsType, RecordEffect DEF Lives, t
<1>3. t.pc = "record" /\ api[r].phase = "live" /\ t.pc \in CreateSteps
  BY DEF RecordCreation, CreateSteps
<1>4. /\ api[r].finalizer /\ ~IsBucketAlreadyDeleted(api[r])
  BY <1>3, Awaited
<1>5. t.obj.note \in {"claimed", None} /\ api[r].note \in {"claimed", None}
  <2>1. t.obj \in Lives /\ api[r] \in Lives
    BY <1>1, <1>3, TaskTypes, LivePhase DEF TypeOK, Lives
  <2>2. QED
    BY <2>1 DEF Lives, LiveObjects
<1> HIDE DEF t, B, M
<1>6. ~IsBucketAlreadyDeleted(o) /\ ~IsBucketAlreadyDeleted(u.obj)
  BY <1>2, <1>4 DEF IsBucketAlreadyDeleted
<1>7. Stored(r, o, B, M)
  <2>1. B # {} => o.note = "claimed"
    BY <1>1, <1>2, <1>3, <1>5 DEF Seen
  <2>2. QED
    BY <1>1, <1>2, <1>3, <1>4, <1>6, <2>1, StoredAlike
<1>8. Heir(o, api[r])
  BY <1>2, <1>3, <1>5 DEF Heir
<1>9. Sound(r, u)
  BY <1>1, <1>2, <1>3 DEF Sound
<1>10. Known(r, u, o, B, M)
  BY <1>2, <1>6 DEF Known, Aged, CreateSteps
<1>11. Seen(u, B)
  BY <1>2 DEF Seen, CreateSteps
<1>12. QED
  BY <1>2, <1>7, <1>8, <1>9, <1>10, <1>11, SaveCustody DEF B, M

\* The object goes only when it has no bucket, or leaves it on purpose.
LEMMA RemoveFinalizerCustody ==
    ASSUME Orderly, Custody, NEW w \in Workers, NEW r \in Resources,
           UNCHANGED <<s3, lost>>, RemoveFinalizer(w, r)
    PROVE  Custody'
<1> DEFINE t == task[w][r]
           B == Owned(r)
           M == Made(r)
<1>1. /\ TypeOK /\ Exclusion /\ Stored(r, api[r], B, M)
      /\ Sound(r, t) /\ Known(r, t, api[r], B, M) /\ Seen(t, B)
  BY KeptFacts
<1>2. t.pc = "finalize" /\ t.cur /\ api[r].phase = "live" /\ Save(w, r, Gone, Idle)
  BY DEF RemoveFinalizer, WriteAccepted
<1>3. r \notin Orphans => t.seen = "missing" /\ B = {}
  BY <1>1, <1>2 DEF Sound, Seen
<1>4. /\ Gone.phase = "gone" /\ ~IsBucketAlreadyDeleted(Gone)
  BY DEF Gone, Blank, IsBucketAlreadyDeleted
<1>5. Stored(r, Gone, B, M)
  BY <1>1, <1>3, <1>4 DEF Stored
<1>6. ASSUME r \notin Orphans, NEW v \in Workers, v # w
      PROVE  task[v][r].pc \notin CreateSteps
  <2>1. t.obj.creation = api[r].creation
    BY <1>1, <1>2 DEF Exclusion, TasksAgree
  <2>2. api[r].creation # "pending"
    BY <1>1, <1>2, <1>3, <1>6, <2>1 DEF Sound
  <2>3. QED
    BY <1>2, <2>2, Awaited
<1>7. Heir(Gone, api[r])
  BY <1>4 DEF Heir
<1> HIDE DEF B, M
<1>8. /\ Sound(r, Idle) /\ Known(r, Idle, Gone, B, M) /\ Seen(Idle, B)
  BY IdleKept
<1>9. QED
  BY <1>2, <1>5, <1>6, <1>7, <1>8, SaveCustody DEF B, M

\* The status is written from a current copy: what it says of a deletion is true.
LEMMA WriteStatusCustody ==
    ASSUME Orderly, Custody, NEW w \in Workers, NEW r \in Resources,
           UNCHANGED <<s3, lost>>, WriteStatus(w, r)
    PROVE  Custody'
<1> DEFINE t == task[w][r]
           B == Owned(r)
           M == Made(r)
<1>1. /\ TypeOK /\ Exclusion /\ Stored(r, api[r], B, M)
      /\ Sound(r, t) /\ Known(r, t, api[r], B, M)
  BY KeptFacts
<1>2. t.pc = "status" /\ t.cur /\ api[r].phase = "live"
  BY DEF WriteStatus, WriteAccepted
<1>3. PICK o : /\ Save(w, r, o, Idle) /\ o.phase = "live"
               /\ o.finalizer = api[r].finalizer
               /\ o.deleting = api[r].deleting /\ o.spec = api[r].spec
               /\ o.creation = api[r].creation /\ o.note = api[r].note
               /\ o.status = t.obj.status /\ o.ready = t.obj.ready
               /\ o.synced = t.obj.synced
  BY <1>1, EndEffect DEF TypeOK, Lives
<1>4. o.creation = t.obj.creation
  BY <1>1, <1>2, <1>3 DEF Exclusion, TasksAgree
<1> HIDE DEF t, B, M
<1>5. IsBucketAlreadyDeleted(o) => Removed(o, B, M)
  BY <1>1, <1>2, <1>3, <1>4 DEF IsBucketAlreadyDeleted, Known, Removed
<1>6. Stored(r, o, B, M)
  <2>1. /\ B # {} => o.finalizer
        /\ B # {} /\ r \notin Orphans => o.creation = "pending" \/ o.note = "claimed"
    BY <1>1, <1>2, <1>3 DEF Stored
  <2>2. QED
    BY <1>1, <1>2, <1>3, <1>5, <2>1, StoredAlike
<1>7. Heir(o, api[r])
  BY <1>2, <1>3 DEF Heir
<1>8. Sound(r, Idle) /\ Known(r, Idle, o, B, M) /\ Seen(Idle, B)
  BY IdleKept
<1>9. QED
  BY <1>3, <1>6, <1>7, <1>8, SaveCustody DEF B, M

------------------------------------------------------------------------------
(* Outside the operator. *)

\* An object is applied, or its deletion requested.
LEMMA UserCustody ==
    ASSUME Orderly, Custody, NEW r \in Resources, UNCHANGED <<s3, lost>>,
           (\E spec \in Specs : Apply(r, spec)) \/ RequestDeletion(r)
    PROVE  Custody'
<1> DEFINE B == Owned(r)
           M == Made(r)
<1>1. TypeOK /\ Exclusion /\ Stored(r, api[r], B, M)
  BY DEF Orderly, Custody, Kept
<1>2. Fewer /\ Owned(r)' = B /\ Made(r)' = M
  BY UnchangedFewer
<1> HIDE DEF B, M
<1>3. CASE \E spec \in Specs : Apply(r, spec)
  <2>1. PICK o : /\ api[r].phase = "new" /\ Store(r, o) /\ o.phase = "live"
                 /\ o.note = None /\ o.ready = "none"
    BY <1>1, <1>3, UserEffect DEF TypeOK, Lives
  <2>2. api[r] = Blank
    BY <1>1, <2>1 DEF TypeOK, ReconcilerType, Gone, Blank, Lives, LiveObjects
  <2>3. Stored(r, o, B, M)
    BY <1>1, <2>1 DEF Stored, IsBucketAlreadyDeleted
  <2>4. Heir(o, api[r])
    BY <2>1, <2>2 DEF Heir, Blank
  <2>5. QED
    BY <1>2, <2>1, <2>3, <2>4, StoreCustody
<1>4. CASE RequestDeletion(r)
  <2>1. /\ api[r].phase = "live"
        /\ \/ ~api[r].finalizer /\ Store(r, Gone)
           \/ /\ api[r].finalizer
              /\ \E o : /\ Store(r, o) /\ o.phase = "live" /\ o.deleting
                        /\ o.finalizer = api[r].finalizer
                        /\ o.creation = api[r].creation
                        /\ o.note = api[r].note /\ o.spec = api[r].spec
                        /\ o.status = api[r].status
                        /\ o.ready = api[r].ready
                        /\ o.synced = api[r].synced
    BY <1>1, <1>4, UserEffect DEF TypeOK, Lives
  <2>2. CASE ~api[r].finalizer /\ Store(r, Gone)
    <3>1. B = {}
      BY <1>1, <2>1, <2>2 DEF Stored
    <3>2. /\ Gone.phase = "gone" /\ ~IsBucketAlreadyDeleted(Gone)
      BY DEF Gone, Blank, IsBucketAlreadyDeleted
    <3>3. Stored(r, Gone, B, M)
      BY <3>1, <3>2 DEF Stored
    <3>4. Heir(Gone, api[r])
      BY <3>2 DEF Heir
    <3>5. \A v \in Workers : task[v][r].pc \notin CreateSteps
      BY <2>1, <2>2, Awaited
    <3>6. QED
      BY <1>2, <2>2, <3>3, <3>4, <3>5, StoreCustody
  <2>3. ASSUME NEW o, Store(r, o), o.phase = "live", o.deleting,
               o.finalizer = api[r].finalizer, o.creation = api[r].creation,
               o.note = api[r].note, o.spec = api[r].spec,
               o.status = api[r].status, o.ready = api[r].ready,
               o.synced = api[r].synced
        PROVE  Custody'
    <3>1. IsBucketAlreadyDeleted(o) => Removed(o, B, M)
      BY <1>1, <2>3 DEF Stored, IsBucketAlreadyDeleted, Removed
    <3>2. Stored(r, o, B, M)
      <4>1. /\ B # {} => o.finalizer
            /\ B # {} /\ r \notin Orphans => o.creation = "pending" \/ o.note = "claimed"
        BY <1>1, <2>1, <2>3 DEF Stored
      <4>2. QED
        BY <1>1, <2>1, <2>3, <3>1, <4>1, StoredAlike
    <3>3. Heir(o, api[r])
      BY <2>1, <2>3 DEF Heir
    <3>4. QED
      BY <1>2, <2>3, <3>2, <3>3, StoreCustody
  <2>4. QED
    BY <2>1, <2>2, <2>3
<1>5. QED
  BY <1>3, <1>4

\* The spec is edited: a bucket that it does not name any more is lost.
LEMMA EditCustody ==
    ASSUME Orderly, Custody, NEW r \in Resources, NEW spec \in Specs, Edit(r, spec)
    PROVE  Custody'
<1> DEFINE o == [api[r] EXCEPT !.spec = spec]
           B == Owned(r)'
           M == Made(r)'
<1>1. TypeOK /\ Stored(r, api[r], Owned(r), Made(r))
  BY DEF Orderly, Custody, Kept
<1>2. /\ api[r].phase = "live" /\ Store(r, o) /\ UNCHANGED s3
      /\ lost' = lost \cup Disowned(r, spec, s3)
  BY DEF Edit
<1>3. api[r] \in Lives
  BY <1>1, <1>2, LivePhase DEF TypeOK, Lives
<1>4. /\ o.phase = "live" /\ o.spec = spec
      /\ o.deleting = api[r].deleting /\ o.finalizer = api[r].finalizer
      /\ o.creation = api[r].creation /\ o.note = api[r].note
      /\ o.status = api[r].status /\ o.ready = api[r].ready
      /\ o.synced = api[r].synced
  BY <1>2, <1>3 DEF Lives, LiveObjects
<1>5. Fewer
  BY <1>2 DEF Fewer, Made, Owned
<1>6. B \subseteq {GetBucketName(r, spec)}
  BY <1>2 DEF Made, Owned, Disowned
<1>7. Stored(r, api[r], B, M)
  BY <1>1, <1>5, FewerKept DEF Fewer
<1> HIDE DEF o, B, M
<1>8. IsBucketAlreadyDeleted(o) => Removed(o, B, M)
  BY <1>4, <1>7 DEF Stored, IsBucketAlreadyDeleted, Removed
<1>9. Stored(r, o, B, M)
  BY <1>2, <1>4, <1>6, <1>7, <1>8 DEF Stored
<1>10. Heir(o, api[r])
  BY <1>2, <1>4 DEF Heir
<1>11. QED
  BY <1>2, <1>4, <1>5, <1>9, <1>10, StoreCustody DEF B, M

\* Somebody else works on S3: no bucket is made in the name of a resource.
LEMMA InterventionCustody ==
    ASSUME Orderly, Custody, NEW n \in BucketNames, S3Intervention(n)
    PROVE  Custody'
<1>1. TypeOK
  BY DEF Orderly
<1>2. CASE UNCHANGED lost /\ \E b \in Buckets : b.creator = "outside" /\ s3' = [s3 EXCEPT ![n] = b]
  <2>1. PICK b \in Buckets : b.creator = "outside" /\ s3' = [s3 EXCEPT ![n] = b]
    BY <1>2
  <2>2. \A m \in BucketNames : s3'[m] = IF m = n THEN b ELSE s3[m]
    BY <1>1, <2>1 DEF TypeOK
  <2>3. \A q \in Resources : Made(q)' \subseteq Made(q)
    BY <2>1, <2>2, BucketAssumption DEF Made
  <2>4. Fewer
    BY <1>2, <2>3 DEF Fewer, Owned
  <2>5. QED
    BY <2>4, CloudCustody DEF S3Intervention
<1>3. CASE Exists(n) /\ lost' = lost \ {n} /\ s3' = [s3 EXCEPT ![n] = NoBucket]
  BY <1>1, <1>3, RemovalFewer, CloudCustody DEF S3Intervention
<1>4. CASE UNCHANGED lost /\ Exists(n) /\ s3' = [s3 EXCEPT ![n].objects = TRUE]
  <2>1. \A m \in BucketNames : s3'[m].creator = s3[m].creator
    <3>1. \A m \in BucketNames : s3[m] \in Buckets /\ s3'[m] =
             IF m = n THEN [s3[m] EXCEPT !.objects = TRUE] ELSE s3[m]
      BY <1>1, <1>4 DEF TypeOK
    <3>2. \A b \in Buckets : [b EXCEPT !.objects = TRUE].creator = b.creator
      BY DEF Buckets, NoBucket
    <3>3. QED
      BY <3>1, <3>2
  <2>2. Fewer
    BY <1>4, <2>1 DEF Fewer, Made, Owned
  <2>3. QED
    BY <2>2, CloudCustody DEF S3Intervention
<1>5. QED
  BY <1>2, <1>3, <1>4 DEF S3Intervention

------------------------------------------------------------------------------
(* The invariant, and the properties it implies. *)

\* Credentials and accounts are not part of it.
LEMMA CustodyAside ==
    ASSUME Custody, UNCHANGED <<api, cache, task, s3, lost>>
    PROVE  Custody'
BY UnchangedFewer, CloudCustody

LEMMA CustodyStep ==
    ASSUME Orderly, Custody, [Next]_vars
    PROVE  Custody'
<1>1. ASSUME NEW w \in Workers, NEW r \in Resources,
             (Sync(w, r) \/ Begin(w, r)) /\ UNCHANGED <<s3, creds, accounts, lost>>
      PROVE  Custody'
  BY <1>1, ReadCustody
<1>2. ASSUME NEW w \in Workers, NEW r \in Resources, Progress(w, r)
      PROVE  Custody'
  <2>1. CASE ReconcilerStep(w, r) /\ UNCHANGED <<s3, creds, accounts, lost>>
    BY <2>1, PrepareCustody, RecordCustody, RemoveFinalizerCustody,
       WriteStatusCustody, ReadCustody DEF ReconcilerStep
  <2>2. CASE ConnectNoop(w, r) \/ Connect(w, r)
    BY <2>2, ConnectCustody
  <2>3. CASE ObserveNoop(w, r) \/ ObserveBucket(w, r)
    BY <2>3, ObserveCustody
  <2>4. CASE Publish(w, r)
    BY <2>4, PublishCustody
  <2>5. CASE MakeBucket(w, r) \/ MakeExistingBucket(w, r)
    BY <2>5, CreateCustody
  <2>6. CASE RemoveObjects(w, r) \/ RemoveBucket(w, r) \/ RemoveBucketRefused(w, r)
    BY <2>6, DeleteCustody
  <2>7. QED
    BY <1>2, <2>1, <2>2, <2>3, <2>4, <2>5, <2>6 DEF Progress
<1>3. ASSUME NEW w \in Workers, NEW r \in Resources, Failure(w, r)
      PROVE  Custody'
  BY <1>3, ReadCustody, CreateCustody, DeleteCustody DEF Failure
<1>4. CASE Environment
  BY <1>4, CustodyAside, UserCustody, EditCustody, InterventionCustody
     DEF Environment, CredentialsChange, AccountRemoved
<1>5. CASE UNCHANGED vars
  BY <1>5, CustodyAside DEF vars
<1>6. QED
  BY <1>1, <1>2, <1>3, <1>4, <1>5 DEF Next

\* Nobody has made a bucket for a resource in the beginning.
LEMMA CustodyStart ==
    ASSUME ReconcilerInit, lost = {},
           \A n \in BucketNames : s3[n].creator \in {None, "before"}
    PROVE  Custody
<1> SUFFICES ASSUME NEW r \in Resources
             PROVE  Kept(r)
  BY DEF Custody
<1>1. api[r] = Blank /\ lost = {}
  BY DEF ReconcilerInit
<1>2. Made(r) = {} /\ Owned(r) = {}
  BY BucketAssumption DEF Made, Owned
<1>3. Stored(r, Blank, {}, {})
  BY DEF Stored, Blank, IsBucketAlreadyDeleted
<1>4. ASSUME NEW w \in Workers
      PROVE  /\ Aged(cache[w][r].obj, api[r]) /\ Sound(r, task[w][r])
             /\ Known(r, task[w][r], api[r], {}, {}) /\ Seen(task[w][r], {})
  <2>1. cache[w][r].obj = Blank /\ task[w][r] = Idle
    BY DEF ReconcilerInit
  <2>2. Aged(Blank, Blank)
    BY DEF Aged, Blank
  <2>3. QED
    BY <1>1, <2>1, <2>2, IdleKept
<1>5. QED
  BY <1>1, <1>2, <1>3, <1>4 DEF Kept

LEMMA CustodyInit == Init => Custody
<1>1. Init => /\ lost = {} /\ ReconcilerInit
              /\ \A n \in BucketNames : s3[n].creator \in {None, "before"}
  BY DEF Init
<1>2. QED
  BY <1>1, CustodyStart

\* Objects, reconciles and buckets fit together in every reachable state.
THEOREM CustodyAlways == Spec => []Custody
<1>1. Init => Orderly /\ Custody
  BY OrderlyInit, CustodyInit
<1>2. Orderly /\ Custody /\ [Next]_vars => (Orderly /\ Custody)'
  BY OrderlyStep, CustodyStep
<1>3. QED
  BY <1>1, <1>2, PTL DEF Spec

LEMMA KeptAccountedFor ==
    ASSUME Custody
    PROVE  EveryBucketAccountedFor
<1> SUFFICES ASSUME NEW r \in Resources \ Orphans,
                    NEW n \in BucketNames \ lost, s3[n].creator = r
             PROVE  /\ api[r].phase = "live"
                    /\ api[r].creation = "pending" \/ api[r].note = "claimed"
  BY DEF EveryBucketAccountedFor
<1>1. Stored(r, api[r], Owned(r), Made(r))
  BY DEF Custody, Kept
<1>2. Owned(r) # {}
  BY DEF Owned, Made
<1>3. QED
  BY <1>1, <1>2 DEF Stored

\* No crash, race, stale cache or lost write makes the operator forget a bucket it
\* made: its resource stays and carries the lock, or is marked as one whose creation
\* did not conclude.
THEOREM AccountedFor == Spec => []EveryBucketAccountedFor
<1>1. Custody => EveryBucketAccountedFor
  BY KeptAccountedFor
<1>2. QED
  BY <1>1, CustodyAlways, PTL

LEMMA KeptRemoved ==
    ASSUME Orderly, Custody
    PROVE  DeletedMeansRemoved
<1> SUFFICES ASSUME NEW r \in Resources, IsBucketAlreadyDeleted(api[r])
             PROVE  s3[api[r].status].creator # r
  BY DEF DeletedMeansRemoved
<1>1. Removed(api[r], Owned(r), Made(r))
  BY DEF Custody, Kept, Stored
<1>2. api[r] \in Lives
  <2>1. api[r] \in {Blank, Gone} \cup Lives
    BY DEF Orderly, TypeOK, ReconcilerType
  <2>2. ~IsBucketAlreadyDeleted(Blank) /\ ~IsBucketAlreadyDeleted(Gone)
    BY DEF IsBucketAlreadyDeleted, Gone, Blank
  <2>3. QED
    BY <2>1, <2>2
<1>3. api[r].status \in BucketNames
  BY <1>1, <1>2 DEF Removed, Lives, LiveObjects
<1>4. QED
  BY <1>1, <1>3 DEF Removed, Made

\* A status that says the deletion succeeded is true: Connect and Observe may skip
\* S3 for it, though it may have been written by a reconcile with an old copy.
THEOREM DeletedIsRemoved == Spec => []DeletedMeansRemoved
<1>1. Orderly /\ Custody => DeletedMeansRemoved
  BY KeptRemoved
<1>2. QED
  BY <1>1, OrderlyHolds, CustodyAlways, PTL

LEMMA AboutToRemoveObjects ==
    ASSUME Orderly, Custody, NEW w \in Workers, NEW r \in Resources, RemoveObjects(w, r)
    PROVE  /\ r \notin Orphans
           /\ api[r].phase = "live" => api[r].deleting /\ api[r].note = "claimed"
           /\ task[w][r].cur => api[r].spec.policy = "DeleteAll"
<1> DEFINE t == task[w][r]
<1>1. /\ TypeOK /\ Sound(r, t) /\ Known(r, t, api[r], Owned(r), Made(r))
      /\ Directed(t)
  BY KeptFacts
<1>2. t.pc = "removeObjects"
  BY DEF RemoveObjects
<1>3. t.obj.deleting /\ t.obj.note = "claimed" /\ r \notin Orphans
      /\ HasDeleteAllPolicy(t.obj.spec)
  BY <1>1, <1>2 DEF Directed, DeleteSteps, Sound, HasLock
<1>4. api[r].phase = "live" => api[r].note \in {"claimed", None}
  <2>1. api[r].phase = "live" => api[r] \in Lives
    BY <1>1, LivePhase DEF TypeOK, Lives
  <2>2. QED
    BY <2>1 DEF Lives, LiveObjects
<1>5. Aged(t.obj, api[r]) /\ (t.cur => t.obj.spec = api[r].spec)
  BY <1>1, <1>2 DEF Known
<1> HIDE DEF t
<1>6. QED
  BY <1>3, <1>4, <1>5 DEF Aged, HasDeleteAllPolicy, t

\* Objects in a bucket are removed only for a locked resource that is being deleted
\* and is no orphan, under the policy DeleteAll as the reconcile read it.
THEOREM RemovedOnRequest == Spec => ObjectsRemovedOnRequest
<1>1. Orderly /\ Custody =>
        \A w \in Workers, r \in Resources :
          RemoveObjects(w, r) =>
            /\ r \notin Orphans
            /\ api[r].phase = "live" => api[r].deleting /\ api[r].note = "claimed"
            /\ task[w][r].cur => api[r].spec.policy = "DeleteAll"
  BY AboutToRemoveObjects
<1>2. QED
  BY <1>1, OrderlyHolds, CustodyAlways, PTL DEF ObjectsRemovedOnRequest

================================================================================
