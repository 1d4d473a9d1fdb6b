----------------------------- MODULE BucketNaming ------------------------------
(***************************************************************************)
(* What the operator promises about the names of buckets, for every number *)
(* of resources, operator instances, names, accounts and mishaps: the      *)
(* status names the bucket that the spec does, a bucket that was there     *)
(* before is left alone and, where no two resources can be given one name, *)
(* the controller implements ExternalResource.                             *)
(***************************************************************************)
EXTENDS BucketProofs

------------------------------------------------------------------------------
(* The status names the bucket of the spec, and the lock is never for a      *)
(* bucket that was there from the start.                                     *)

\* Buckets that were there from the start become fewer only.
LEMMA FewerFit ==
    ASSUME NEW r, NEW o, NEW t, NEW P, NEW Q \in SUBSET P
    PROVE  /\ Fits(r, o, P) => Fits(r, o, Q)
           /\ Looked(r, t, P) => Looked(r, t, Q)
<1>1. Fits(r, o, P) => Fits(r, o, Q)
  BY DEF Fits
<1>2. Looked(r, t, P) => Looked(r, t, Q)
  BY DEF Looked
<1>3. QED
  BY <1>1, <1>2

\* An object with the name and the lock of another.
LEMMA AlikeFit ==
    ASSUME NEW r, NEW o, NEW p, NEW P, Fits(r, p, P),
           o.spec = p.spec, o.status = p.status, o.note = p.note
    PROVE  Fits(r, o, P)
BY DEF Fits

\* An object that says nothing of a bucket.
LEMMA NothingFits ==
    ASSUME NEW r, NEW o, NEW P, o.status = None, o.note = None
    PROVE  Fits(r, o, P)
BY BucketAssumption DEF Fits

LEMMA IdleFits ==
    ASSUME NEW r, NEW P
    PROVE  Fits(r, Blank, P) /\ Fits(r, Gone, P) /\ Fits(r, Idle.obj, P) /\ Looked(r, Idle, P)
<1>1. /\ Blank.status = None /\ Blank.note = None /\ Gone.status = None
      /\ Gone.note = None /\ Idle.obj = Blank /\ Idle.pc = "idle"
  BY DEF Idle, Gone, Blank
<1>2. Looked(r, Idle, P)
  BY <1>1 DEF Looked
<1>3. QED
  BY <1>1, <1>2, NothingFits

\* What a reconcile does to the buckets does not make any older.
LEMMA OldShrinks ==
    ASSUME TypeOK, [Next]_vars
    PROVE  Old' \subseteq Old
<1>1. s3 \in [BucketNames -> Buckets]
  BY DEF TypeOK
<1>2. ASSUME \/ UNCHANGED s3
             \/ \E n : s3' = [s3 EXCEPT ![n] = NoBucket]
             \/ \E n : Exists(n) /\ s3' = [s3 EXCEPT ![n].objects = FALSE]
             \/ \E n : Exists(n) /\ s3' = [s3 EXCEPT ![n].objects = TRUE]
             \/ \E n, b : b.creator # "before" /\ s3' = [s3 EXCEPT ![n] = b]
      PROVE  Old' \subseteq Old
  <2>1. NoBucket.creator # "before"
    BY BucketAssumption DEF NoBucket
  <2>2. ASSUME NEW n, NEW x \in BOOLEAN, s3' = [s3 EXCEPT ![n].objects = x]
        PROVE  \A m \in BucketNames : s3'[m].creator = s3[m].creator
    <3>1. \A m \in BucketNames :
             s3'[m] = IF m = n THEN [s3[m] EXCEPT !.objects = x] ELSE s3[m]
      BY <1>1, <2>2
    <3>2. \A b \in Buckets : [b EXCEPT !.objects = x].creator = b.creator
      BY DEF Buckets, NoBucket
    <3>3. QED
      BY <1>1, <3>1, <3>2
  <2>3. ASSUME NEW n, NEW b, b.creator # "before", s3' = [s3 EXCEPT ![n] = b]
        PROVE  Old' \subseteq Old
    BY <1>1, <2>3 DEF Old
  <2>4. ASSUME NEW n, NEW x \in BOOLEAN, s3' = [s3 EXCEPT ![n].objects = x]
        PROVE  Old' \subseteq Old
    BY <2>2, <2>4 DEF Old
  <2>5. CASE UNCHANGED s3
    BY <2>5 DEF Old
  <2>6. QED
    BY <1>2, <2>1, <2>3, <2>4, <2>5
<1>3. ASSUME NEW w \in Workers, NEW r \in Resources,
             MakeBucket(w, r) \/ MakeExistingBucket(w, r) \/ CreateFails(w, r)
      PROVE  Old' \subseteq Old
  <2>1. UNCHANGED s3 \/ NewBucket(r, task[w][r])
    BY <1>3 DEF MakeBucket, MakeExistingBucket, CreateFails
  <2>2. ASSUME NewBucket(r, task[w][r])
        PROVE  \E n, b : b.creator # "before" /\ s3' = [s3 EXCEPT ![n] = b]
    <3> DEFINE b == [region |-> task[w][r].obj.spec.region, account |-> task[w][r].ctx,
                     creator |-> r, objects |-> FALSE]
    <3>1. s3' = [s3 EXCEPT ![GetBucketName(r, task[w][r].obj.spec)] = b]
      BY <2>2 DEF NewBucket
    <3>2. b.creator # "before"
      BY BucketAssumption
    <3>3. QED
      BY <3>1, <3>2
  <2>3. QED
    BY <1>2, <2>1, <2>2
<1>4. ASSUME NEW w \in Workers, NEW r \in Resources,
             \/ RemoveObjects(w, r) \/ ListingFails(w, r) \/ RemoveObjectsFails(w, r)
             \/ RemoveBucket(w, r) \/ RemoveBucketRefused(w, r) \/ RemoveAnswerLost(w, r)
      PROVE  Old' \subseteq Old
  BY <1>2, <1>4, DeleteEffect
<1>5. ASSUME NEW n \in BucketNames, S3Intervention(n)
      PROVE  Old' \subseteq Old
  <2>1. \A b : b.creator = "outside" => b.creator # "before"
    OBVIOUS
  <2>2. QED
    BY <1>2, <1>5, <2>1 DEF S3Intervention
<1>6. ASSUME NEW w \in Workers, NEW r \in Resources,
             \/ (Sync(w, r) \/ Begin(w, r)) /\ UNCHANGED <<s3, creds, accounts, lost>>
             \/ Progress(w, r) \/ Failure(w, r)
      PROVE  Old' \subseteq Old
  <2>1. \/ UNCHANGED s3
        \/ MakeBucket(w, r) \/ MakeExistingBucket(w, r) \/ CreateFails(w, r)
        \/ RemoveObjects(w, r) \/ ListingFails(w, r) \/ RemoveObjectsFails(w, r)
        \/ RemoveBucket(w, r) \/ RemoveBucketRefused(w, r) \/ RemoveAnswerLost(w, r)
    BY <1>6 DEF Progress, Failure, ConnectNoop, Connect, ObserveNoop, ObserveBucket,
                Publish
  <2>2. QED
    BY <1>2, <1>3, <1>4, <2>1
<1>7. CASE Environment
  <2>1. UNCHANGED s3 \/ \E n \in BucketNames : S3Intervention(n)
    BY <1>7 DEF Environment, Edit, CredentialsChange, AccountRemoved
  <2>2. QED
    BY <1>2, <1>5, <2>1
<1>8. CASE UNCHANGED vars
  BY <1>2, <1>8 DEF vars
<1>9. QED
  BY <1>6, <1>7, <1>8 DEF Next

\* A reconcile goes on without a write.
LEMMA GotoRightful ==
    ASSUME Orderly, Rightful, Old' \subseteq Old, NEW w \in Workers, NEW r \in Resources,
           NEW u, Goto(w, r, u), Fits(r, u.obj, Old), Looked(r, u, Old)
    PROVE  Rightful'
<1>1. /\ api' = api /\ cache' = cache
      /\ \A v \in Workers, q \in Resources :
           task'[v][q] = IF v = w /\ q = r THEN u ELSE task[v][q]
  BY GotoEffect DEF Orderly, TypeOK
<1>2. ASSUME NEW v \in Workers, NEW q \in Resources
      PROVE  /\ Fits(q, api'[q], Old') /\ Fits(q, cache'[v][q].obj, Old')
             /\ Fits(q, task'[v][q].obj, Old') /\ Looked(q, task'[v][q], Old')
  <2>1. /\ Fits(q, api'[q], Old) /\ Fits(q, cache'[v][q].obj, Old)
        /\ Fits(q, task'[v][q].obj, Old) /\ Looked(q, task'[v][q], Old)
    <3>1. CASE v = w /\ q = r
      BY <1>1, <3>1 DEF Rightful
    <3>2. CASE v # w \/ q # r
      BY <1>1, <3>2 DEF Rightful
    <3>3. QED
      BY <3>1, <3>2
  <2>2. QED
    BY <2>1, FewerFit
<1>3. \A q \in Resources : Fits(q, api'[q], Old')
  BY <1>1, FewerFit DEF Rightful
<1>4. QED
  BY <1>2, <1>3 DEF Rightful

\* A reconcile writes the object and goes on, or ends.
LEMMA SaveRightful ==
    ASSUME Orderly, Rightful, Old' \subseteq Old, NEW w \in Workers, NEW r \in Resources,
           NEW o, NEW u, Save(w, r, o, u),
           Fits(r, o, Old), Fits(r, u.obj, Old), Looked(r, u, Old)
    PROVE  Rightful'
<1>1. /\ api'[r] = o /\ task'[w][r] = u
      /\ \A q \in Resources : q # r => api'[q] = api[q]
      /\ \A v \in Workers, q \in Resources :
           /\ cache'[v][q].obj = cache[v][q].obj
           /\ v # w \/ q # r =>
                /\ task'[v][q].pc = task[v][q].pc
                /\ task'[v][q].obj = task[v][q].obj
                /\ task'[v][q].seen = task[v][q].seen
  BY SaveEffect DEF Orderly, TypeOK
<1>2. ASSUME NEW v \in Workers, NEW q \in Resources
      PROVE  /\ Fits(q, cache'[v][q].obj, Old')
             /\ Fits(q, task'[v][q].obj, Old') /\ Looked(q, task'[v][q], Old')
  <2>1. /\ Fits(q, cache'[v][q].obj, Old)
        /\ Fits(q, task'[v][q].obj, Old) /\ Looked(q, task'[v][q], Old)
    <3>1. CASE v = w /\ q = r
      BY <1>1, <3>1 DEF Rightful
    <3>2. CASE v # w \/ q # r
      BY <1>1, <3>2 DEF Rightful, Looked
    <3>3. QED
      BY <3>1, <3>2
  <2>2. QED
    BY <2>1, FewerFit
<1>3. ASSUME NEW q \in Resources
      PROVE  Fits(q, api'[q], Old')
  <2>1. Fits(q, api'[q], Old)
    BY <1>1 DEF Rightful
  <2>2. QED
    BY <2>1, FewerFit
<1>4. QED
  BY <1>2, <1>3 DEF Rightful

\* Somebody else writes the object.
LEMMA StoreRightful ==
    ASSUME Orderly, Rightful, Old' \subseteq Old, NEW r \in Resources, NEW o,
           Store(r, o), Fits(r, o, Old)
    PROVE  Rightful'
<1>1. /\ api'[r] = o
      /\ \A q \in Resources : q # r => api'[q] = api[q]
      /\ \A v \in Workers, q \in Resources :
           /\ cache'[v][q].obj = cache[v][q].obj
           /\ task'[v][q].pc = task[v][q].pc
           /\ task'[v][q].obj = task[v][q].obj
           /\ task'[v][q].seen = task[v][q].seen
  BY StoreEffect DEF Orderly, TypeOK
<1>2. ASSUME NEW v \in Workers, NEW q \in Resources
      PROVE  /\ Fits(q, cache'[v][q].obj, Old')
             /\ Fits(q, task'[v][q].obj, Old') /\ Looked(q, task'[v][q], Old')
  <2>1. /\ Fits(q, cache'[v][q].obj, Old)
        /\ Fits(q, task'[v][q].obj, Old) /\ Looked(q, task'[v][q], Old)
    BY <1>1 DEF Rightful, Looked
  <2>2. QED
    BY <2>1, FewerFit
<1>3. ASSUME NEW q \in Resources
      PROVE  Fits(q, api'[q], Old')
  <2>1. Fits(q, api'[q], Old)
    BY <1>1 DEF Rightful
  <2>2. QED
    BY <2>1, FewerFit
<1>4. QED
  BY <1>2, <1>3 DEF Rightful

\* With one name it does not matter which spec a reconcile goes by.
LEMMA SameName ==
    ASSUME OneName, NEW r \in Resources, NEW old \in Specs, NEW new \in Specs
    PROVE  GetBucketName(r, old) = GetBucketName(r, new)
BY DEF OneName, GetBucketName

\* A reconcile that ends says of the bucket what it said before.
LEMMA EndedRightful ==
    ASSUME Orderly, Rightful, Old' \subseteq Old, NEW w \in Workers, NEW r \in Resources,
           NEW u, Goto(w, r, u), Ended(task[w][r], u)
    PROVE  Rightful'
<1>1. /\ u.pc = "status" /\ u.obj.spec = task[w][r].obj.spec
      /\ u.obj.status = task[w][r].obj.status /\ u.obj.note = task[w][r].obj.note
  BY DEF Ended, Alike
<1>2. Fits(r, u.obj, Old)
  BY <1>1, AlikeFit DEF Rightful
<1>3. Looked(r, u, Old)
  BY <1>1 DEF Looked
<1>4. QED
  BY <1>2, <1>3, GotoRightful

\* The calls of a reconcile.  The lock is set only by a reconcile that has seen that
\* there was no bucket.
LEMMA CallsRightful ==
    ASSUME Orderly, Rightful, Old' \subseteq Old, NEW w \in Workers, NEW r \in Resources,
           \/ ConnectNoop(w, r) \/ Connect(w, r)
           \/ ObserveNoop(w, r) \/ ObserveBucket(w, r) \/ Publish(w, r)
           \/ MakeBucket(w, r) \/ MakeExistingBucket(w, r) \/ CreateFails(w, r)
           \/ RemoveObjects(w, r) \/ ListingFails(w, r) \/ RemoveObjectsFails(w, r)
           \/ RemoveBucket(w, r) \/ RemoveBucketRefused(w, r) \/ RemoveAnswerLost(w, r)
    PROVE  Rightful'
<1> DEFINE t == task[w][r]
           n == GetBucketName(r, t.obj.spec)
<1>1. /\ TypeOK /\ Told(t.obj) /\ Directed(t)
      /\ Fits(r, t.obj, Old) /\ Looked(r, t, Old)
  BY DEF Orderly, Requests, Rightful
<1>2. CASE ConnectNoop(w, r) \/ Connect(w, r)
  <2>1. PICK u \in Tasks :
            /\ Goto(w, r, u)
            /\ Failed(t, u) \/ (u.pc = "observe" /\ u.obj = t.obj)
    BY <1>1, <1>2, ConnectEffect
  <2>2. CASE u.pc = "observe" /\ u.obj = t.obj
    <3>1. Looked(r, u, Old)
      BY <2>2 DEF Looked
    <3>2. QED
      BY <1>1, <2>1, <2>2, <3>1, GotoRightful
  <2>3. QED
    BY <2>1, <2>2, EndedRightful DEF Failed
<1>3. CASE ObserveNoop(w, r) \/ ObserveBucket(w, r)
  <2>1. t.pc = "observe"
    BY <1>3 DEF ObserveNoop, ObserveBucket
  <2>2. PICK u \in Tasks :
            /\ Goto(w, r, u)
            /\ \/ Failed(t, u)
               \/ /\ u.obj = t.obj
                  /\ \/ u.pc = "publish" /\ ~t.obj.deleting
                     \/ u.pc = "finalize"
                  /\ t.ctx = "noop" \/ ~Exists(n)
               \/ /\ u.obj = Found(r, t.obj) /\ HasLock(t.obj) /\ u.seen = "current"
                  /\ u.pc \in {"publish", "delete", "removeObjects"}
    BY <1>1, <1>3, ObserveEffect
  <2>3. CASE /\ u.obj = t.obj
             /\ \/ u.pc = "publish" /\ ~t.obj.deleting
                \/ u.pc = "finalize"
             /\ t.ctx = "noop" \/ ~Exists(n)
    <3>1. ~Exists(n) => n \notin Old
      BY BucketAssumption DEF Exists, Old, NoBucket
    <3>2. t.ctx = "noop" => t.obj.deleting
      BY <1>1, <2>1 DEF Directed, IsBucketAlreadyDeleted, Told
    <3>3. Looked(r, u, Old)
      BY <2>3, <3>1, <3>2 DEF Looked
    <3>4. QED
      BY <1>1, <2>2, <2>3, <3>3, GotoRightful
  <2>4. CASE /\ u.obj = Found(r, t.obj) /\ HasLock(t.obj) /\ u.seen = "current"
             /\ u.pc \in {"publish", "delete", "removeObjects"}
    <3>1. t.obj \in Lives
      BY <1>1, <2>1, TaskTypes
    <3>2. u.obj.status = n /\ u.obj.spec = t.obj.spec
      BY <2>4, <3>1, FoundEffect
    <3>3. Fits(r, u.obj, Old)
      BY <1>1, <2>4, <3>2 DEF Fits, HasLock
    <3>4. Looked(r, u, Old)
      BY <2>4 DEF Looked
    <3>5. QED
      BY <2>2, <3>3, <3>4, GotoRightful
  <2>5. QED
    BY <2>2, <2>3, <2>4, EndedRightful DEF Failed
<1>4. CASE Publish(w, r)
  <2>1. PICK u \in Tasks :
            /\ Goto(w, r, u)
            /\ \/ Ended(t, u)
               \/ /\ t.pc = "publish" /\ u.obj = t.obj
                  /\ \/ u.pc = "addFinalizer" /\ u.seen = t.seen
                     \/ u.pc = "pending" /\ t.seen = "missing"
                     \/ u.pc = "update"
    BY <1>1, <1>4, PublishEffect
  <2>2. CASE /\ t.pc = "publish" /\ u.obj = t.obj
             /\ \/ u.pc = "addFinalizer" /\ u.seen = t.seen
                \/ u.pc = "pending" /\ t.seen = "missing"
                \/ u.pc = "update"
    <3>1. Looked(r, u, Old)
      BY <1>1, <2>2 DEF Looked
    <3>2. QED
      BY <1>1, <2>1, <2>2, <3>1, GotoRightful
  <2>3. QED
    BY <2>1, <2>2, EndedRightful
<1>5. CASE MakeBucket(w, r) \/ MakeExistingBucket(w, r) \/ CreateFails(w, r)
  <2>1. t.pc = "create"
    BY <1>1, <1>5, CreateEffect
  <2>2. PICK u \in Tasks :
            /\ Goto(w, r, u) /\ u.pc = "record"
            /\ u.obj.spec = t.obj.spec /\ u.obj.status = t.obj.status
            /\ u.obj.note \in {t.obj.note, "claimed"}
    BY <1>1, <1>5, CreateEffect
  <2>3. Fits(r, u.obj, Old)
    BY <1>1, <2>1, <2>2 DEF Fits, Looked
  <2>4. Looked(r, u, Old)
    BY <2>2 DEF Looked
  <2>5. QED
    BY <2>2, <2>3, <2>4, GotoRightful
<1>6. CASE \/ RemoveObjects(w, r) \/ ListingFails(w, r) \/ RemoveObjectsFails(w, r)
           \/ RemoveBucket(w, r) \/ RemoveBucketRefused(w, r) \/ RemoveAnswerLost(w, r)
  <2>1. PICK u \in Tasks :
            /\ Goto(w, r, u)
            /\ Failed(t, u) \/ (u.pc = "delete" /\ u.obj = t.obj) \/ Ended(t, u)
    BY <1>1, <1>6, DeleteEffect
  <2>2. CASE u.pc = "delete" /\ u.obj = t.obj
    <3>1. Looked(r, u, Old)
      BY <2>2 DEF Looked
    <3>2. QED
      BY <1>1, <2>1, <2>2, <3>1, GotoRightful
  <2>3. QED
    BY <2>1, <2>2, EndedRightful DEF Failed
<1>7. QED
  BY <1>2, <1>3, <1>4, <1>5, <1>6

\* The writes up to Create and after it.
LEMMA AroundCreateRightful ==
    ASSUME Orderly, Custody, Rightful, Old' \subseteq Old,
           NEW w \in Workers, NEW r \in Resources,
           AddFinalizer(w, r) \/ MarkPending(w, r) \/ RecordCreation(w, r)
    PROVE  Rightful'
<1> DEFINE t == task[w][r]
<1>1. /\ TypeOK /\ Known(r, t, api[r], Owned(r), Made(r))
      /\ Fits(r, t.obj, Old) /\ Fits(r, api[r], Old) /\ Looked(r, t, Old)
  BY KeptFacts DEF Rightful
<1>2. CASE AddFinalizer(w, r)
  <2>1. t.pc = "addFinalizer" /\ t.cur /\ t.obj.spec = api[r].spec
        /\ t.obj.note = api[r].note
    BY <1>1, <1>2 DEF AddFinalizer, WriteAccepted, Known
  <2>2. PICK o, u :
           /\ Save(w, r, o, u)
           /\ o.spec = t.obj.spec /\ o.note = t.obj.note
           /\ o.status = api[r].status
           /\ u.obj.spec = t.obj.spec /\ u.obj.note = t.obj.note
           /\ u.obj.status \in {t.obj.status, api[r].status}
           /\ \/ u.pc = "pending" /\ t.seen = "missing"
              \/ u.pc \in {"update", "status"}
    BY <1>1, <1>2, StepsType, AddFinalizerEffect DEF TypeOK, Lives
  <2> HIDE DEF t
  <2>3. Fits(r, o, Old)
    BY <1>1, <2>1, <2>2, AlikeFit
  <2>4. Fits(r, u.obj, Old)
    <3>1. CASE u.obj.status = t.obj.status
      BY <1>1, <2>2, <3>1, AlikeFit
    <3>2. CASE u.obj.status = api[r].status
      BY <1>1, <2>1, <2>2, <3>2, AlikeFit
    <3>3. QED
      BY <2>2, <3>1, <3>2
  <2>5. Looked(r, u, Old)
    BY <1>1, <2>1, <2>2 DEF Looked
  <2>6. QED
    BY <2>2, <2>3, <2>4, <2>5, SaveRightful
<1>3. CASE MarkPending(w, r)
  <2>1. t.pc = "pending" /\ t.cur /\ t.obj.spec = api[r].spec
        /\ t.obj.note = api[r].note
    BY <1>1, <1>3 DEF MarkPending, WriteAccepted, Known
  <2>2. PICK o, u :
           /\ Save(w, r, o, u)
           /\ o.spec = t.obj.spec /\ o.note = t.obj.note
           /\ o.status = api[r].status
           /\ u.obj.spec = t.obj.spec /\ u.obj.note = t.obj.note
           /\ u.obj.status \in {t.obj.status, api[r].status}
    BY <1>1, <1>3, StepsType, MarkPendingEffect DEF TypeOK, Lives
  <2> HIDE DEF t
  <2>3. Fits(r, o, Old)
    BY <1>1, <2>1, <2>2, AlikeFit
  <2>4. Fits(r, u.obj, Old)
    <3>1. CASE u.obj.status = t.obj.status
      BY <1>1, <2>2, <3>1, AlikeFit
    <3>2. CASE u.obj.status = api[r].status
      BY <1>1, <2>1, <2>2, <3>2, AlikeFit
    <3>3. QED
      BY <2>2, <3>1, <3>2
  <2>5. Looked(r, u, Old)
    BY <1>1, <2>1, <2>2 DEF Looked
  <2>6. QED
    BY <2>2, <2>3, <2>4, <2>5, SaveRightful
<1>4. CASE RecordCreation(w, r)
  <2>1. t.pc = "record" /\ api[r].phase = "live"
    BY <1>4 DEF RecordCreation
  <2>2. PICK o, u :
         /\ Save(w, r, o, u) /\ o.phase = "live"
         /\ o.finalizer = api[r].finalizer
         /\ o.deleting = api[r].deleting /\ o.spec = api[r].spec
         /\ o.creation = t.obj.creation
         /\ o.note = IF t.obj.note = None THEN api[r].note ELSE t.obj.note
         /\ o.status = api[r].status /\ o.ready = api[r].ready
         /\ o.synced = api[r].synced
         /\ u.cur = TRUE
         /\ u.obj.finalizer = o.finalizer
         /\ u.obj.deleting = o.deleting /\ u.obj.spec = o.spec
         /\ u.obj.creation = o.creation /\ u.obj.note = o.note
         /\ \/ u.obj.status = o.status
            \/ t.cur /\ u.obj.status = t.obj.status
         /\ \/ /\ u.pc = "publishCreated" /\ u.obj.ready = api[r].ready
               /\ u.obj.synced = api[r].synced
            \/ /\ u.pc = "status" /\ u.seen = "unknown"
               /\ u.obj.ready = "Creating"
    <3>1. ReconcilerType(Steps, Lives, Clients)
      BY <1>1 DEF TypeOK
    <3> HIDE DEF t
    <3>2. QED
      BY <1>4, <3>1, StepsType, RecordEffect DEF Lives, t
  <2>3. t.obj.spec \in Specs /\ api[r].spec \in Specs
    <3>1. api[r] \in Lives
      BY <1>1, <2>1, LivePhase DEF TypeOK, Lives
    <3>2. QED
      BY <1>1, <2>1, <3>1, TaskTypes DEF Lives, LiveObjects
  <2>4. OneName => GetBucketName(r, t.obj.spec) = GetBucketName(r, api[r].spec)
    BY <2>3, SameName
  <2>5. t.cur => t.obj.spec = api[r].spec
    BY <1>1 DEF Known
  <2> HIDE DEF t
  <2>6. Fits(r, o, Old)
    BY <1>1, <2>2, <2>4 DEF Fits
  <2>7. Fits(r, u.obj, Old)
    BY <1>1, <2>2, <2>4, <2>5, <2>6 DEF Fits
  <2>8. Looked(r, u, Old)
    BY <2>2 DEF Looked
  <2>9. QED
    BY <2>2, <2>6, <2>7, <2>8, SaveRightful
<1>5. QED
  BY <1>2, <1>3, <1>4

\* The other steps of a reconcile that are not calls.
LEMMA OperatorRightful ==
    ASSUME Orderly, Custody, Rightful, Old' \subseteq Old,
           NEW w \in Workers, NEW r \in Resources,
           \/ Sync(w, r) \/ Begin(w, r) \/ ReconcilerStep(w, r)
           \/ CallFails(w, r, Calls(task[w][r])) \/ Abandon(w, r)
    PROVE  Rightful'
<1> DEFINE t == task[w][r]
<1>1. /\ TypeOK /\ Known(r, t, api[r], Owned(r), Made(r))
      /\ Fits(r, t.obj, Old) /\ Fits(r, api[r], Old) /\ Fits(r, cache[w][r].obj, Old)
  BY KeptFacts DEF Rightful
<1>2. CASE Sync(w, r)
  <2>1. /\ api' = api /\ task' = task
        /\ cache' = [cache EXCEPT ![w][r] = [obj |-> api[r], cur |-> TRUE]]
    BY <1>2 DEF Sync
  <2>2. \A v \in Workers, q \in Resources :
          cache'[v][q].obj \in {cache[v][q].obj, api[q]}
    BY <1>1, <2>1 DEF TypeOK, ReconcilerType
  <2>3. ASSUME NEW v \in Workers, NEW q \in Resources
        PROVE  /\ Fits(q, cache'[v][q].obj, Old')
               /\ Fits(q, task'[v][q].obj, Old') /\ Looked(q, task'[v][q], Old')
    <3>1. /\ Fits(q, cache'[v][q].obj, Old)
          /\ Fits(q, task'[v][q].obj, Old) /\ Looked(q, task'[v][q], Old)
      BY <2>1, <2>2 DEF Rightful
    <3>2. QED
      BY <3>1, FewerFit
  <2>4. \A q \in Resources : Fits(q, api'[q], Old')
    BY <2>1, FewerFit DEF Rightful
  <2>5. QED
    BY <2>3, <2>4 DEF Rightful
<1>3. CASE Begin(w, r)
  <2> DEFINE c == cache[w][r]
             u == FirstStep(r, [Idle EXCEPT !.pc = "connect", !.obj = c.obj,
                                            !.cur = c.cur])
  <2>1. /\ Goto(w, r, u) /\ u.obj.status = c.obj.status /\ u.obj.note = c.obj.note
        /\ u.obj.spec = c.obj.spec /\ u.pc \in {"finalize", "status", "connect"}
    BY <1>1, <1>3, Begun
  <2> HIDE DEF c, u
  <2>2. Fits(r, u.obj, Old) /\ Looked(r, u, Old)
    BY <1>1, <2>1, AlikeFit DEF Looked, c
  <2>3. QED
    BY <2>1, <2>2, GotoRightful
<1>4. CASE Conflict(w, r) \/ Abandon(w, r)
  BY <1>4, IdleFits, GotoRightful DEF Conflict, Abandon
<1>5. CASE CallFails(w, r, Calls(t))
  <2>1. Goto(w, r, OnError(t)) /\ t.pc # "idle"
    BY <1>5 DEF CallFails, Calls
  <2>2. Failed(t, OnError(t))
    BY <1>1, <2>1, TaskTypes, EndedEffect
  <2>3. QED
    BY <2>1, <2>2, EndedRightful DEF Failed
<1>6. CASE RemoveFinalizer(w, r)
  BY <1>6, IdleFits, SaveRightful DEF RemoveFinalizer
<1>7. CASE WriteStatus(w, r)
  <2>1. t.pc = "status" /\ t.cur
    BY <1>7 DEF WriteStatus, WriteAccepted
  <2>2. PICK o : /\ Save(w, r, o, Idle) /\ o.spec = api[r].spec
                 /\ o.note = api[r].note /\ o.status = t.obj.status
    BY <1>1, <1>7, EndEffect DEF TypeOK, Lives
  <2>3. t.obj.spec = api[r].spec
    BY <1>1, <2>1 DEF Known
  <2> HIDE DEF t
  <2>4. Fits(r, o, Old)
    BY <1>1, <2>2, <2>3 DEF Fits
  <2>5. QED
    BY <2>2, <2>4, IdleFits, SaveRightful
<1>8. QED
  BY <1>2, <1>3, <1>4, <1>5, <1>6, <1>7, AroundCreateRightful DEF ReconcilerStep

\* Outside the operator: with the webhook, or when names are not edited, the name
\* stays the one in the status.
LEMMA EnvironmentRightful ==
    ASSUME Webhook \/ OneName, Orderly, Rightful, Old' \subseteq Old, Environment
    PROVE  Rightful'
<1>1. TypeOK
  BY DEF Orderly
<1>2. ASSUME NEW r \in Resources,
             (\E spec \in Specs : Apply(r, spec)) \/ RequestDeletion(r)
      PROVE  Rightful'
  <2>1. Fits(r, api[r], Old)
    BY DEF Rightful
  <2>2. CASE \E spec \in Specs : Apply(r, spec)
    <3>1. PICK o : Store(r, o) /\ o.note = None /\ o.status = None
      BY <1>1, <2>2, UserEffect DEF TypeOK, Lives
    <3>2. QED
      BY <3>1, NothingFits, StoreRightful
  <2>3. CASE RequestDeletion(r)
    <3>1. \/ Store(r, Gone)
          \/ \E o : /\ Store(r, o) /\ o.note = api[r].note /\ o.spec = api[r].spec
                    /\ o.status = api[r].status
      BY <1>1, <2>3, UserEffect DEF TypeOK, Lives
    <3>2. QED
      BY <2>1, <3>1, AlikeFit, IdleFits, StoreRightful
  <2>4. QED
    BY <1>2, <2>2, <2>3
<1>3. ASSUME NEW r \in Resources, NEW spec \in Specs, Edit(r, spec)
      PROVE  Rightful'
  <2> DEFINE o == [api[r] EXCEPT !.spec = spec]
  <2>1. /\ api[r].phase = "live" /\ Store(r, o) /\ Admitted(r, api[r], spec)
        /\ Fits(r, api[r], Old)
    BY <1>3 DEF Edit, Rightful
  <2>2. api[r] \in Lives
    BY <1>1, <2>1, LivePhase DEF TypeOK, Lives
  <2>3. /\ o.spec = spec /\ o.note = api[r].note /\ o.status = api[r].status
        /\ api[r].spec \in Specs
    BY <2>2 DEF Lives, LiveObjects
  <2> HIDE DEF o
  <2>4. OneName => GetBucketName(r, spec) = GetBucketName(r, api[r].spec)
    BY <2>3, SameName
  <2>5. api[r].status # None => GetBucketName(r, spec) = api[r].status
    BY <2>1, <2>4 DEF Admitted, ValidateUpdate, Fits
  <2>6. Fits(r, o, Old)
    BY <2>1, <2>3, <2>4, <2>5 DEF Fits
  <2>7. QED
    BY <2>1, <2>6, StoreRightful
<1>4. ASSUME UNCHANGED <<api, cache, task>>
      PROVE  Rightful'
  BY <1>4, FewerFit DEF Rightful
<1>5. QED
  BY <1>2, <1>3, <1>4 DEF Environment, S3Intervention, CredentialsChange, AccountRemoved

LEMMA RightfulStep ==
    ASSUME Webhook \/ OneName, Orderly, Custody, Rightful, [Next]_vars
    PROVE  Rightful'
<1>1. Old' \subseteq Old
  BY OldShrinks DEF Orderly
<1>2. ASSUME NEW w \in Workers, NEW r \in Resources,
             \/ (Sync(w, r) \/ Begin(w, r)) /\ UNCHANGED <<s3, creds, accounts, lost>>
             \/ Progress(w, r) \/ Failure(w, r)
      PROVE  Rightful'
  BY <1>1, <1>2, CallsRightful, OperatorRightful DEF Progress, Failure
<1>3. CASE UNCHANGED vars
  BY <1>1, <1>3, FewerFit DEF vars, Rightful
<1>4. QED
  BY <1>1, <1>2, <1>3, EnvironmentRightful DEF Next

\* Credentials and accounts are not part of it.
LEMMA RightfulAside ==
    ASSUME Rightful, UNCHANGED <<api, cache, task, s3>>
    PROVE  Rightful'
<1>1. Old' = Old
  BY DEF Old
<1>2. QED
  BY <1>1, FewerFit DEF Rightful

\* No object says anything about names in the beginning.
LEMMA RightfulStart ==
    ASSUME ReconcilerInit
    PROVE  Rightful
<1>1. ASSUME NEW r \in Resources
      PROVE  /\ Fits(r, api[r], Old)
             /\ \A w \in Workers :
                  /\ Fits(r, cache[w][r].obj, Old)
                  /\ Fits(r, task[w][r].obj, Old) /\ Looked(r, task[w][r], Old)
  <2>1. api[r] = Blank
        /\ \A w \in Workers : cache[w][r].obj = Blank /\ task[w][r] = Idle
    BY DEF ReconcilerInit
  <2>2. QED
    BY <2>1, IdleFits
<1>2. QED
  BY <1>1 DEF Rightful

\* With the webhook, or while names are not edited, names of buckets stay where they
\* are: the status, the spec and the copies of both, however old, are about one bucket.
THEOREM RightfulAlways ==
    ASSUME Webhook \/ OneName
    PROVE  Spec => []Rightful
<1>1. Init => Orderly /\ Custody /\ Rightful
  BY OrderlyInit, CustodyInit, RightfulStart DEF Init
<1>2. Orderly /\ Custody /\ Rightful /\ [Next]_vars => (Orderly /\ Custody /\ Rightful)'
  BY OrderlyStep, CustodyStep, RightfulStep
<1>3. QED
  BY <1>1, <1>2, PTL DEF Spec

\* With the webhook, the bucket in the status is the one the spec names: an edit
\* cannot slip in between a reconcile that computes the status from an old copy and
\* the write of that status.
THEOREM StatusMatchesSpec ==
    ASSUME Webhook
    PROVE  Spec => []SpecMatchesStatus
<1>1. Rightful => SpecMatchesStatus
  BY DEF Rightful, Fits, SpecMatchesStatus
<1>2. QED
  BY <1>1, RightfulAlways, PTL

\* As long as names are not edited, no bucket that was there before the provider is
\* taken over by a resource, whatever races it with other instances and users of S3.
THEOREM PreexistingLeftAlone == Spec => []PreexistingNeverAdopted
<1>1. Orderly /\ Rightful => PreexistingNeverAdopted
  <2> SUFFICES ASSUME Orderly, Rightful, OneName, NEW r \in Resources,
                      NEW o \in {api[r]} \cup {task[w][r].obj : w \in Workers},
                      o.status # None
               PROVE  s3[o.status].creator # "before"
    BY DEF PreexistingNeverAdopted, OneName
  <2>1. Fits(r, o, Old)
    BY DEF Rightful
  <2>2. o \in {Blank, Gone} \cup Lives
    BY DEF Orderly, TypeOK, ReconcilerType, Running, Idle
  <2>3. o.status \in BucketNames
    BY <2>2 DEF Blank, Gone, Lives, LiveObjects
  <2>4. QED
    BY <2>1, <2>3 DEF Fits, Old
<1>2. CASE OneName
  <2>1. Spec => []Rightful
    BY <1>2, RightfulAlways
  <2>2. QED
    BY <1>1, <2>1, OrderlyHolds, PTL
<1>3. CASE ~OneName
  <2>1. PreexistingNeverAdopted
    BY <1>3 DEF PreexistingNeverAdopted, OneName
  <2>2. QED
    BY <2>1, PTL
<1>4. QED
  BY <1>2, <1>3

------------------------------------------------------------------------------
(* The controller implements ExternalResource.  Two resources with one name  *)
(* would share a bucket (OneManagerPerBucket), so that the deletion of one    *)
(* takes the bucket of the other.                                            *)

\* No two resources can be given one name, one that has none in its spec included.
DistinctNames ==
    \A q, r \in Resources : \A old, new \in Specs :
        GetBucketName(q, old) = GetBucketName(r, new) => q = r

\* A bucket has a name that its resource was given once.
MadeByName ==
    \A q \in Resources : \A n \in Made(q) : \E spec \in Specs : n = GetBucketName(q, spec)

\* The abstract step, from what happens to each resource.
LEMMA AbstractStep ==
    ASSUME \/ /\ UNCHANGED mishaps
              /\ \A q \in Resources : Wish(q)' = Wish(q) /\ Owned(q)' = Owned(q)
           \/ /\ mishaps' = mishaps + 1
              /\ \A q \in Resources : Wish(q)' = Wish(q)
              /\ \/ \A q \in Resources : Owned(q)' = Owned(q)
                 \/ \E r \in Resources :
                       /\ Owned(r)' = {}
                       /\ \A q \in Resources : q # r => Owned(q)' = Owned(q)
           \/ \E r \in Resources :
                 /\ UNCHANGED mishaps
                 /\ \A q \in Resources : Owned(q)' = Owned(q)
                 /\ \A q \in Resources : q # r => Wish(q)' = Wish(q)
                 /\ \/ Wish(r) = "new" /\ Wish(r)' = "live"
                    \/ Wish(r) = "live" /\ Wish(r)' = "deleting"
                    \/ /\ Wish(r) \in {"live", "deleting"} /\ Wish(r)' = "gone"
                       /\ Owned(r) = {} \/ (Wish(r) = "deleting" /\ r \in Orphans)
           \/ \E r \in Resources :
                 /\ UNCHANGED mishaps
                 /\ \A q \in Resources : Wish(q)' = Wish(q)
                 /\ \A q \in Resources : q # r => Owned(q)' = Owned(q)
                 /\ \/ /\ Owned(r) = {} /\ \E n \in BucketNames : Owned(r)' = {n}
                       /\ \/ Wish(r) \in {"live", "deleting"}
                          \/ Wish(r) = "gone" /\ r \in Orphans
                    \/ Wish(r) = "deleting" /\ r \notin Orphans /\ Owned(r)' = {}
    PROVE  [External!Next]_(External!vars)
<1> DEFINE wishes == [r \in Resources |-> Wish(r)]
           owned == [r \in Resources |-> Owned(r)]
<1>1. /\ \A r \in Resources : wishes[r] = Wish(r) /\ owned[r] = Owned(r)
      /\ \A r \in Resources : wishes'[r] = Wish(r)' /\ owned'[r] = Owned(r)'
      /\ wishes = [r \in Resources |-> wishes[r]]
      /\ wishes' = [r \in Resources |-> wishes'[r]]
      /\ owned = [r \in Resources |-> owned[r]]
      /\ owned' = [r \in Resources |-> owned'[r]]
  OBVIOUS
<1>2. /\ External!vars = <<wishes, owned, mishaps>>
      /\ External!vars' = <<wishes', owned', mishaps'>>
  BY DEF External!vars
<1>3. \A r \in Resources :
        /\ External!Ask(r) <=>
             /\ wishes[r] = "new" /\ wishes' = [wishes EXCEPT ![r] = "live"]
             /\ owned' = owned /\ mishaps' = mishaps
        /\ External!Withdraw(r) <=>
             /\ wishes[r] = "live" /\ wishes' = [wishes EXCEPT ![r] = "deleting"]
             /\ owned' = owned /\ mishaps' = mishaps
        /\ External!Provision(r) <=>
             /\ owned[r] = {}
             /\ \/ wishes[r] \in {"live", "deleting"}
                \/ wishes[r] = "gone" /\ r \in Orphans
             /\ \E x \in BucketNames : owned' = [owned EXCEPT ![r] = {x}]
             /\ wishes' = wishes /\ mishaps' = mishaps
        /\ External!Deprovision(r) <=>
             /\ wishes[r] = "deleting" /\ r \notin Orphans
             /\ owned' = [owned EXCEPT ![r] = {}]
             /\ wishes' = wishes /\ mishaps' = mishaps
        /\ External!Release(r) <=>
             /\ wishes[r] \in {"live", "deleting"}
             /\ \/ owned[r] = {}
                \/ wishes[r] = "deleting" /\ r \in Orphans
             /\ wishes' = [wishes EXCEPT ![r] = "gone"]
             /\ owned' = owned /\ mishaps' = mishaps
  BY DEF External!Ask, External!Withdraw, External!Provision, External!Deprovision,
         External!Release
<1>4. External!Fault <=>
        /\ mishaps' = mishaps + 1
        /\ owned' = owned \/ \E r \in Resources : owned' = [owned EXCEPT ![r] = {}]
        /\ wishes' = wishes
  BY DEF External!Fault
<1> HIDE DEF wishes, owned
<1>5. /\ (\A q \in Resources : Wish(q)' = Wish(q)) => wishes' = wishes
      /\ (\A q \in Resources : Owned(q)' = Owned(q)) => owned' = owned
      /\ \A x : \A r \in Resources :
           /\ Wish(r)' = x /\ (\A q \in Resources : q # r => Wish(q)' = Wish(q))
                => wishes' = [wishes EXCEPT ![r] = x]
           /\ Owned(r)' = x /\ (\A q \in Resources : q # r => Owned(q)' = Owned(q))
                => owned' = [owned EXCEPT ![r] = x]
  BY <1>1
<1>6. CASE /\ UNCHANGED mishaps
           /\ \A q \in Resources : Wish(q)' = Wish(q) /\ Owned(q)' = Owned(q)
  BY <1>2, <1>5, <1>6
<1>7. CASE /\ mishaps' = mishaps + 1
           /\ \A q \in Resources : Wish(q)' = Wish(q)
           /\ \/ \A q \in Resources : Owned(q)' = Owned(q)
              \/ \E r \in Resources :
                    /\ Owned(r)' = {}
                    /\ \A q \in Resources : q # r => Owned(q)' = Owned(q)
  <2>1. External!Fault
    BY <1>4, <1>5, <1>7
  <2>2. QED
    BY <2>1 DEF External!Next
<1>8. ASSUME NEW r \in Resources,
             /\ UNCHANGED mishaps
             /\ \A q \in Resources : Owned(q)' = Owned(q)
             /\ \A q \in Resources : q # r => Wish(q)' = Wish(q)
             /\ \/ Wish(r) = "new" /\ Wish(r)' = "live"
                \/ Wish(r) = "live" /\ Wish(r)' = "deleting"
                \/ /\ Wish(r) \in {"live", "deleting"} /\ Wish(r)' = "gone"
                   /\ Owned(r) = {} \/ (Wish(r) = "deleting" /\ r \in Orphans)
      PROVE  External!Next
  <2>1. External!Ask(r) \/ External!Withdraw(r) \/ External!Release(r)
    BY <1>1, <1>3, <1>5, <1>8
  <2>2. QED
    BY <2>1 DEF External!Next
<1>9. ASSUME NEW r \in Resources,
             /\ UNCHANGED mishaps
             /\ \A q \in Resources : Wish(q)' = Wish(q)
             /\ \A q \in Resources : q # r => Owned(q)' = Owned(q)
             /\ \/ /\ Owned(r) = {} /\ \E n \in BucketNames : Owned(r)' = {n}
                   /\ \/ Wish(r) \in {"live", "deleting"}
                      \/ Wish(r) = "gone" /\ r \in Orphans
                \/ Wish(r) = "deleting" /\ r \notin Orphans /\ Owned(r)' = {}
      PROVE  External!Next
  <2>1. External!Provision(r) \/ External!Deprovision(r)
    BY <1>1, <1>3, <1>5, <1>9
  <2>2. QED
    BY <2>1 DEF External!Next
<1>10. QED
  BY <1>6, <1>7, <1>8, <1>9

\* What becomes of the buckets that resources own when the bucket n is made,
\* removed, or holds other objects.
LEMMA OwnedAfter ==
    ASSUME TypeOK, NEW n \in BucketNames
    PROVE  /\ UNCHANGED <<s3, lost>> =>
                \A q \in Resources : Owned(q)' = Owned(q) /\ Made(q)' = Made(q)
           /\ \A x \in BOOLEAN :
                s3' = [s3 EXCEPT ![n].objects = x] =>
                   \A q \in Resources :
                      Made(q)' = Made(q) /\ (UNCHANGED lost => Owned(q)' = Owned(q))
           /\ s3' = [s3 EXCEPT ![n] = NoBucket] =>
                \A q \in Resources :
                   /\ Made(q)' = Made(q) \ {n}
                   /\ lost' = lost \ {n} => Owned(q)' = Owned(q) \ {n}
           /\ \A b : ~Exists(n) /\ s3' = [s3 EXCEPT ![n] = b] =>
                \A q \in Resources :
                   Made(q)' = IF b.creator = q THEN Made(q) \cup {n} ELSE Made(q)
<1>1. s3 \in [BucketNames -> Buckets]
  BY DEF TypeOK
<1>2. NoBucket.creator \notin Resources
  BY BucketAssumption DEF NoBucket
<1>3. UNCHANGED <<s3, lost>> =>
        \A q \in Resources : Owned(q)' = Owned(q) /\ Made(q)' = Made(q)
  BY DEF Owned, Made
<1>4. ASSUME NEW x \in BOOLEAN, s3' = [s3 EXCEPT ![n].objects = x]
      PROVE  \A q \in Resources :
                Made(q)' = Made(q) /\ (UNCHANGED lost => Owned(q)' = Owned(q))
  <2>1. \A m \in BucketNames : s3'[m] = IF m = n THEN [s3[m] EXCEPT !.objects = x] ELSE s3[m]
    BY <1>1, <1>4
  <2>2. \A b \in Buckets : [b EXCEPT !.objects = x].creator = b.creator
    BY DEF Buckets, NoBucket
  <2>3. \A m \in BucketNames : s3'[m].creator = s3[m].creator
    BY <1>1, <2>1, <2>2
  <2>4. QED
    BY <2>3 DEF Owned, Made
<1>5. ASSUME s3' = [s3 EXCEPT ![n] = NoBucket]
      PROVE  \A q \in Resources :
                /\ Made(q)' = Made(q) \ {n}
                /\ lost' = lost \ {n} => Owned(q)' = Owned(q) \ {n}
  <2>1. \A q \in Resources : Made(q)' = Made(q) \ {n}
    BY <1>1, <1>2, <1>5 DEF Made
  <2>2. QED
    BY <2>1 DEF Owned
<1>6. ASSUME NEW b, ~Exists(n), s3' = [s3 EXCEPT ![n] = b]
      PROVE  \A q \in Resources :
                Made(q)' = IF b.creator = q THEN Made(q) \cup {n} ELSE Made(q)
  <2>1. s3[n].creator \notin Resources
    BY <1>2, <1>6 DEF Exists
  <2>2. QED
    BY <1>1, <1>6, <2>1 DEF Made
<1>7. QED
  BY <1>3, <1>4, <1>5, <1>6

\* A mishap counts.
LEMMA MishapCounts == ASSUME Mishap PROVE mishaps' = mishaps + 1
BY DEF Mishap

LEMMA SameWish ==
    ASSUME NEW q \in Resources, api'[q].phase = api[q].phase, api'[q].deleting = api[q].deleting
    PROVE  Wish(q)' = Wish(q)
BY DEF Wish

\* The calls of Create: a bucket is made for a resource that has none, and counts as
\* its own unless the call does not answer or the resource goes by another name.
LEMMA CreateAbstract ==
    ASSUME Orderly, Custody, NEW w \in Workers, NEW r \in Resources,
           MakeBucket(w, r) \/ MakeExistingBucket(w, r) \/ CreateFails(w, r)
    PROVE  [External!Next]_(External!vars)
<1> DEFINE t == task[w][r]
           n == GetBucketName(r, t.obj.spec)
<1>1. /\ TypeOK /\ t.pc = "create" /\ api' = api
  BY CreateEffect, GotoEffect DEF Orderly, TypeOK
<1>2. n \in BucketNames /\ \A q \in Resources : Wish(q)' = Wish(q)
  BY <1>1, TaskTypes, NameTypes, SameWish
<1>3. Owned(r) = {}
  BY <1>1, KeptFacts DEF Seen
<1>4. /\ api[r].phase = "gone" => r \in Orphans
      /\ api[r].phase # "gone" => api[r].phase = "live"
  BY <1>1, Awaited DEF CreateSteps
<1>5. ASSUME NewBucket(r, t)
      PROVE  /\ \A q \in Resources : Made(q)' = IF r = q THEN Made(q) \cup {n} ELSE Made(q)
             /\ \A m \in BucketNames : s3'[m].creator = r <=> m \in Made(r) \cup {n}
  <2> DEFINE b == [region |-> t.obj.spec.region, account |-> t.ctx, creator |-> r,
                   objects |-> FALSE]
  <2>1. ~Exists(n) /\ s3' = [s3 EXCEPT ![n] = b]
    BY <1>5 DEF NewBucket
  <2>2. b.creator = r
    OBVIOUS
  <2> HIDE DEF b
  <2>3. \A q \in Resources : Made(q)' = IF r = q THEN Made(q) \cup {n} ELSE Made(q)
    BY <1>1, <1>2, <2>1, <2>2, OwnedAfter, ZenonT(40)
  <2>4. Made(r)' = Made(r) \cup {n}
    BY <2>3
  <2>5. QED
    BY <2>3, <2>4 DEF Made
<1> HIDE DEF n, t
<1>6. CASE MakeBucket(w, r)
  <2>1. /\ NewBucket(r, t) /\ UNCHANGED mishaps
        /\ lost' = IF api[r].phase = "live"
                   THEN lost \cup Disowned(r, api[r].spec, s3') ELSE lost
    BY <1>6 DEF MakeBucket, t
  <2>2. \A q \in Resources : q # r => Owned(q)' = Owned(q)
    <3>1. \A q \in Resources : q # r => Made(q) \cap Disowned(r, api[r].spec, s3') = {}
      <4>1. ASSUME NEW q \in Resources, q # r, NEW m \in Made(q)
            PROVE  s3'[m].creator = q
        <5>1. m \in Made(q)'
          BY <1>5, <2>1, <4>1
        <5>2. QED
          BY <5>1 DEF Made
      <4>2. QED
        BY <4>1 DEF Disowned
    <3>2. QED
      BY <1>5, <2>1, <3>1 DEF Owned
  <2>3. Owned(r)' = {} \/ Owned(r)' = {n}
    <3>1. lost \subseteq lost'
      BY <2>1
    <3>2. Owned(r)' \subseteq {n}
      BY <1>3, <1>5, <2>1, <3>1 DEF Owned
    <3>3. QED
      BY <3>2
  <2>4. Wish(r) \in {"live", "deleting"} \/ (Wish(r) = "gone" /\ r \in Orphans)
    BY <1>4 DEF Wish
  <2>5. CASE Owned(r)' = {}
    <3>1. \A q \in Resources : Owned(q)' = Owned(q)
      BY <1>3, <2>2, <2>5
    <3>2. QED
      BY <1>2, <2>1, <3>1, AbstractStep
  <2>6. CASE Owned(r)' = {n}
    BY <1>2, <1>3, <2>1, <2>2, <2>4, <2>6, AbstractStep
  <2>7. QED
    BY <2>3, <2>5, <2>6
<1>7. CASE MakeExistingBucket(w, r)
  <2>1. UNCHANGED <<s3, lost, mishaps>>
    BY <1>7 DEF MakeExistingBucket
  <2>2. \A q \in Resources : Owned(q)' = Owned(q)
    BY <1>1, <1>2, <2>1, OwnedAfter
  <2>3. QED
    BY <1>2, <2>1, <2>2, AbstractStep
<1>8. CASE CreateFails(w, r)
  <2>1. /\ mishaps' = mishaps + 1
        /\ \/ UNCHANGED <<s3, lost>>
           \/ NewBucket(r, t) /\ lost' = lost \cup {n}
    BY <1>8, MishapCounts DEF CreateFails, t, n
  <2>2. \A q \in Resources : Owned(q)' = Owned(q)
    <3>1. CASE UNCHANGED <<s3, lost>>
      BY <1>1, <1>2, <3>1, OwnedAfter
    <3>2. CASE NewBucket(r, t) /\ lost' = lost \cup {n}
      <4>1. \A q \in Resources : q # r => n \notin Made(q)
        <5>1. ~Exists(n)
          BY <3>2 DEF NewBucket, n
        <5>2. QED
          BY <5>1, NoMaker DEF Made
      <4>2. QED
        BY <1>3, <1>5, <3>2, <4>1 DEF Owned
    <3>3. QED
      BY <2>1, <3>1, <3>2
  <2>3. QED
    BY <1>2, <2>1, <2>2, AbstractStep
<1>9. QED
  BY <1>6, <1>7, <1>8

\* The calls of Delete: only the bucket of the resource itself is removed, and only
\* when its deletion is requested.
LEMMA DeleteAbstract ==
    ASSUME DistinctNames, Orderly, Custody, MadeByName, NEW w \in Workers, NEW r \in Resources,
           \/ RemoveObjects(w, r) \/ ListingFails(w, r) \/ RemoveObjectsFails(w, r)
           \/ RemoveBucket(w, r) \/ RemoveBucketRefused(w, r) \/ RemoveAnswerLost(w, r)
    PROVE  [External!Next]_(External!vars)
<1> DEFINE t == task[w][r]
           n == t.obj.status
<1>1. /\ TypeOK /\ t.pc \in {"removeObjects", "delete"} /\ api' = api
      /\ UNCHANGED mishaps \/ Mishap
      /\ \/ UNCHANGED <<s3, lost>>
         \/ /\ Exists(n) /\ s3' = [s3 EXCEPT ![n].objects = FALSE]
            /\ UNCHANGED lost
         \/ /\ Exists(n) /\ s3' = [s3 EXCEPT ![n] = NoBucket]
            /\ lost' = lost \ {n}
  <2>1. TypeOK
    BY DEF Orderly
  <2>2. api' = api
    BY <2>1, DeleteEffect, GotoEffect, ZenonT(40) DEF TypeOK
  <2>3. QED
    BY <2>1, <2>2, DeleteEffect
<1>2. /\ r \notin Orphans /\ n = GetBucketName(r, t.obj.spec)
      /\ t.obj.deleting
  BY <1>1, KeptFacts DEF Sound, Directed, DeleteSteps
<1>3. t.obj.spec \in Specs /\ n \in BucketNames
  BY <1>1, <1>2, TaskTypes, NameTypes
<1>4. \A q \in Resources : Wish(q)' = Wish(q)
  BY <1>1, SameWish
<1>5. ASSUME NEW q \in Resources, n \in Made(q)
      PROVE  q = r
  BY <1>2, <1>3, <1>5 DEF DistinctNames, MadeByName
<1>6. Owned(r) # {} => Wish(r) = "deleting"
  BY <1>1, <1>2, KeptFacts DEF Stored, Known, Aged, Wish
<1> HIDE DEF n, t
<1>7. CASE \A q \in Resources : Owned(q)' = Owned(q)
  <2>1. CASE UNCHANGED mishaps
    BY <1>4, <1>7, <2>1, AbstractStep
  <2>2. CASE Mishap
    BY <1>4, <1>7, <2>2, MishapCounts, AbstractStep
  <2>3. QED
    BY <1>1, <2>1, <2>2
<1>8. CASE s3' = [s3 EXCEPT ![n] = NoBucket] /\ lost' = lost \ {n}
  <2>1. \A q \in Resources : Owned(q)' = Owned(q) \ {n}
    BY <1>1, <1>3, <1>8, OwnedAfter
  <2>2. \A q \in Resources : q # r => Owned(q)' = Owned(q)
    BY <1>5, <2>1 DEF Owned
  <2>3. CASE n \notin Owned(r)
    <3>1. \A q \in Resources : Owned(q)' = Owned(q)
      BY <2>1, <2>2, <2>3
    <3>2. QED
      BY <1>7, <3>1
  <2>4. CASE n \in Owned(r)
    <3>1. Owned(r)' = {}
      <4>1. \A m \in Owned(r) : m = n
        BY <2>4, KeptFacts DEF Stored
      <4>2. QED
        BY <2>1, <4>1
    <3>2. CASE UNCHANGED mishaps
      BY <1>2, <1>4, <1>6, <2>2, <2>4, <3>1, <3>2, AbstractStep
    <3>3. CASE Mishap
      BY <1>4, <2>2, <3>1, <3>3, MishapCounts, AbstractStep
    <3>4. QED
      BY <1>1, <3>2, <3>3
  <2>5. QED
    BY <2>3, <2>4
<1>9. CASE UNCHANGED <<s3, lost>>
  BY <1>1, <1>3, <1>7, <1>9, OwnedAfter
<1>10. CASE s3' = [s3 EXCEPT ![n].objects = FALSE] /\ UNCHANGED lost
  BY <1>1, <1>3, <1>7, <1>10, OwnedAfter
<1>11. QED
  BY <1>1, <1>8, <1>9, <1>10, SMTT(30)

\* A reconcile that goes on without a write is nothing to see.
LEMMA GotoAbstract ==
    ASSUME Orderly, NEW w \in Workers, NEW r \in Resources, NEW u, Goto(w, r, u),
           UNCHANGED <<s3, lost>>, UNCHANGED mishaps \/ Mishap
    PROVE  [External!Next]_(External!vars)
<1>1. TypeOK /\ api' = api
  BY GotoEffect DEF Orderly, TypeOK
<1>2. \A q \in Resources : Wish(q)' = Wish(q) /\ Owned(q)' = Owned(q)
  BY <1>1, SameWish DEF Owned, Made
<1>3. QED
  BY <1>2, MishapCounts, AbstractStep

\* The writes of the reconciler: the managed resource goes when the external one is
\* gone, or is to be left behind.
LEMMA OperatorAbstract ==
    ASSUME Orderly, Custody, NEW w \in Workers, NEW r \in Resources,
           \/ Sync(w, r) \/ Begin(w, r) \/ ReconcilerStep(w, r)
           \/ CallFails(w, r, Calls(task[w][r])) \/ Abandon(w, r),
           UNCHANGED <<s3, lost>>
    PROVE  [External!Next]_(External!vars)
<1> DEFINE t == task[w][r]
<1>1. TypeOK /\ \A q \in Resources : Owned(q)' = Owned(q)
  BY DEF Orderly, Owned, Made
<1>2. CASE Sync(w, r)
  <2>1. UNCHANGED mishaps /\ \A q \in Resources : Wish(q)' = Wish(q)
    BY <1>2 DEF Sync, Wish
  <2>2. QED
    BY <1>1, <2>1, AbstractStep
<1>3. CASE Begin(w, r) \/ Conflict(w, r) \/ CallFails(w, r, Calls(t)) \/ Abandon(w, r)
  BY <1>3, GotoAbstract DEF Begin, Conflict, CallFails, Abandon
<1>4. ASSUME NEW o, NEW u, Save(w, r, o, u), UNCHANGED mishaps,
             o.phase = api[r].phase, o.deleting = api[r].deleting
      PROVE  [External!Next]_(External!vars)
  <2>1. \A q \in Resources : api'[q] = IF q = r THEN o ELSE api[q]
    BY <1>1, <1>4, SaveEffect DEF TypeOK
  <2>2. \A q \in Resources : Wish(q)' = Wish(q)
    BY <1>4, <2>1, SameWish
  <2>3. QED
    BY <1>1, <1>4, <2>2, AbstractStep
<1>5. CASE AddFinalizer(w, r)
  <2>1. \E o, u : /\ Save(w, r, o, u) /\ o.phase = "live" /\ o.deleting = t.obj.deleting
    BY <1>1, <1>5, StepsType, AddFinalizerEffect DEF TypeOK, Lives
  <2>2. t.cur /\ api[r].phase = "live" /\ UNCHANGED mishaps
    BY <1>5 DEF AddFinalizer, WriteAccepted
  <2>3. QED
    BY <1>4, <2>1, <2>2, KeptFacts
<1>6. CASE MarkPending(w, r)
  <2>1. \E o, u : /\ Save(w, r, o, u) /\ o.phase = "live" /\ o.deleting = t.obj.deleting
    BY <1>1, <1>6, StepsType, MarkPendingEffect DEF TypeOK, Lives
  <2>2. t.cur /\ api[r].phase = "live" /\ UNCHANGED mishaps
    BY <1>6 DEF MarkPending, WriteAccepted
  <2>3. QED
    BY <1>4, <2>1, <2>2, KeptFacts
<1>7. CASE RecordCreation(w, r)
  <2>1. api[r].phase = "live" /\ UNCHANGED mishaps
    BY <1>7 DEF RecordCreation
  <2> DEFINE o == [api[r] EXCEPT !.creation = t.obj.creation,
                                 !.note = IF t.obj.note = None THEN @ ELSE t.obj.note]
  <2>2. \E u : Save(w, r, o, u)
    BY <1>7 DEF RecordCreation
  <2>3. api[r] \in Lives
    BY <1>1, <2>1, LivePhase DEF TypeOK, Lives
  <2>4. o.phase = api[r].phase /\ o.deleting = api[r].deleting
    BY <2>3 DEF Lives, LiveObjects
  <2> HIDE DEF o
  <2>5. QED
    BY <1>4, <2>1, <2>2, <2>4
<1>8. CASE WriteStatus(w, r)
  <2>1. api[r].phase = "live" /\ UNCHANGED mishaps
    BY <1>8 DEF WriteStatus, WriteAccepted
  <2>2. \E o : /\ Save(w, r, o, Idle) /\ o.phase = "live" /\ o.deleting = api[r].deleting
    BY <1>1, <1>8, EndEffect DEF TypeOK, Lives
  <2>3. QED
    BY <1>4, <2>1, <2>2
<1>9. CASE RemoveFinalizer(w, r)
  <2>1. /\ t.pc = "finalize" /\ t.cur /\ api[r].phase = "live"
        /\ Save(w, r, Gone, Idle) /\ UNCHANGED mishaps
    BY <1>9 DEF RemoveFinalizer, WriteAccepted
  <2>2. api[r].deleting
    BY <2>1, KeptFacts DEF Directed, DeleteSteps
  <2>3. r \in Orphans \/ Owned(r) = {}
    BY <2>1, KeptFacts DEF Sound, Seen
  <2>4. /\ api'[r] = Gone /\ \A q \in Resources : q # r => api'[q] = api[q]
    BY <1>1, <2>1, SaveEffect DEF TypeOK
  <2>5. /\ Wish(r) = "deleting" /\ Wish(r)' = "gone"
        /\ \A q \in Resources : q # r => Wish(q)' = Wish(q)
    BY <2>1, <2>2, <2>4 DEF Wish, Gone, Blank
  <2>6. QED
    BY <1>1, <2>1, <2>3, <2>5, AbstractStep
<1>10. QED
  BY <1>2, <1>3, <1>5, <1>6, <1>7, <1>8, <1>9 DEF ReconcilerStep

\* The users of the resource and of S3.
LEMMA EnvironmentAbstract ==
    ASSUME Orderly, Custody, Environment
    PROVE  [External!Next]_(External!vars)
<1>1. TypeOK /\ \A q \in Resources : Stored(q, api[q], Owned(q), Made(q))
  BY DEF Orderly, Custody, Kept
<1>2. ASSUME NEW r \in Resources, UNCHANGED <<s3, lost>>,
             (\E spec \in Specs : Apply(r, spec)) \/ RequestDeletion(r)
      PROVE  [External!Next]_(External!vars)
  <2>1. /\ UNCHANGED mishaps
        /\ \A q \in Resources : Owned(q)' = Owned(q)
    BY <1>2 DEF Apply, RequestDeletion, Owned, Made
  <2>2. PICK o :
          /\ Store(r, o)
          /\ \/ api[r].phase = "new" /\ o.phase = "live" /\ ~o.deleting
             \/ /\ api[r].phase = "live" /\ ~api[r].deleting
                /\ \/ o.phase = "live" /\ o.deleting
                   \/ o = Gone /\ ~api[r].finalizer
    <3>1. CASE \E spec \in Specs : Apply(r, spec)
      BY <1>1, <3>1, UserEffect DEF TypeOK, Lives
    <3>2. CASE RequestDeletion(r)
      BY <1>1, <3>2, UserEffect DEF TypeOK, Lives
    <3>3. QED
      BY <1>2, <3>1, <3>2
  <2>3. /\ api'[r] = o /\ \A q \in Resources : q # r => api'[q] = api[q]
    BY <1>1, <2>2, StoreEffect DEF TypeOK
  <2>4. \A q \in Resources : q # r => Wish(q)' = Wish(q)
    BY <2>3, SameWish
  <2>5. \/ Wish(r) = "new" /\ Wish(r)' = "live"
        \/ Wish(r) = "live" /\ Wish(r)' = "deleting"
        \/ Wish(r) = "live" /\ Wish(r)' = "gone" /\ ~api[r].finalizer /\ api[r].phase = "live"
    BY <2>2, <2>3 DEF Wish, Gone, Blank
  <2>6. ~api[r].finalizer /\ api[r].phase = "live" => Owned(r) = {}
    BY <1>1 DEF Stored
  <2>7. QED
    BY <2>1, <2>4, <2>5, <2>6, AbstractStep
<1>3. ASSUME NEW r \in Resources, NEW spec \in Specs, Edit(r, spec)
      PROVE  [External!Next]_(External!vars)
  <2> DEFINE o == [api[r] EXCEPT !.spec = spec]
  <2>1. /\ api[r].phase = "live" /\ Store(r, o) /\ mishaps' = mishaps + 1
        /\ s3' = s3 /\ lost' = lost \cup Disowned(r, spec, s3)
    BY <1>3, MishapCounts DEF Edit
  <2>2. api[r] \in Lives
    BY <1>1, <2>1, LivePhase DEF TypeOK, Lives
  <2>3. o.phase = api[r].phase /\ o.deleting = api[r].deleting
    BY <2>2 DEF Lives, LiveObjects
  <2> HIDE DEF o
  <2>4. \A q \in Resources : api'[q] = IF q = r THEN o ELSE api[q]
    BY <1>1, <2>1, StoreEffect DEF TypeOK
  <2>5. \A q \in Resources : Wish(q)' = Wish(q)
    BY <2>3, <2>4, SameWish
  <2>6. \A q \in Resources : Made(q)' = Made(q)
    BY <2>1 DEF Made
  <2>7. \A q \in Resources : q # r => Owned(q)' = Owned(q)
    BY <2>1, <2>6 DEF Owned, Made, Disowned
  <2>8. Owned(r)' \subseteq Owned(r)
    BY <2>1, <2>6 DEF Owned
  <2>9. Owned(r)' = Owned(r) \/ Owned(r)' = {}
    BY <1>1, <2>8 DEF Stored
  <2>10. CASE Owned(r)' = Owned(r)
    <3>1. \A q \in Resources : Owned(q)' = Owned(q)
      BY <2>7, <2>10
    <3>2. QED
      BY <2>1, <2>5, <3>1, AbstractStep
  <2>11. CASE Owned(r)' = {}
    BY <2>1, <2>5, <2>7, <2>11, AbstractStep
  <2>12. QED
    BY <2>9, <2>10, <2>11
<1>4. ASSUME NEW n \in BucketNames, S3Intervention(n)
      PROVE  [External!Next]_(External!vars)
  <2>1. /\ mishaps' = mishaps + 1 /\ api' = api
        /\ \/ /\ ~Exists(n) /\ UNCHANGED lost
              /\ \E b \in Buckets : b.creator = "outside" /\ s3' = [s3 EXCEPT ![n] = b]
           \/ lost' = lost \ {n} /\ s3' = [s3 EXCEPT ![n] = NoBucket]
           \/ UNCHANGED lost /\ s3' = [s3 EXCEPT ![n].objects = TRUE]
    BY <1>4, MishapCounts DEF S3Intervention
  <2>2. \A q \in Resources : Wish(q)' = Wish(q)
    BY <2>1, SameWish
  <2>3. CASE \A q \in Resources : Owned(q)' = Owned(q)
    BY <2>1, <2>2, <2>3, AbstractStep
  <2>4. CASE /\ ~Exists(n) /\ UNCHANGED lost
             /\ \E b \in Buckets : b.creator = "outside" /\ s3' = [s3 EXCEPT ![n] = b]
    <3>1. PICK b \in Buckets : b.creator = "outside" /\ s3' = [s3 EXCEPT ![n] = b]
      BY <2>4
    <3>2. \A q \in Resources : Made(q)' = Made(q)
      BY <1>1, <2>4, <3>1, OwnedAfter, BucketAssumption, ZenonT(40)
    <3>3. QED
      BY <2>3, <2>4, <3>2 DEF Owned
  <2>5. CASE lost' = lost \ {n} /\ s3' = [s3 EXCEPT ![n] = NoBucket]
    <3>1. \A q \in Resources : Owned(q)' = Owned(q) \ {n}
      BY <1>1, <2>5, OwnedAfter
    <3>2. CASE \A q \in Resources : n \notin Owned(q)
      BY <2>3, <3>1, <3>2
    <3>3. ASSUME NEW r \in Resources, n \in Owned(r)
          PROVE  [External!Next]_(External!vars)
      <4>1. Owned(r)' = {}
        BY <1>1, <3>1, <3>3 DEF Stored
      <4>2. \A q \in Resources : q # r => Owned(q)' = Owned(q)
        BY <3>1, <3>3 DEF Owned, Made
      <4>3. QED
        BY <2>1, <2>2, <4>1, <4>2, AbstractStep
    <3>4. QED
      BY <3>2, <3>3
  <2>6. CASE UNCHANGED lost /\ s3' = [s3 EXCEPT ![n].objects = TRUE]
    BY <1>1, <2>3, <2>6, OwnedAfter
  <2>7. QED
    BY <2>1, <2>4, <2>5, <2>6
<1>5. ASSUME (\E r \in Resources, a \in Accounts \cup {None} : CredentialsChange(r, a))
                \/ \E a \in Accounts : AccountRemoved(a)
      PROVE  [External!Next]_(External!vars)
  <2>1. Mishap /\ UNCHANGED <<api, s3, lost>>
    BY <1>5 DEF CredentialsChange, AccountRemoved
  <2>2. \A q \in Resources : Wish(q)' = Wish(q) /\ Owned(q)' = Owned(q)
    BY <2>1 DEF Wish, Owned, Made
  <2>3. QED
    BY <2>1, <2>2, MishapCounts, AbstractStep
<1>6. QED
  BY <1>2, <1>3, <1>4, <1>5 DEF Environment

\* Names are given to buckets only from specs.
LEMMA MadeByNameStep ==
    ASSUME Orderly, MadeByName, [Next]_vars
    PROVE  MadeByName'
<1>1. TypeOK
  BY DEF Orderly
<1>2. ASSUME \A q \in Resources : Made(q)' \subseteq Made(q)
      PROVE  MadeByName'
  BY <1>2 DEF MadeByName
<1>3. ASSUME NEW w \in Workers, NEW r \in Resources,
             MakeBucket(w, r) \/ MakeExistingBucket(w, r) \/ CreateFails(w, r)
      PROVE  MadeByName'
  <2> DEFINE t == task[w][r]
             n == GetBucketName(r, t.obj.spec)
  <2>1. t.pc = "create"
    BY <1>1, <1>3, CreateEffect
  <2>2. t.obj.spec \in Specs /\ n \in BucketNames
    BY <1>1, <2>1, TaskTypes, NameTypes
  <2>3. CASE UNCHANGED s3
    BY <1>2, <2>3 DEF Made
  <2>4. CASE NewBucket(r, t)
    <3> DEFINE b == [region |-> t.obj.spec.region, account |-> t.ctx, creator |-> r,
                     objects |-> FALSE]
    <3>1. ~Exists(n) /\ s3' = [s3 EXCEPT ![n] = b] /\ b.creator = r
      BY <2>4 DEF NewBucket
    <3> HIDE DEF b
    <3>2. \A q \in Resources : Made(q)' = IF b.creator = q THEN Made(q) \cup {n} ELSE Made(q)
      BY <1>1, <2>2, <3>1, OwnedAfter
    <3>3. \A q \in Resources : Made(q)' = IF r = q THEN Made(q) \cup {n} ELSE Made(q)
      BY <3>1, <3>2
    <3>4. QED
      BY <2>2, <3>3 DEF MadeByName
  <2>5. QED
    BY <1>3, <2>3, <2>4 DEF MakeBucket, MakeExistingBucket, CreateFails
<1>4. ASSUME NEW w \in Workers, NEW r \in Resources,
             \/ RemoveObjects(w, r) \/ ListingFails(w, r) \/ RemoveObjectsFails(w, r)
             \/ RemoveBucket(w, r) \/ RemoveBucketRefused(w, r) \/ RemoveAnswerLost(w, r)
      PROVE  MadeByName'
  <2>1. PICK n : \/ UNCHANGED <<s3, lost>>
                 \/ Exists(n) /\ s3' = [s3 EXCEPT ![n].objects = FALSE] /\ UNCHANGED lost
                 \/ s3' = [s3 EXCEPT ![n] = NoBucket] /\ lost' = lost \ {n}
    BY <1>1, <1>4, DeleteEffect
  <2>2. Fewer
    BY <1>1, <2>1, RemovalFewer
  <2>3. QED
    BY <1>2, <2>2 DEF Fewer
<1>5. ASSUME NEW n \in BucketNames, S3Intervention(n)
      PROVE  MadeByName'
  <2>1. CASE s3' = [s3 EXCEPT ![n] = NoBucket] \/ s3' = [s3 EXCEPT ![n].objects = TRUE]
    <3>1. CASE s3' = [s3 EXCEPT ![n] = NoBucket]
      <4>1. \A q \in Resources : Made(q)' = Made(q) \ {n}
        BY <1>1, <3>1, OwnedAfter
      <4>2. QED
        BY <1>2, <4>1
    <3>2. CASE s3' = [s3 EXCEPT ![n].objects = TRUE]
      <4>1. \A q \in Resources : Made(q)' = Made(q)
        BY <1>1, <3>2, OwnedAfter
      <4>2. QED
        BY <1>2, <4>1
    <3>3. QED
      BY <2>1, <3>1, <3>2
  <2>2. CASE ~Exists(n) /\ \E b \in Buckets : b.creator = "outside" /\ s3' = [s3 EXCEPT ![n] = b]
    <3>1. PICK b \in Buckets : b.creator = "outside" /\ s3' = [s3 EXCEPT ![n] = b]
      BY <2>2
    <3>2. \A q \in Resources : Made(q)' = Made(q)
      BY <1>1, <2>2, <3>1, OwnedAfter, BucketAssumption, ZenonT(40)
    <3>3. QED
      BY <1>2, <3>2
  <2>3. QED
    BY <1>5, <2>1, <2>2 DEF S3Intervention
<1>6. ASSUME UNCHANGED s3
      PROVE  MadeByName'
  BY <1>2, <1>6 DEF Made
<1>7. ASSUME NEW w \in Workers, NEW r \in Resources,
             \/ (Sync(w, r) \/ Begin(w, r)) /\ UNCHANGED <<s3, creds, accounts, lost>>
             \/ Progress(w, r) \/ Failure(w, r)
      PROVE  MadeByName'
  <2>1. \/ UNCHANGED s3
        \/ MakeBucket(w, r) \/ MakeExistingBucket(w, r) \/ CreateFails(w, r)
        \/ RemoveObjects(w, r) \/ ListingFails(w, r) \/ RemoveObjectsFails(w, r)
        \/ RemoveBucket(w, r) \/ RemoveBucketRefused(w, r) \/ RemoveAnswerLost(w, r)
    BY <1>7 DEF Progress, Failure, ConnectNoop, Connect, ObserveNoop, ObserveBucket,
                Publish
  <2>2. QED
    BY <1>3, <1>4, <1>6, <2>1
<1>8. CASE Environment
  <2>1. UNCHANGED s3 \/ \E n \in BucketNames : S3Intervention(n)
    BY <1>8 DEF Environment, Edit, CredentialsChange, AccountRemoved
  <2>2. QED
    BY <1>5, <1>6, <2>1
<1>9. CASE UNCHANGED vars
  BY <1>6, <1>9 DEF vars
<1>10. QED
  BY <1>7, <1>8, <1>9 DEF Next

LEMMA NextAbstract ==
    ASSUME DistinctNames, Orderly, Custody, MadeByName, [Next]_vars
    PROVE  [External!Next]_(External!vars)
<1>1. ASSUME NEW w \in Workers, NEW r \in Resources,
             (Sync(w, r) \/ Begin(w, r)) /\ UNCHANGED <<s3, creds, accounts, lost>>
      PROVE  [External!Next]_(External!vars)
  BY <1>1, OperatorAbstract
<1>2. ASSUME NEW w \in Workers, NEW r \in Resources, Progress(w, r)
      PROVE  [External!Next]_(External!vars)
  <2>1. CASE ReconcilerStep(w, r) /\ UNCHANGED <<s3, creds, accounts, lost>>
    BY <2>1, OperatorAbstract
  <2>2. CASE ConnectNoop(w, r) \/ Connect(w, r) \/ ObserveNoop(w, r) \/ ObserveBucket(w, r)
             \/ Publish(w, r)
    <3>1. (\E u : Goto(w, r, u)) /\ UNCHANGED <<mishaps, s3, creds, accounts, lost>>
      <4>1. CASE ConnectNoop(w, r) \/ Connect(w, r)
        BY <4>1 DEF ConnectNoop, Connect
      <4>2. CASE ObserveNoop(w, r) \/ ObserveBucket(w, r)
        BY <4>2, ObserveEffect DEF Orderly
      <4>3. CASE Publish(w, r)
        BY <4>3 DEF Publish
      <4>4. QED
        BY <2>2, <4>1, <4>2, <4>3
    <3>2. QED
      BY <3>1, GotoAbstract
  <2>3. QED
    BY <1>2, <2>1, <2>2, CreateAbstract, DeleteAbstract DEF Progress
<1>3. ASSUME NEW w \in Workers, NEW r \in Resources, Failure(w, r)
      PROVE  [External!Next]_(External!vars)
  BY <1>3, OperatorAbstract, CreateAbstract, DeleteAbstract DEF Failure
<1>4. CASE UNCHANGED vars
  <2>1. UNCHANGED mishaps /\ \A q \in Resources : Wish(q)' = Wish(q) /\ Owned(q)' = Owned(q)
    BY <1>4 DEF vars, Wish, Owned, Made
  <2>2. QED
    BY <2>1, AbstractStep
<1>5. QED
  BY <1>1, <1>2, <1>3, <1>4, EnvironmentAbstract DEF Next

\* The invariants together, for a system that the controller is a part of.
Held == Orderly /\ Custody /\ Rightful /\ MadeByName

\* Resources come later; the buckets there are have not been made for one.
LEMMA HeldStart ==
    ASSUME ReconcilerInit, CloudType, lost = {},
           \A n \in BucketNames : s3[n].creator \in {None, "before"}
    PROVE  Held
<1>1. \A q \in Resources : Made(q) = {}
  BY BucketAssumption DEF Made
<1>2. MadeByName
  BY <1>1 DEF MadeByName
<1>3. QED
  BY <1>2, OrderlyStart, CustodyStart, RightfulStart DEF Held

LEMMA HeldStep ==
    ASSUME Webhook \/ OneName, DistinctNames, Held, [Next]_vars
    PROVE  Held' /\ [External!Next]_(External!vars)
<1>1. Held'
  BY OrderlyStep, CustodyStep, RightfulStep, MadeByNameStep DEF Held
<1>2. QED
  BY <1>1, NextAbstract DEF Held

\* Credentials and accounts may change at any time, and mishaps elsewhere count, too.
LEMMA HeldAside ==
    ASSUME Held, UNCHANGED <<api, cache, task, s3, lost>>,
           mishaps' \in {mishaps, mishaps + 1}, mishaps' \in 0..MaxMishaps,
           creds' \in [Resources -> Accounts \cup {None}], accounts' \in SUBSET Accounts
    PROVE  Held' /\ [External!Next]_(External!vars)
<1>1. MadeByName'
  BY DEF Held, MadeByName, Made
<1>2. Held'
  BY <1>1, OrderlyAside, CustodyAside, RightfulAside DEF Held
<1>3. \A q \in Resources : Wish(q)' = Wish(q) /\ Owned(q)' = Owned(q)
  BY DEF Wish, Owned, Made
<1>4. QED
  BY <1>2, <1>3, AbstractStep

\* The controller implements the life cycle that ExternalResource promises, when no
\* two resources can have one name: stale caches, races for the name, crashes, renames
\* and other users of S3 do not make it create a second bucket for a resource, remove
\* one that it was not asked to, or let a resource go before its bucket.
THEOREM Implements ==
    ASSUME DistinctNames
    PROVE  Spec => ImplementsExternalResource
<1>1. Init => External!Init /\ Orderly /\ Custody /\ MadeByName
  <2> SUFFICES ASSUME Init PROVE External!Init /\ MadeByName
    BY OrderlyInit, CustodyInit
  <2>1. \A q \in Resources : Made(q) = {}
    <3>1. \A n \in BucketNames : s3[n].creator \in {None, "before"}
      BY DEF Init
    <3>2. QED
      BY <3>1, BucketAssumption DEF Made
  <2>2. \A q \in Resources : Wish(q) = "new" /\ Owned(q) = {}
    BY <2>1 DEF Init, ReconcilerInit, Blank, Wish, Owned
  <2>3. External!Init
    BY <2>2 DEF External!Init, Init, ReconcilerInit
  <2>4. QED
    BY <2>1, <2>3 DEF MadeByName
<1>2. Orderly /\ Custody /\ MadeByName /\ [Next]_vars
        => [External!Next]_(External!vars) /\ (Orderly /\ Custody /\ MadeByName)'
  BY OrderlyStep, CustodyStep, MadeByNameStep, NextAbstract
<1>3. QED
  BY <1>1, <1>2, PTL DEF Spec, External!Spec, ImplementsExternalResource

================================================================================
