---------------------------- MODULE ObjectsUserProofs ----------------------------
(***************************************************************************)
(* Theorems about ObjectsUser, for every number of resources, operator     *)
(* instances, users, keys and mishaps.                                     *)
(***************************************************************************)
EXTENDS ObjectsUser, ManagedReconcilerProofs

------------------------------------------------------------------------------
(* Types *)

\* The steps of this controller include those of the reconciler.
LEMMA StepsType == "idle" \notin Steps /\ BaseSteps \subseteq Steps
BY DEF Steps, BaseSteps

\* A reconcile begins with the copy in the cache.
LEMMA Begun ==
    ASSUME TypeOK, NEW w \in Workers, NEW r \in Resources, Begin(w, r)
    PROVE  LET c == cache[w][r]
               t == FirstStep(r, [Idle EXCEPT !.pc = "connect", !.obj = c.obj,
                                              !.cur = c.cur])
           IN  /\ Goto(w, r, t) /\ t.cur = c.cur /\ t.seen = "unknown"
               /\ t.obj.finalizer = c.obj.finalizer
               /\ t.obj.creation = c.obj.creation
               /\ t.obj.status = c.obj.status /\ t.obj.note = c.obj.note
               /\ t.obj.deleting = c.obj.deleting /\ t.obj.spec = c.obj.spec
               /\ \/ t.pc = "finalize" /\ t.obj = c.obj /\ t.obj.deleting /\ r \in Orphans
                  \/ t.pc = "status" /\ t.obj.ready = "Creating" /\ t.obj.synced = "Error"
                  \/ /\ t.pc = "connect" /\ t.obj = c.obj /\ c.obj.creation # "pending"
                     /\ ~(t.obj.deleting /\ r \in Orphans)
<1>1. ReconcilerType(Steps, Lives, Keys)
  BY DEF TypeOK
<1>2. Lives = LiveObjects(Specs, UserIDs, UserIDs)
  BY DEF Lives
<1>3. QED
  BY <1>1, <1>2, StepsType, BeginEffect

\* Recalling the user ID from the annotation keeps an object live.
LEMMA RecalledTypes ==
    ASSUME NEW o \in Lives
    PROVE  Recalled(o) \in Lives
BY DEF Recalled, Lives, LiveObjects

\* Writing keys to a Secret leaves a Secret.
LEMMA SecretTypes ==
    ASSUME TypeOK, NEW r \in Resources, NEW writer \in {"publisher", "controller"},
           NEW key \in Keys \cup {None}, PutSecret(r, writer, key)
    PROVE  secret' \in [Resources -> Secrets]
<1>1. secret[r] \in Secrets
  BY DEF TypeOK
<1>2. [origin |-> IF secret[r] = NoSecret THEN writer ELSE secret[r].origin,
       key |-> IF key # None THEN key ELSE secret[r].key] \in Secrets
  BY <1>1 DEF Secrets, NoSecret
<1>3. QED
  BY <1>2 DEF TypeOK, PutSecret

\* A created user is one of Users.
LEMMA NewUserTypes ==
    ASSUME TypeOK, NEW r \in Resources, NEW spec \in Specs, NEW u \in UserIDs,
           NEW key \in Keys, NewUser(r, spec, u, key)
    PROVE  cloud' \in [UserIDs -> Users]
<1>1. [state |-> "live", owner |-> r, tags |-> spec.tags,
       name |-> GetDisplayName(r, spec), key |-> key] \in Users
  BY DEF Specs, GetDisplayName, Users
<1>2. QED
  BY <1>1 DEF TypeOK, NewUser

\* Changing a user that was created leaves a user.
LEMMA ChangedUserTypes ==
    ASSUME TypeOK, NEW u, Live(u), u \in UserIDs \cup {None}
    PROVE  /\ u \in UserIDs
           /\ [cloud EXCEPT ![u].state = "dead"] \in [UserIDs -> Users]
           /\ \A key \in Keys \cup {None} :
                [cloud EXCEPT ![u].key = key] \in [UserIDs -> Users]
           /\ \A r \in Resources, spec \in Specs :
                /\ [cloud EXCEPT ![u].name = GetDisplayName(r, spec)] \in [UserIDs -> Users]
                /\ [cloud EXCEPT ![u].tags = spec.tags] \in [UserIDs -> Users]
<1>1. u \in UserIDs /\ cloud[u] \in Users /\ cloud[u].state = "live"
  BY DEF Live, TypeOK
<1>2. cloud[u] # NoUser
  BY <1>1 DEF NoUser
<1>3. [cloud[u] EXCEPT !.state = "dead"] \in Users
  BY <1>1, <1>2 DEF Users
<1>4. ASSUME NEW key \in Keys \cup {None}
      PROVE  [cloud[u] EXCEPT !.key = key] \in Users
  BY <1>1, <1>2 DEF Users
<1>5. ASSUME NEW r \in Resources, NEW spec \in Specs
      PROVE  /\ [cloud[u] EXCEPT !.name = GetDisplayName(r, spec)] \in Users
             /\ [cloud[u] EXCEPT !.tags = spec.tags] \in Users
  <2>1. GetDisplayName(r, spec) \in Names \cup Resources /\ spec.tags \in TagMaps
    BY DEF GetDisplayName, Specs
  <2>2. QED
    BY <1>1, <1>2, <2>1 DEF Users
<1>6. QED
  BY <1>1, <1>3, <1>4, <1>5 DEF TypeOK

\* A reconcile that is not idle, and the ways it goes on, for this controller.
LEMMA TaskTypes ==
    ASSUME TypeOK, NEW w \in Workers, NEW r \in Resources, task[w][r].pc # "idle"
    PROVE  /\ task[w][r] \in Running(Steps, Lives, Keys)
           /\ task[w][r].obj \in Lives
           /\ task[w][r].obj.status \in UserIDs \cup {None}
           /\ task[w][r].obj.spec \in Specs
           /\ task[w][r].ctx \in Keys \cup {None}
<1>1. task[w][r] \in Running(Steps, Lives, Keys)
  BY RunningTask DEF TypeOK
<1>2. task[w][r].obj \in Lives /\ task[w][r].ctx \in Keys \cup {None}
  BY <1>1 DEF Running
<1>3. QED
  BY <1>1, <1>2 DEF Lives, LiveObjects

\* A step of a reconcile that goes on as a running one, without a write.
LEMMA GotoKeepsTypes ==
    ASSUME TypeOK, NEW w \in Workers, NEW r \in Resources,
           NEW t \in {Idle} \cup Running(Steps, Lives, Keys), Goto(w, r, t),
           mishaps' = mishaps \/ Mishap
    PROVE  ReconcilerType(Steps, Lives, Keys)'
<1>1. mishaps' \in 0..MaxMishaps
  BY MishapTypes DEF TypeOK, ReconcilerType
<1>2. QED
  BY <1>1, GotoTypes DEF TypeOK

\* Every step of a reconcile that calls out keeps the types: Connect, Observe
\* and Publish.
LEMMA ObserveStepTypes ==
    ASSUME TypeOK, NEW w \in Workers, NEW r \in Resources,
           \/ Connect(w, r) \/ ObserveMissing(w, r) \/ ObserveFound(w, r)
           \/ ObserveFails(w, r) \/ Publish(w, r) \/ PublishRefused(w, r)
    PROVE  TypeOK'
<1> DEFINE t == task[w][r]
           o == Recalled(t.obj)
           Tasks == Running(Steps, Lives, Keys)
<1>1. /\ t \in Tasks /\ t.obj \in Lives
      /\ t.ctx \in Keys \cup {None} /\ t.pc # "idle"
  <2>1. t.pc # "idle"
    BY DEF Connect, ObserveMissing, ObserveFound, ObserveFails, Publish, PublishRefused
  <2>2. QED
    BY <2>1, TaskTypes
<1>2. o \in Lives
  BY <1>1, RecalledTypes
<1>3. mishaps' = mishaps => mishaps' \in 0..MaxMishaps
  BY DEF TypeOK, ReconcilerType
<1>4. CASE Connect(w, r)
  <2>1. [t EXCEPT !.pc = "observe"] \in Tasks
    BY <1>1, StepsType DEF Running, BaseSteps
  <2>2. QED
    BY <1>4, <2>1, GotoKeepsTypes DEF Connect, TypeOK
<1>5. CASE ObserveMissing(w, r)
  <2>1. Observed(w, r, o, "missing", None) /\ mishaps' \in 0..MaxMishaps
    BY <1>3, <1>5 DEF ObserveMissing
  <2>2. ReconcilerType(Steps, Lives, Keys)'
    BY <1>1, <1>2, <2>1, StepsType, ObservedTypes DEF TypeOK
  <2>3. QED
    BY <1>5, <2>2 DEF ObserveMissing, TypeOK
<1>6. CASE ObserveFound(w, r)
  <2> DEFINE key == ToConnectionDetails(o.status)
             p == [o EXCEPT !.ready = "Available"]
  <2>1. o.status \in UserIDs /\ key \in Keys \cup {None}
    <3>1. o.status \in UserIDs \cup {None}
      BY <1>2 DEF Lives, LiveObjects
    <3>2. o.status \in UserIDs /\ cloud[o.status] \in Users
      BY <1>6, <3>1 DEF ObserveFound, Live, TypeOK
    <3>3. QED
      BY <3>2 DEF Users, NoUser, ToConnectionDetails
  <2>2. p \in Lives
    BY <1>2 DEF Lives, LiveObjects
  <2>3. /\ mishaps' \in 0..MaxMishaps
        /\ Observed(w, r, o, "outdated", key) \/ Observed(w, r, p, "current", key)
    BY <1>3, <1>6 DEF ObserveFound
  <2>4. ReconcilerType(Steps, Lives, Keys)'
    BY <1>1, <1>2, <2>1, <2>2, <2>3, StepsType, ObservedTypes DEF TypeOK
  <2>5. QED
    BY <1>6, <2>4 DEF ObserveFound, TypeOK
<1>7. CASE ObserveFails(w, r)
  <2>1. [t EXCEPT !.obj = o] \in Tasks
    BY <1>1, <1>2 DEF Running
  <2>2. OnError([t EXCEPT !.obj = o]) \in Tasks
    BY <2>1, StepsType, ControlTypes DEF Lives
  <2>3. QED
    BY <1>7, <2>2, GotoKeepsTypes DEF ObserveFails, TypeOK
<1>8. CASE Publish(w, r)
  <2>1. /\ AfterPublish(t) \in Tasks
        /\ Closed(t, "Creating", "Success") \in Tasks
        /\ Closed(t, t.obj.ready, "Success") \in Tasks
    <3>1. t.obj.ready \in {"none", "Creating", "Available", "Deleting"}
      BY <1>1 DEF Lives, LiveObjects
    <3>2. QED
      BY <1>1, <3>1, StepsType, ControlTypes DEF Lives
  <2>2. ReconcilerType(Steps, Lives, Keys)'
    BY <1>8, <2>1, GotoKeepsTypes DEF Publish
  <2>3. secret' \in [Resources -> Secrets]
    BY <1>1, <1>8, SecretTypes DEF Publish, TypeOK
  <2>4. QED
    BY <1>8, <2>2, <2>3 DEF Publish, TypeOK
<1>9. CASE PublishRefused(w, r)
  <2>1. OnError(t) \in Tasks
    BY <1>1, StepsType, ControlTypes DEF Lives
  <2>2. QED
    BY <1>3, <1>9, <2>1, GotoKeepsTypes DEF PublishRefused, TypeOK
<1>10. QED
  BY <1>4, <1>5, <1>6, <1>7, <1>8, <1>9

\* The steps of Create keep the types.
LEMMA CreateStepTypes ==
    ASSUME TypeOK, NEW w \in Workers, NEW r \in Resources,
           \/ CreateSkipped(w, r) \/ CreateUser(w, r) \/ EnsureCredentialsSecret(w, r)
           \/ CreateFails(w, r) \/ CreateAnswerLost(w, r)
    PROVE  TypeOK'
<1> DEFINE t == task[w][r]
           Tasks == Running(Steps, Lives, Keys)
<1>1. /\ t \in Tasks /\ t.obj \in Lives /\ t.obj.spec \in Specs
      /\ t.ctx \in Keys \cup {None}
  <2>1. t.pc # "idle"
    BY DEF CreateSkipped, CreateUser, EnsureCredentialsSecret, CreateFails,
           CreateAnswerLost
  <2>2. QED
    BY <2>1, TaskTypes
<1>2. ASSUME NEW x \in Tasks, NEW outcome \in {"succeeded", "failed"}
      PROVE  Recording(x, outcome) \in Tasks
  BY <1>2, StepsType, ControlTypes DEF Lives, Creations
<1>3. [t EXCEPT !.ctx = None] \in Tasks
  BY <1>1 DEF Running
<1>4. CASE CreateSkipped(w, r)
  BY <1>2, <1>3, <1>4, GotoKeepsTypes DEF CreateSkipped, TypeOK
<1>5. CASE CreateUser(w, r)
  <2> DEFINE step(u, key) == [t EXCEPT !.obj = Annotated(@, u), !.ctx = key]
  <2>1. PICK u \in UserIDs, key \in Keys :
             /\ NewUser(r, t.obj.spec, u, key)
             /\ Goto(w, r, IF r \in SecretRefs
                           THEN [step(u, key) EXCEPT !.pc = "createSecret"]
                           ELSE Recording(step(u, key), "succeeded"))
    BY <1>5 DEF CreateUser
  <2>2. Annotated(t.obj, u) \in Lives
    BY <1>1 DEF Annotated, Lives, LiveObjects
  <2>3. step(u, key) \in Tasks
    BY <1>1, <2>2 DEF Running
  <2>4. [step(u, key) EXCEPT !.pc = "createSecret"] \in Tasks
    BY <2>3 DEF Running, Steps
  <2>5. Recording(step(u, key), "succeeded") \in Tasks
    BY <1>2, <2>3
  <2>6. ReconcilerType(Steps, Lives, Keys)'
    BY <1>5, <2>1, <2>4, <2>5, GotoKeepsTypes DEF CreateUser
  <2>7. cloud' \in [UserIDs -> Users]
    BY <1>1, <2>1, NewUserTypes
  <2>8. QED
    BY <1>5, <2>6, <2>7, ZenonT(40) DEF CreateUser, TypeOK
<1>6. CASE EnsureCredentialsSecret(w, r)
  <2>1. ReconcilerType(Steps, Lives, Keys)'
    BY <1>1, <1>2, <1>6, GotoKeepsTypes DEF EnsureCredentialsSecret
  <2>2. secret' \in [Resources -> Secrets]
    BY <1>1, <1>6, SecretTypes DEF EnsureCredentialsSecret
  <2>3. QED
    BY <1>6, <2>1, <2>2 DEF EnsureCredentialsSecret, TypeOK
<1>7. CASE CreateFails(w, r)
  BY <1>2, <1>3, <1>7, GotoKeepsTypes DEF CreateFails, TypeOK
<1>8. CASE CreateAnswerLost(w, r)
  <2>1. PICK u \in UserIDs, key \in Keys :
             NewUser(r, t.obj.spec, u, key) /\ lost' = lost \cup {u}
    BY <1>8 DEF CreateAnswerLost
  <2>2. ReconcilerType(Steps, Lives, Keys)'
    BY <1>1, <1>2, <1>8, GotoKeepsTypes DEF CreateAnswerLost
  <2>3. cloud' \in [UserIDs -> Users]
    BY <1>1, <2>1, NewUserTypes
  <2>4. QED
    BY <1>8, <2>1, <2>2, <2>3 DEF CreateAnswerLost, TypeOK
<1>9. QED
  BY <1>4, <1>5, <1>6, <1>7, <1>8

\* The steps of Update and Delete keep the types.
LEMMA UpdateStepTypes ==
    ASSUME TypeOK, NEW w \in Workers, NEW r \in Resources,
           \/ UpdateName(w, r) \/ UpdateTags(w, r) \/ UpdateSecret(w, r)
           \/ UserNotFound(w, r) \/ DeleteUser(w, r) \/ DeleteAnswerLost(w, r)
    PROVE  TypeOK'
<1> DEFINE t == task[w][r]
           u == t.obj.status
           Tasks == Running(Steps, Lives, Keys)
<1>1. t \in Tasks /\ u \in UserIDs \cup {None} /\ t.obj.spec \in Specs
  <2>1. t.pc # "idle"
    BY DEF UpdateName, UpdateTags, UpdateSecret, UserNotFound, DeleteUser,
           DeleteAnswerLost
  <2>2. QED
    BY <2>1, TaskTypes
<1>2. OnError(t) \in Tasks /\ Closed(t, "Deleting", "Success") \in Tasks
  BY <1>1, StepsType, ControlTypes DEF Lives
<1>3. CASE UpdateName(w, r)
  <2>1. [t EXCEPT !.pc = "updateTags"] \in Tasks
    BY <1>1 DEF Running, Steps
  <2>2. ReconcilerType(Steps, Lives, Keys)'
    BY <1>3, <2>1, GotoKeepsTypes DEF UpdateName
  <2>3. cloud' \in [UserIDs -> Users]
    BY <1>1, <1>3, ChangedUserTypes DEF UpdateName
  <2>4. QED
    BY <1>3, <2>2, <2>3 DEF UpdateName, TypeOK
<1>4. CASE UpdateTags(w, r)
  <2> DEFINE next == IF r \in SecretRefs THEN "updateSecret" ELSE "publishUpdated"
  <2>1. next \in Steps
    BY DEF Steps, BaseSteps
  <2>2. [t EXCEPT !.ctx = None, !.pc = next] \in Tasks
    BY <1>1, <2>1 DEF Running
  <2>3. ReconcilerType(Steps, Lives, Keys)'
    BY <1>4, <2>2, GotoKeepsTypes DEF UpdateTags
  <2>4. cloud' \in [UserIDs -> Users]
    BY <1>1, <1>4, ChangedUserTypes DEF UpdateTags
  <2>5. QED
    BY <1>4, <2>3, <2>4 DEF UpdateTags, TypeOK
<1>5. CASE UpdateSecret(w, r)
  <2>1. [t EXCEPT !.pc = "publishUpdated"] \in Tasks
    BY <1>1 DEF Running, Steps, BaseSteps
  <2>2. ReconcilerType(Steps, Lives, Keys)'
    BY <1>5, <2>1, GotoKeepsTypes DEF UpdateSecret
  <2>3. secret' \in [Resources -> Secrets]
    BY <1>5, SecretTypes DEF UpdateSecret, ToConnectionDetails
  <2>4. QED
    BY <1>5, <2>2, <2>3 DEF UpdateSecret, TypeOK
<1>6. CASE UserNotFound(w, r)
  BY <1>2, <1>6, GotoKeepsTypes DEF UserNotFound, TypeOK
<1>7. CASE DeleteUser(w, r)
  <2>1. ReconcilerType(Steps, Lives, Keys)'
    BY <1>2, <1>7, GotoKeepsTypes DEF DeleteUser
  <2>2. cloud' \in [UserIDs -> Users]
    BY <1>1, <1>7, ChangedUserTypes DEF DeleteUser
  <2>3. QED
    BY <1>7, <2>1, <2>2 DEF DeleteUser, TypeOK
<1>8. CASE DeleteAnswerLost(w, r)
  <2>1. ReconcilerType(Steps, Lives, Keys)'
    BY <1>2, <1>8, GotoKeepsTypes DEF DeleteAnswerLost
  <2>2. cloud' \in [UserIDs -> Users]
    BY <1>1, <1>8, ChangedUserTypes DEF DeleteAnswerLost
  <2>3. QED
    BY <1>8, <2>1, <2>2 DEF DeleteAnswerLost, TypeOK
<1>9. QED
  BY <1>3, <1>4, <1>5, <1>6, <1>7, <1>8

\* What happens outside the operator keeps the types.
LEMMA EnvironmentTypes ==
    ASSUME TypeOK, Environment
    PROVE  TypeOK'
<1>1. ASSUME NEW r \in Resources,
             (\E spec \in Specs : Apply(r, spec)) \/ RequestDeletion(r),
             UNCHANGED <<cloud, secret, lost>>
      PROVE  TypeOK'
  BY <1>1, UserTypes DEF TypeOK, Lives
<1>2. ASSUME NEW r \in Resources, NEW spec \in Specs, Edit(r, spec)
      PROVE  TypeOK'
  <2>1. api[r] \in Lives
    BY <1>2, LivePhase DEF Edit, TypeOK, Lives
  <2>2. [api[r] EXCEPT !.spec = spec] \in Lives
    BY <2>1 DEF Lives, LiveObjects
  <2>3. mishaps' \in 0..MaxMishaps
    BY <1>2, MishapTypes DEF Edit, TypeOK, ReconcilerType
  <2>4. QED
    BY <1>2, <2>2, <2>3, StoreTypes DEF Edit, TypeOK
<1>3. ASSUME mishaps' \in 0..MaxMishaps, UNCHANGED <<api, cache, task>>
      PROVE  ReconcilerType(Steps, Lives, Keys)'
  BY <1>3 DEF TypeOK, ReconcilerType
<1>4. ASSUME Mishap
      PROVE  mishaps' \in 0..MaxMishaps
  BY <1>4, MishapTypes DEF TypeOK, ReconcilerType
<1>5. ASSUME NEW u \in UserIDs, RemovedOutOfBand(u)
      PROVE  TypeOK'
  <2>1. cloud' \in [UserIDs -> Users]
    BY <1>5, ChangedUserTypes DEF RemovedOutOfBand
  <2>2. QED
    BY <1>3, <1>4, <1>5, <2>1 DEF RemovedOutOfBand, TypeOK
<1>6. ASSUME NEW u \in UserIDs, NEW key \in Keys \cup {None}, KeysReplaced(u, key)
      PROVE  TypeOK'
  <2>1. cloud' \in [UserIDs -> Users]
    BY <1>6, ChangedUserTypes DEF KeysReplaced
  <2>2. QED
    BY <1>3, <1>4, <1>6, <2>1 DEF KeysReplaced, TypeOK
<1>7. ASSUME NEW r \in Resources, SecretRemoved(r) \/ CollectSecret(r)
      PROVE  TypeOK'
  <2>1. secret' \in [Resources -> Secrets]
    BY <1>7 DEF SecretRemoved, CollectSecret, Secrets, TypeOK
  <2>2. mishaps' \in 0..MaxMishaps
    BY <1>4, <1>7 DEF SecretRemoved, CollectSecret, TypeOK, ReconcilerType
  <2>3. QED
    BY <1>3, <1>7, <2>1, <2>2 DEF SecretRemoved, CollectSecret, TypeOK
<1>8. QED
  BY <1>1, <1>2, <1>5, <1>6, <1>7 DEF Environment

\* Every step keeps the types.
LEMMA TypeStep ==
    ASSUME TypeOK, [Next]_vars
    PROVE  TypeOK'
<1>1. ASSUME NEW w \in Workers, NEW r \in Resources,
             \/ Sync(w, r) \/ Begin(w, r) \/ ReconcilerStep(w, r)
             \/ CallFails(w, r, Calls) \/ Abandon(w, r),
             UNCHANGED <<cloud, secret, lost>>
      PROVE  TypeOK'
  <2>1. Calls \subseteq Steps
    BY DEF Calls, Steps, BaseSteps
  <2>2. ReconcilerType(Steps, Lives, Keys)'
    BY <1>1, <2>1, StepsType, OperatorTypes DEF TypeOK, Lives
  <2>3. QED
    BY <1>1, <2>2 DEF TypeOK
<1>2. ASSUME NEW w \in Workers, NEW r \in Resources, Progress(w, r)
      PROVE  TypeOK'
  BY <1>1, <1>2, ObserveStepTypes, CreateStepTypes, UpdateStepTypes DEF Progress
<1>3. ASSUME NEW w \in Workers, NEW r \in Resources, Failure(w, r)
      PROVE  TypeOK'
  BY <1>1, <1>3, ObserveStepTypes, CreateStepTypes, UpdateStepTypes DEF Failure
<1>4. CASE UNCHANGED vars
  BY <1>4 DEF vars, TypeOK, ReconcilerType
<1>5. QED
  BY <1>1, <1>2, <1>3, <1>4, EnvironmentTypes DEF Next

\* The state of the controller always has its type: objects, copies and
\* reconciles are of the shapes the code can produce, for all constants.
THEOREM TypeCorrect == Spec => []TypeOK
<1>1. Init => TypeOK
  <2> SUFFICES ASSUME Init
               PROVE  TypeOK
    OBVIOUS
  <2>1. mishaps \in 0..MaxMishaps
    BY MaxMishapsAssumption DEF Init, ReconcilerInit
  <2>2. ReconcilerType(Steps, Lives, Keys)
    BY <2>1 DEF Init, ReconcilerInit, ReconcilerType, Copies
  <2>3. QED
    BY <2>2 DEF Init, TypeOK, Users, Secrets
<1>2. TypeOK /\ [Next]_vars => TypeOK'
  BY TypeStep
<1>3. QED
  BY <1>1, <1>2, PTL DEF Spec

------------------------------------------------------------------------------
(* Create is exclusive. *)

\* A step of a reconcile of this controller, outside Create, that neither enters
\* Create nor goes back before it.
LEMMA LaterExclusion ==
    ASSUME TypeOK, Exclusion, NEW w \in Workers, NEW r \in Resources, NEW u,
           Goto(w, r, u), task[w][r].pc # "record", u.cur = task[w][r].cur,
           u.obj.finalizer = task[w][r].obj.finalizer,
           u.obj.creation = task[w][r].obj.creation,
           u.pc \in {"status", "updateTags", "updateSecret", "publishUpdated"}
    PROVE  Exclusion'
<1>1. u.pc \notin CreateSteps \cup BeforeCreate \cup {"connect", "observe", "pending"}
  BY DEF CreateSteps, BeforeCreate
<1>2. QED
  BY <1>1, GotoExclusion DEF TypeOK

\* Closing a reconcile that is not about to record an outcome keeps exclusion.
LEMMA ClosedExclusion ==
    ASSUME TypeOK, Exclusion, NEW w \in Workers, NEW r \in Resources,
           task[w][r].pc # "idle", task[w][r].pc # "record",
           \/ \E ready, synced : Goto(w, r, Closed(task[w][r], ready, synced))
           \/ Goto(w, r, OnError(task[w][r]))
    PROVE  Exclusion'
<1> DEFINE t == task[w][r]
<1>1. t \in Running(Steps, Lives, Keys)
  BY TaskTypes
<1>2. PICK u : /\ Goto(w, r, u) /\ u.pc = "status" /\ u.cur = t.cur
               /\ u.obj.finalizer = t.obj.finalizer
               /\ u.obj.creation = t.obj.creation
  BY <1>1, ControlEffect DEF Lives
<1>3. QED
  BY <1>2, LaterExclusion

\* Recalling the user ID changes nothing else of an object.
LEMMA RecalledEffect ==
    ASSUME NEW o \in Lives
    PROVE  /\ Recalled(o).creation = o.creation
           /\ Recalled(o).finalizer = o.finalizer
           /\ Recalled(o).deleting = o.deleting
           /\ Recalled(o).status = IF o.status = None THEN o.note ELSE o.status
           /\ Recalled(o).note \in {None, o.note}
           /\ o.status = None => Recalled(o).note = None
BY DEF Recalled, Lives, LiveObjects

\* Connect, Observe and Publish keep exclusion.
LEMMA ObserveStepExclusion ==
    ASSUME TypeOK, Exclusion, NEW w \in Workers, NEW r \in Resources,
           \/ Connect(w, r) \/ ObserveMissing(w, r) \/ ObserveFound(w, r)
           \/ ObserveFails(w, r) \/ Publish(w, r) \/ PublishRefused(w, r)
    PROVE  Exclusion'
<1> DEFINE t == task[w][r]
           o == Recalled(t.obj)
<1>1. t \in Running(Steps, Lives, Keys) /\ t.obj \in Lives
  <2>1. t.pc # "idle"
    BY DEF Connect, ObserveMissing, ObserveFound, ObserveFails, Publish, PublishRefused
  <2>2. QED
    BY <2>1, TaskTypes
<1>2. o \in Lives /\ o.creation = t.obj.creation /\ o.finalizer = t.obj.finalizer
  BY <1>1, RecalledTypes, RecalledEffect
<1>3. CASE Connect(w, r)
  <2> DEFINE u == [t EXCEPT !.pc = "observe"]
  <2>1. /\ Goto(w, r, u) /\ t.pc = "connect"
        /\ u.pc = "observe" /\ u.cur = t.cur /\ u.obj = t.obj
    BY <1>1, <1>3 DEF Connect, Running
  <2>2. t.pc \in BeforeCreate /\ u.pc \notin CreateSteps
    BY <2>1 DEF BeforeCreate, CreateSteps
  <2> HIDE DEF u
  <2>3. QED
    BY <2>1, <2>2, GotoExclusion DEF TypeOK
<1>4. CASE ObserveMissing(w, r)
  BY <1>2, <1>4, ObservedExclusion, SMTT(30) DEF ObserveMissing, TypeOK
<1>5. CASE ObserveFound(w, r)
  <2> DEFINE p == [o EXCEPT !.ready = "Available"]
  <2>1. p.creation = o.creation /\ p.finalizer = o.finalizer
    BY <1>2 DEF Lives, LiveObjects
  <2>2. \E ctx : \/ Observed(w, r, o, "outdated", ctx)
                \/ Observed(w, r, p, "current", ctx)
    BY <1>5 DEF ObserveFound
  <2> HIDE DEF p, o
  <2>3. QED
    BY <1>2, <1>5, <2>1, <2>2, ObservedExclusion DEF ObserveFound, TypeOK
<1>6. CASE ObserveFails(w, r)
  <2> DEFINE x == [t EXCEPT !.obj = o]
  <2>1. x \in Running(Steps, Lives, Keys) /\ x.cur = t.cur /\ x.obj = o
    BY <1>1, <1>2 DEF Running
  <2>2. Goto(w, r, OnError(x)) /\ t.pc = "observe"
    BY <1>6 DEF ObserveFails
  <2> HIDE DEF x, o
  <2>3. PICK u : /\ Goto(w, r, u) /\ u.pc = "status" /\ u.cur = t.cur
                 /\ u.obj.finalizer = t.obj.finalizer
                 /\ u.obj.creation = t.obj.creation
    BY <1>2, <2>1, <2>2, ControlEffect DEF Lives
  <2>4. QED
    BY <2>2, <2>3, LaterExclusion
<1>7. CASE Publish(w, r)
  <2>1. CASE t.pc = "publish"
    <3>1. Goto(w, r, AfterPublish(t))
      BY <1>7, <2>1 DEF Publish
    <3>2. QED
      BY <2>1, <3>1, StepsType, PublishExclusion DEF TypeOK, Lives
  <2>2. CASE t.pc # "publish"
    <3>1. /\ t.pc # "record" /\ t.pc # "idle"
          /\ \E ready, synced : Goto(w, r, Closed(t, ready, synced))
      BY <1>7, <2>2 DEF Publish
    <3>2. QED
      BY <3>1, ClosedExclusion
  <2>3. QED
    BY <2>1, <2>2
<1>8. CASE PublishRefused(w, r)
  <2>1. t.pc # "record" /\ t.pc # "idle" /\ Goto(w, r, OnError(t))
    BY <1>8 DEF PublishRefused
  <2>2. QED
    BY <2>1, ClosedExclusion
<1>9. QED
  BY <1>3, <1>4, <1>5, <1>6, <1>7, <1>8

\* The outcome of Create is left behind for the next step.
LEMMA RecordingEffect ==
    ASSUME NEW t \in Running(Steps, Lives, Keys), NEW outcome
    PROVE  LET u == Recording(t, outcome)
           IN  /\ u.pc = "record" /\ u.cur = t.cur /\ u.obj.creation = outcome
               /\ u.obj.finalizer = t.obj.finalizer /\ u.obj.status = t.obj.status
               /\ u.obj.note = t.obj.note /\ u.obj.deleting = t.obj.deleting
BY DEF Recording, Running, Lives, LiveObjects, Creations

\* What the steps of Create do to the reconcile: it gets on to the Secret or to
\* the record, and only the annotation and the outcome change.
LEMMA CreateStepEffect ==
    ASSUME TypeOK, NEW w \in Workers, NEW r \in Resources,
           \/ CreateSkipped(w, r) \/ CreateUser(w, r) \/ EnsureCredentialsSecret(w, r)
           \/ CreateFails(w, r) \/ CreateAnswerLost(w, r)
    PROVE  LET t == task[w][r]
           IN  /\ t.pc \in {"create", "createSecret"}
               /\ \E u : /\ Goto(w, r, u) /\ u.cur = t.cur
                         /\ u.obj.finalizer = t.obj.finalizer
                         /\ u.obj.status = t.obj.status
                         /\ u.obj.deleting = t.obj.deleting
                         /\ \/ u.pc = "record" /\ u.obj.creation # "pending"
                            \/ /\ u.pc = "createSecret"
                               /\ u.obj.creation = t.obj.creation
                         /\ \/ UNCHANGED <<cloud, lost>> /\ u.obj.note = t.obj.note
                            \/ /\ t.pc = "create" /\ t.obj.status = None
                               /\ \E n \in UserIDs, key \in Keys :
                                    /\ NewUser(r, t.obj.spec, n, key)
                                    /\ \/ UNCHANGED lost /\ u.obj.note = n
                                       \/ lost' = lost \cup {n}
                                          /\ u.obj.note = t.obj.note
<1> DEFINE t == task[w][r]
           Tasks == Running(Steps, Lives, Keys)
           blank == [t EXCEPT !.ctx = None]
<1>1. t.pc \in {"create", "createSecret"}
  BY DEF CreateSkipped, CreateUser, EnsureCredentialsSecret, CreateFails, CreateAnswerLost
<1>2. t \in Tasks
  BY <1>1, TaskTypes
<1>3. blank \in Tasks /\ blank.cur = t.cur /\ blank.obj = t.obj
  BY <1>2 DEF Running
<1> HIDE DEF blank
<1>4. CASE CreateSkipped(w, r)
  <2>1. Goto(w, r, Recording(blank, "succeeded")) /\ UNCHANGED <<cloud, lost>>
    BY <1>4 DEF CreateSkipped, blank
  <2>2. QED
    BY <1>1, <1>3, <2>1, RecordingEffect
<1>5. CASE CreateFails(w, r)
  <2>1. Goto(w, r, Recording(blank, "failed")) /\ UNCHANGED <<cloud, lost>>
    BY <1>5 DEF CreateFails, blank
  <2>2. QED
    BY <1>1, <1>3, <2>1, RecordingEffect
<1>6. CASE EnsureCredentialsSecret(w, r)
  <2>1. Goto(w, r, Recording(t, "succeeded")) /\ UNCHANGED <<cloud, lost>>
    BY <1>6 DEF EnsureCredentialsSecret
  <2>2. QED
    BY <1>1, <1>2, <2>1, RecordingEffect
<1>7. CASE CreateAnswerLost(w, r)
  <2>1. Goto(w, r, Recording(t, "failed")) /\ t.pc = "create" /\ t.obj.status = None
    BY <1>7 DEF CreateAnswerLost
  <2>2. PICK n \in UserIDs, key \in Keys : NewUser(r, t.obj.spec, n, key) /\ lost' = lost \cup {n}
    BY <1>7 DEF CreateAnswerLost
  <2>3. QED
    BY <1>2, <2>1, <2>2, RecordingEffect
<1>8. CASE CreateUser(w, r)
  <2> DEFINE step(n, key) == [t EXCEPT !.obj = Annotated(@, n), !.ctx = key]
  <2>1. t.pc = "create" /\ t.obj.status = None /\ UNCHANGED lost
    BY <1>8 DEF CreateUser
  <2>2. PICK n \in UserIDs, key \in Keys :
             /\ NewUser(r, t.obj.spec, n, key)
             /\ Goto(w, r, IF r \in SecretRefs
                           THEN [step(n, key) EXCEPT !.pc = "createSecret"]
                           ELSE Recording(step(n, key), "succeeded"))
    BY <1>8 DEF CreateUser
  <2> DEFINE x == step(n, key)
             y == [x EXCEPT !.pc = "createSecret"]
  <2>3. /\ x \in Tasks /\ x.cur = t.cur /\ x.obj.note = n
        /\ x.obj.finalizer = t.obj.finalizer /\ x.obj.status = t.obj.status
        /\ x.obj.creation = t.obj.creation /\ x.obj.deleting = t.obj.deleting
    <3>1. t.obj \in Lives
      BY <1>2 DEF Running
    <3>2. LET a == Annotated(t.obj, n)
          IN  /\ a \in Lives /\ a.note = n /\ a.finalizer = t.obj.finalizer
              /\ a.status = t.obj.status /\ a.creation = t.obj.creation
              /\ a.deleting = t.obj.deleting
      BY <3>1 DEF Annotated, Lives, LiveObjects
    <3>3. x \in Tasks /\ x.cur = t.cur /\ x.obj = Annotated(t.obj, n)
      BY <1>2, <3>2 DEF Running
    <3>4. QED
      BY <3>2, <3>3
  <2> HIDE DEF x
  <2>4. y.pc = "createSecret" /\ y.cur = x.cur /\ y.obj = x.obj
    BY <2>3 DEF Running
  <2> HIDE DEF y
  <2>5. Goto(w, r, y) \/ Goto(w, r, Recording(x, "succeeded"))
    BY <2>2 DEF x, y
  <2>6. CASE Goto(w, r, y)
    BY <2>1, <2>2, <2>3, <2>4, <2>6
  <2>7. CASE Goto(w, r, Recording(x, "succeeded"))
    <3>1. PICK u : /\ Goto(w, r, u) /\ u.pc = "record" /\ u.cur = x.cur
                   /\ u.obj.creation # "pending"
                   /\ u.obj.finalizer = x.obj.finalizer
                   /\ u.obj.status = x.obj.status /\ u.obj.note = x.obj.note
                   /\ u.obj.deleting = x.obj.deleting
      BY <2>3, <2>7, RecordingEffect
    <3>2. QED
      BY <2>1, <2>2, <2>3, <3>1
  <2>8. QED
    BY <2>5, <2>6, <2>7
<1>9. QED
  BY <1>4, <1>5, <1>6, <1>7, <1>8

\* The steps of Create keep exclusion.
LEMMA CreateStepExclusion ==
    ASSUME TypeOK, Exclusion, NEW w \in Workers, NEW r \in Resources,
           \/ CreateSkipped(w, r) \/ CreateUser(w, r) \/ EnsureCredentialsSecret(w, r)
           \/ CreateFails(w, r) \/ CreateAnswerLost(w, r)
    PROVE  Exclusion'
<1>1. task[w][r].pc \in {"create", "createSecret"}
  BY CreateStepEffect
<1>2. PICK u : /\ Goto(w, r, u) /\ u.cur = task[w][r].cur
               /\ u.obj.finalizer = task[w][r].obj.finalizer
               /\ \/ u.pc = "record"
                  \/ /\ u.pc = "createSecret"
                     /\ u.obj.creation = task[w][r].obj.creation
  BY CreateStepEffect
<1>3. task[w][r].pc \in CreateSteps /\ task[w][r].pc # "record"
  BY <1>1 DEF CreateSteps
<1>4. QED
  BY <1>2, <1>3, CreateExclusion DEF TypeOK

\* What the steps of Update and Delete do to the reconcile.
LEMMA UpdateStepEffect ==
    ASSUME TypeOK, NEW w \in Workers, NEW r \in Resources,
           \/ UpdateName(w, r) \/ UpdateTags(w, r) \/ UpdateSecret(w, r)
           \/ UserNotFound(w, r) \/ DeleteUser(w, r) \/ DeleteAnswerLost(w, r)
    PROVE  LET t == task[w][r]
           IN  /\ t.pc \in {"update", "updateTags", "updateSecret", "delete"}
               /\ \E u : /\ Goto(w, r, u) /\ u.cur = t.cur
                         /\ u.obj.finalizer = t.obj.finalizer
                         /\ u.obj.creation = t.obj.creation
                         /\ u.obj.status = t.obj.status
                         /\ u.obj.note = t.obj.note
                         /\ u.obj.deleting = t.obj.deleting
                         /\ \/ u.pc = "status" /\ u.seen = "unknown"
                            \/ /\ u.pc \in {"updateTags", "updateSecret", "publishUpdated"}
                               /\ u.seen = t.seen
<1> DEFINE t == task[w][r]
           Tasks == Running(Steps, Lives, Keys)
<1>1. t.pc \in {"update", "updateTags", "updateSecret", "delete"}
  BY DEF UpdateName, UpdateTags, UpdateSecret, UserNotFound, DeleteUser, DeleteAnswerLost
<1>2. t \in Tasks
  BY <1>1, TaskTypes
<1>3. ASSUME NEW pc \in {"updateTags", "updateSecret", "publishUpdated"}
      PROVE  /\ LET u == [t EXCEPT !.pc = pc]
                IN  u.pc = pc /\ u.cur = t.cur /\ u.obj = t.obj /\ u.seen = t.seen
             /\ LET u == [t EXCEPT !.ctx = None, !.pc = pc]
                IN  u.pc = pc /\ u.cur = t.cur /\ u.obj = t.obj /\ u.seen = t.seen
  BY <1>2 DEF Running
<1>4. CASE UpdateName(w, r)
  <2>1. Goto(w, r, [t EXCEPT !.pc = "updateTags"])
    BY <1>4 DEF UpdateName
  <2>2. QED
    BY <1>1, <1>3, <2>1
<1>5. CASE UpdateTags(w, r)
  <2> DEFINE pc == IF r \in SecretRefs THEN "updateSecret" ELSE "publishUpdated"
  <2>1. Goto(w, r, [t EXCEPT !.ctx = None, !.pc = pc])
    BY <1>5 DEF UpdateTags
  <2>2. pc \in {"updateSecret", "publishUpdated"}
    OBVIOUS
  <2> HIDE DEF pc
  <2>3. QED
    BY <1>1, <1>3, <2>1, <2>2
<1>6. CASE UpdateSecret(w, r)
  <2>1. Goto(w, r, [t EXCEPT !.pc = "publishUpdated"])
    BY <1>6 DEF UpdateSecret
  <2>2. QED
    BY <1>1, <1>3, <2>1
<1>7. CASE UserNotFound(w, r) \/ DeleteAnswerLost(w, r)
  <2>1. Goto(w, r, OnError(t))
    BY <1>7 DEF UserNotFound, DeleteAnswerLost
  <2>2. QED
    BY <1>1, <1>2, <2>1, ControlEffect DEF Lives
<1>8. CASE DeleteUser(w, r)
  <2>1. Goto(w, r, Closed(t, "Deleting", "Success"))
    BY <1>8 DEF DeleteUser
  <2>2. QED
    BY <1>1, <1>2, <2>1, ControlEffect DEF Lives
<1>9. QED
  BY <1>4, <1>5, <1>6, <1>7, <1>8

\* They keep exclusion.
LEMMA UpdateStepExclusion ==
    ASSUME TypeOK, Exclusion, NEW w \in Workers, NEW r \in Resources,
           \/ UpdateName(w, r) \/ UpdateTags(w, r) \/ UpdateSecret(w, r)
           \/ UserNotFound(w, r) \/ DeleteUser(w, r) \/ DeleteAnswerLost(w, r)
    PROVE  Exclusion'
<1>1. task[w][r].pc # "record"
  BY UpdateStepEffect
<1>2. PICK u : /\ Goto(w, r, u) /\ u.cur = task[w][r].cur
               /\ u.obj.finalizer = task[w][r].obj.finalizer
               /\ u.obj.creation = task[w][r].obj.creation
               /\ u.pc \in {"status", "updateTags", "updateSecret", "publishUpdated"}
  BY UpdateStepEffect
<1>3. QED
  BY <1>1, <1>2, LaterExclusion

\* So does what happens outside the operator.
LEMMA EnvironmentExclusion ==
    ASSUME TypeOK, Exclusion, Environment
    PROVE  Exclusion'
<1>1. ASSUME NEW r \in Resources,
             (\E spec \in Specs : Apply(r, spec)) \/ RequestDeletion(r)
      PROVE  Exclusion'
  BY <1>1, UserExclusion DEF TypeOK, Lives
<1>2. ASSUME NEW r \in Resources, NEW spec \in Specs, Edit(r, spec)
      PROVE  Exclusion'
  <2> DEFINE o == [api[r] EXCEPT !.spec = spec]
  <2>1. api[r] \in Lives /\ api[r].phase = "live" /\ Store(r, o)
    BY <1>2, LivePhase DEF Edit, TypeOK, Lives
  <2>2. o.creation = api[r].creation /\ o.finalizer = api[r].finalizer
    BY <2>1 DEF Lives, LiveObjects
  <2>3. QED
    BY <2>1, <2>2, StoreExclusion DEF TypeOK
<1>3. ASSUME UNCHANGED <<api, cache, task>>
      PROVE  Exclusion'
  BY <1>3 DEF Exclusion, CreateIsExclusive, CachesAgree, TasksAgree, CreationAnnounced,
              CreationChecked
<1>4. QED
  BY <1>1, <1>2, <1>3
     DEF Environment, RemovedOutOfBand, KeysReplaced, SecretRemoved, CollectSecret

\* Every step keeps exclusion.
LEMMA ExclusionStep ==
    ASSUME TypeOK, Exclusion, [Next]_vars
    PROVE  Exclusion'
<1>1. ASSUME NEW w \in Workers, NEW r \in Resources,
             \/ Sync(w, r) \/ Begin(w, r) \/ ReconcilerStep(w, r)
             \/ CallFails(w, r, Calls) \/ Abandon(w, r)
      PROVE  Exclusion'
  <2>1. Calls \in SUBSET (Steps \ {"record"})
    BY DEF Calls, Steps, BaseSteps
  <2>2. QED
    BY <1>1, <2>1, StepsType, OperatorExclusion DEF TypeOK, Lives
<1>2. ASSUME NEW w \in Workers, NEW r \in Resources, Progress(w, r) \/ Failure(w, r)
      PROVE  Exclusion'
  BY <1>1, <1>2, ObserveStepExclusion, CreateStepExclusion, UpdateStepExclusion
     DEF Progress, Failure
<1>3. CASE UNCHANGED vars
  BY <1>3 DEF vars, Exclusion, CreateIsExclusive, CachesAgree, TasksAgree,
              CreationAnnounced, CreationChecked
<1>4. QED
  BY <1>1, <1>2, <1>3, EnvironmentExclusion DEF Next

\* Nothing is being created and no copy is outdated in the beginning.
LEMMA ExclusionInit == Init => Exclusion
<1> SUFFICES ASSUME Init
             PROVE  Exclusion
  OBVIOUS
<1>1. \A w \in Workers, r \in Resources :
        /\ api[r] = Blank /\ cache[w][r].obj = Blank
        /\ task[w][r].pc = "idle" /\ task[w][r].cur = FALSE
  BY DEF Init, ReconcilerInit, Idle
<1>2. QED
  BY <1>1 DEF Exclusion, CreateIsExclusive, CachesAgree, TasksAgree, CreationAnnounced,
              CreationChecked, CreateSteps, BeforeCreate

\* Types and exclusion hold in every reachable state.
LEMMA ExclusionHolds == Spec => [](TypeOK /\ Exclusion)
<1>1. Init => Exclusion
  BY ExclusionInit
<1>2. TypeOK /\ Exclusion /\ [Next]_vars => Exclusion'
  BY ExclusionStep
<1>3. QED
  BY <1>1, <1>2, TypeCorrect, PTL DEF Spec

\* Copies that no write has outdated are what is stored, and Create runs in one
\* instance only, under its announcement on the stored object.
THEOREM ExclusionAlways == Spec => []Exclusion
BY ExclusionHolds, PTL

\* At most one instance of the operator creates a user for a resource at a time,
\* for any number of instances with caches of any age.
THEOREM CreateExclusive == Spec => []CreateIsExclusive
<1>1. Exclusion => CreateIsExclusive
  BY DEF Exclusion
<1>2. QED
  BY <1>1, ExclusionHolds, PTL

==============================================================================
