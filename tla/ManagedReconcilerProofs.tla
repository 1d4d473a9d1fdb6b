------------------------ MODULE ManagedReconcilerProofs ------------------------
(***************************************************************************)
(* Lemmas about the writes and the control flow that ManagedReconciler     *)
(* gives to the controllers: what a write does to every copy of an object, *)
(* and that writes and steps keep the types.  The type of a live object,   *)
(* the set of steps and the set of contexts are parameters, so the lemmas  *)
(* serve both controllers.                                                 *)
(***************************************************************************)
EXTENDS ManagedReconciler, TLAPS

------------------------------------------------------------------------------
(* What a step does, copy by copy. *)

\* Withdrawing cur from a copy keeps it a copy.
LEMMA OutdatedCopies ==
    ASSUME NEW Lives, NEW r \in Resources, NEW o,
           NEW copies \in [Workers -> [Resources -> Copies(Lives)]]
    PROVE  Outdate(copies, r, o) \in [Workers -> [Resources -> Copies(Lives)]]
<1>1. ASSUME NEW c \in Copies(Lives)
      PROVE  [c EXCEPT !.cur = @ /\ o = api[r]] \in Copies(Lives)
  BY DEF Copies
<1>2. QED
  BY <1>1 DEF Outdate

\* Withdrawing cur from a task keeps it a task; an idle one has none.
LEMMA OutdatedTasks ==
    ASSUME NEW Steps, NEW Lives, NEW Contexts, NEW r \in Resources, NEW o,
           NEW tasks \in [Workers -> [Resources ->
                             {Idle} \cup Running(Steps, Lives, Contexts)]]
    PROVE  Outdate(tasks, r, o) \in
             [Workers -> [Resources -> {Idle} \cup Running(Steps, Lives, Contexts)]]
<1>1. [Idle EXCEPT !.cur = @ /\ o = api[r]] = Idle
  <2>1. Idle.cur = FALSE /\ (Idle.cur /\ o = api[r]) = FALSE
    BY DEF Idle
  <2>2. Idle \in [pc: {"idle"}, obj: {Blank}, cur: BOOLEAN, seen: {"unknown"},
                  ctx: {None}]
    BY DEF Idle
  <2>3. [Idle EXCEPT !.cur = FALSE] = Idle
    BY <2>1, <2>2
  <2>4. QED
    BY <2>1, <2>3, Zenon
<1>2. ASSUME NEW t \in Running(Steps, Lives, Contexts)
      PROVE  [t EXCEPT !.cur = @ /\ o = api[r]] \in Running(Steps, Lives, Contexts)
  BY DEF Running
<1>3. QED
  BY <1>1, <1>2 DEF Outdate

\* A step without a write changes one task.
LEMMA GotoEffect ==
    ASSUME NEW Steps, NEW Lives, NEW Contexts, ReconcilerType(Steps, Lives, Contexts),
           NEW w \in Workers, NEW r \in Resources, NEW t, Goto(w, r, t)
    PROVE  /\ api' = api /\ cache' = cache
           /\ \A v \in Workers, q \in Resources :
                task'[v][q] = IF v = w /\ q = r THEN t ELSE task[v][q]
BY DEF Goto, ReconcilerType

\* Outdate keeps every copy and withdraws cur from the copies of an object that
\* the write changes.
LEMMA OutdateEffect ==
    ASSUME NEW Steps, NEW Lives, NEW Contexts, ReconcilerType(Steps, Lives, Contexts),
           NEW r \in Resources, NEW o, NEW v \in Workers, NEW q \in Resources
    PROVE  /\ Outdate(cache, r, o)[v][q].obj = cache[v][q].obj
           /\ Outdate(cache, r, o)[v][q].cur =>
                cache[v][q].cur /\ (q = r => o = api[r])
           /\ Outdate(task, r, o)[v][q].pc = task[v][q].pc
           /\ Outdate(task, r, o)[v][q].obj = task[v][q].obj
           /\ Outdate(task, r, o)[v][q].seen = task[v][q].seen
           /\ Outdate(task, r, o)[v][q].ctx = task[v][q].ctx
           /\ Outdate(task, r, o)[v][q].cur =>
                task[v][q].cur /\ (q = r => o = api[r])
<1> DEFINE c == cache[v][q]
           t == task[v][q]
<1>1. CASE q # r
  BY <1>1 DEF Outdate, ReconcilerType
<1>2. CASE q = r
  <2> DEFINE d == [c EXCEPT !.cur = @ /\ o = api[r]]
             u == [t EXCEPT !.cur = @ /\ o = api[r]]
  <2>1. Outdate(cache, r, o)[v][q] = d /\ Outdate(task, r, o)[v][q] = u
    BY <1>2 DEF Outdate, ReconcilerType
  <2>2. d.obj = c.obj /\ (d.cur => c.cur /\ o = api[r])
    <3>1. c \in Copies(Lives)
      BY DEF ReconcilerType
    <3>2. QED
      BY <3>1 DEF Copies
  <2>3. /\ u.pc = t.pc /\ u.obj = t.obj /\ u.seen = t.seen /\ u.ctx = t.ctx
        /\ u.cur => t.cur /\ o = api[r]
    <3>1. t \in Running(Steps, Lives, Contexts) \/ t = Idle
      BY DEF ReconcilerType
    <3>2. QED
      BY <3>1 DEF Running, Idle
  <2> HIDE DEF d, u
  <2>4. QED
    BY <1>2, <2>1, <2>2, <2>3
<1>3. QED
  BY <1>1, <1>2

\* A write by a reconcile changes the object, all copies and its own task.
LEMMA SaveEffect ==
    ASSUME NEW Steps, NEW Lives, NEW Contexts, ReconcilerType(Steps, Lives, Contexts),
           NEW w \in Workers, NEW r \in Resources, NEW o, NEW t, Save(w, r, o, t)
    PROVE  /\ api'[r] = o /\ task'[w][r] = t
           /\ \A q \in Resources : q # r => api'[q] = api[q]
           /\ \A v \in Workers, q \in Resources :
                /\ cache'[v][q].obj = cache[v][q].obj
                /\ cache'[v][q].cur => cache[v][q].cur /\ api'[q] = api[q]
                /\ v # w \/ q # r =>
                     /\ task'[v][q].pc = task[v][q].pc
                     /\ task'[v][q].obj = task[v][q].obj
                     /\ task'[v][q].seen = task[v][q].seen
                     /\ task'[v][q].ctx = task[v][q].ctx
                     /\ task'[v][q].cur => task[v][q].cur /\ api'[q] = api[q]
<1>1. api'[r] = o /\ \A q \in Resources : q # r => api'[q] = api[q]
  BY DEF Save, ReconcilerType
<1>2. Outdate(task, r, o) \in
        [Workers -> [Resources -> {Idle} \cup Running(Steps, Lives, Contexts)]]
  BY OutdatedTasks DEF ReconcilerType
<1>3. task'[w][r] = t
  BY <1>2 DEF Save
<1>4. ASSUME NEW v \in Workers, NEW q \in Resources
      PROVE  /\ cache'[v][q] = Outdate(cache, r, o)[v][q]
             /\ v # w \/ q # r => task'[v][q] = Outdate(task, r, o)[v][q]
  BY <1>2 DEF Save
<1>5. QED
  BY <1>1, <1>3, <1>4, OutdateEffect

\* A write from outside changes the object and all copies.
LEMMA StoreEffect ==
    ASSUME NEW Steps, NEW Lives, NEW Contexts, ReconcilerType(Steps, Lives, Contexts),
           NEW r \in Resources, NEW o, Store(r, o)
    PROVE  /\ api'[r] = o
           /\ \A q \in Resources : q # r => api'[q] = api[q]
           /\ \A v \in Workers, q \in Resources :
                /\ cache'[v][q].obj = cache[v][q].obj
                /\ cache'[v][q].cur => cache[v][q].cur /\ api'[q] = api[q]
                /\ task'[v][q].pc = task[v][q].pc
                /\ task'[v][q].obj = task[v][q].obj
                /\ task'[v][q].seen = task[v][q].seen
                /\ task'[v][q].ctx = task[v][q].ctx
                /\ task'[v][q].cur => task[v][q].cur /\ api'[q] = api[q]
<1>1. api'[r] = o /\ \A q \in Resources : q # r => api'[q] = api[q]
  BY DEF Store, ReconcilerType
<1>2. QED
  BY <1>1, OutdateEffect DEF Store

------------------------------------------------------------------------------
(* Types *)

\* The three ways of changing the state of the reconciler keep its type.
LEMMA GotoTypes ==
    ASSUME NEW Steps, NEW Lives, NEW Contexts, ReconcilerType(Steps, Lives, Contexts),
           NEW w \in Workers, NEW r \in Resources,
           NEW t \in {Idle} \cup Running(Steps, Lives, Contexts), Goto(w, r, t),
           mishaps' \in 0..MaxMishaps
    PROVE  ReconcilerType(Steps, Lives, Contexts)'
BY DEF Goto, ReconcilerType

LEMMA StoreTypes ==
    ASSUME NEW Steps, NEW Lives, NEW Contexts, ReconcilerType(Steps, Lives, Contexts),
           NEW r \in Resources, NEW o \in {Blank, Gone} \cup Lives, Store(r, o),
           mishaps' \in 0..MaxMishaps
    PROVE  ReconcilerType(Steps, Lives, Contexts)'
<1>1. Outdate(cache, r, o) \in [Workers -> [Resources -> Copies(Lives)]]
  BY OutdatedCopies DEF ReconcilerType
<1>2. Outdate(task, r, o) \in
        [Workers -> [Resources -> {Idle} \cup Running(Steps, Lives, Contexts)]]
  BY OutdatedTasks DEF ReconcilerType
<1>3. QED
  BY <1>1, <1>2 DEF Store, ReconcilerType

LEMMA SaveTypes ==
    ASSUME NEW Steps, NEW Lives, NEW Contexts, ReconcilerType(Steps, Lives, Contexts),
           NEW w \in Workers, NEW r \in Resources,
           NEW o \in {Blank, Gone} \cup Lives,
           NEW t \in {Idle} \cup Running(Steps, Lives, Contexts), Save(w, r, o, t),
           mishaps' \in 0..MaxMishaps
    PROVE  ReconcilerType(Steps, Lives, Contexts)'
<1>1. Outdate(cache, r, o) \in [Workers -> [Resources -> Copies(Lives)]]
  BY OutdatedCopies DEF ReconcilerType
<1>2. Outdate(task, r, o) \in
        [Workers -> [Resources -> {Idle} \cup Running(Steps, Lives, Contexts)]]
  BY OutdatedTasks DEF ReconcilerType
<1>3. QED
  BY <1>1, <1>2 DEF Save, ReconcilerType

\* A step that fails or is disturbed from outside counts one mishap.
LEMMA MishapTypes ==
    ASSUME mishaps \in 0..MaxMishaps, Mishap
    PROVE  mishaps' \in 0..MaxMishaps
BY MaxMishapsAssumption DEF Mishap

------------------------------------------------------------------------------
(* The control flow keeps the types, for every kind of live objects. *)

\* A reconcile that is not idle is a running one.
LEMMA RunningTask ==
    ASSUME NEW Steps, NEW Lives, NEW Contexts, ReconcilerType(Steps, Lives, Contexts),
           NEW w \in Workers, NEW r \in Resources, task[w][r].pc # "idle"
    PROVE  task[w][r] \in Running(Steps, Lives, Contexts)
BY DEF ReconcilerType, Idle

\* Each step that ends or continues a reconcile yields a running one.
LEMMA ControlTypes ==
    ASSUME NEW Steps, NEW Lives, NEW Specs, NEW Notes, NEW Statuses, NEW Contexts,
           BaseSteps \subseteq Steps, Lives = LiveObjects(Specs, Notes, Statuses),
           NEW t \in Running(Steps, Lives, Contexts)
    PROVE  /\ \A ready \in {"none", "Creating", "Available", "Deleting"},
                synced \in {"none", "Success", "Error"} :
                Closed(t, ready, synced) \in Running(Steps, Lives, Contexts)
           /\ AfterFinalizer(t) \in Running(Steps, Lives, Contexts)
           /\ AfterPublish(t) \in Running(Steps, Lives, Contexts)
           /\ OnError(t) \in Running(Steps, Lives, Contexts)
           /\ \A outcome \in Creations :
                Recording(t, outcome) \in Running(Steps, Lives, Contexts)
<1>1. ASSUME NEW ready \in {"none", "Creating", "Available", "Deleting"},
             NEW synced \in {"none", "Success", "Error"}
      PROVE  Closed(t, ready, synced) \in Running(Steps, Lives, Contexts)
  BY ZenonT(40) DEF Closed, Running, LiveObjects, BaseSteps
<1>2. t.obj.ready \in {"none", "Creating", "Available", "Deleting"}
  BY DEF Running, LiveObjects
<1>3. AfterFinalizer(t) \in Running(Steps, Lives, Contexts)
  <2>1. [t EXCEPT !.pc = "pending"] \in Running(Steps, Lives, Contexts)
    BY DEF Running, BaseSteps
  <2>2. [t EXCEPT !.pc = "update"] \in Running(Steps, Lives, Contexts)
    BY DEF Running, BaseSteps
  <2>3. QED
    BY <1>1, <1>2, <2>1, <2>2 DEF AfterFinalizer
<1>4. AfterPublish(t) \in Running(Steps, Lives, Contexts)
  <2>1. [t EXCEPT !.pc = "addFinalizer"] \in Running(Steps, Lives, Contexts)
    BY DEF Running, BaseSteps
  <2>2. QED
    BY <1>3, <2>1 DEF AfterPublish
<1>5. OnError(t) \in Running(Steps, Lives, Contexts)
  BY <1>1, <1>2 DEF OnError
<1>6. ASSUME NEW outcome \in Creations
      PROVE  Recording(t, outcome) \in Running(Steps, Lives, Contexts)
  BY DEF Recording, Running, LiveObjects, BaseSteps
<1>7. QED
  BY <1>1, <1>3, <1>4, <1>5, <1>6

\* What Observe may leave behind.
LEMMA ObservedTypes ==
    ASSUME NEW Steps, NEW Lives, NEW Contexts, ReconcilerType(Steps, Lives, Contexts),
           BaseSteps \subseteq Steps,
           NEW w \in Workers, NEW r \in Resources, task[w][r].pc # "idle",
           NEW o \in Lives, NEW seen \in {"missing", "outdated", "current"},
           NEW ctx \in Contexts \cup {None}, Observed(w, r, o, seen, ctx),
           mishaps' \in 0..MaxMishaps
    PROVE  ReconcilerType(Steps, Lives, Contexts)'
<1> DEFINE step == IF ~o.deleting THEN "publish"
                   ELSE IF seen = "missing" THEN "finalize" ELSE "delete"
           next == [task[w][r] EXCEPT !.pc = step, !.obj = o, !.seen = seen, !.ctx = ctx]
<1>1. step \in Steps
  BY DEF BaseSteps
<1>2. next \in Running(Steps, Lives, Contexts)
  <2>1. task[w][r] \in Running(Steps, Lives, Contexts)
    BY RunningTask
  <2>2. QED
    BY <1>1, <2>1 DEF Running
<1>3. Goto(w, r, next)
  BY DEF Observed
<1>4. QED
  BY <1>2, <1>3, GotoTypes

\* client.Update keeps the status fields of the stored object.
LEMMA UpdatedTypes ==
    ASSUME NEW Lives, NEW Specs, NEW Notes, NEW Statuses,
           Lives = LiveObjects(Specs, Notes, Statuses),
           NEW r \in Resources, NEW o \in Lives, api[r] \in Lives
    PROVE  Updated(r, o) \in Lives
BY DEF Updated, LiveObjects

\* The object a reconcile may write is live.
LEMMA LivePhase ==
    ASSUME NEW Steps, NEW Lives, NEW Specs, NEW Notes, NEW Statuses, NEW Contexts,
           ReconcilerType(Steps, Lives, Contexts),
           Lives = LiveObjects(Specs, Notes, Statuses),
           NEW r \in Resources
    PROVE  /\ api[r].phase = "live" => api[r] \in Lives
           /\ \A w \in Workers :
                cache[w][r].obj.phase = "live" => cache[w][r].obj \in Lives
<1>1. Blank.phase # "live" /\ Gone.phase # "live"
  BY DEF Blank, Gone
<1>2. QED
  BY <1>1 DEF ReconcilerType, Copies

\* The user's actions keep the types.
LEMMA UserTypes ==
    ASSUME NEW Steps, NEW Lives, NEW Specs, NEW Notes, NEW Statuses, NEW Contexts,
           ReconcilerType(Steps, Lives, Contexts),
           Lives = LiveObjects(Specs, Notes, Statuses),
           NEW r \in Resources,
           (\E spec \in Specs : Apply(r, spec)) \/ RequestDeletion(r)
    PROVE  ReconcilerType(Steps, Lives, Contexts)'
<1>1. mishaps' \in 0..MaxMishaps
  BY DEF ReconcilerType, Apply, RequestDeletion
<1>2. ASSUME NEW spec \in Specs, Apply(r, spec)
      PROVE  ReconcilerType(Steps, Lives, Contexts)'
  <2>1. [Blank EXCEPT !.phase = "live", !.spec = spec] \in Lives
    BY DEF Blank, LiveObjects, Creations
  <2>2. QED
    BY <1>1, <1>2, <2>1, StoreTypes DEF Apply
<1>3. ASSUME RequestDeletion(r)
      PROVE  ReconcilerType(Steps, Lives, Contexts)'
  <2>1. api[r] \in Lives
    BY <1>3, LivePhase DEF RequestDeletion
  <2>2. [api[r] EXCEPT !.deleting = TRUE] \in Lives
    BY <2>1 DEF LiveObjects
  <2>3. QED
    BY <1>1, <1>3, <2>2, StoreTypes DEF RequestDeletion
<1>4. QED
  BY <1>2, <1>3

\* The operator's own actions, those that call nothing outside, keep the types.
LEMMA OperatorTypes ==
    ASSUME NEW Steps, NEW Lives, NEW Specs, NEW Notes, NEW Statuses, NEW Contexts,
           ReconcilerType(Steps, Lives, Contexts),
           "idle" \notin Steps, BaseSteps \subseteq Steps,
           Lives = LiveObjects(Specs, Notes, Statuses),
           NEW w \in Workers, NEW r \in Resources,
           \/ Sync(w, r) \/ Begin(w, r) \/ ReconcilerStep(w, r)
           \/ (\E steps \in SUBSET Steps : CallFails(w, r, steps)) \/ Abandon(w, r)
    PROVE  ReconcilerType(Steps, Lives, Contexts)'
<1> DEFINE t == task[w][r]
           c == cache[w][r]
           Tasks == Running(Steps, Lives, Contexts)
<1>1. t.pc # "idle" => t \in Tasks
  BY RunningTask
<1>2. /\ api[r].phase = "live" => api[r] \in Lives
      /\ c.obj.phase = "live" => c.obj \in Lives
  BY LivePhase
<1>3. Idle \in {Idle} \cup Tasks
  OBVIOUS
<1>4. mishaps' = mishaps => mishaps' \in 0..MaxMishaps
  BY DEF ReconcilerType
<1>5. CASE Sync(w, r)
  <2>1. [obj |-> api[r], cur |-> TRUE] \in Copies(Lives)
    BY DEF ReconcilerType, Copies
  <2>2. QED
    BY <1>5, <2>1 DEF Sync, ReconcilerType
<1>6. CASE Begin(w, r)
  <2> DEFINE b == [Idle EXCEPT !.pc = "connect", !.obj = c.obj, !.cur = c.cur]
  <2>1. c.obj \in Lives /\ c.cur \in BOOLEAN
    BY <1>2, <1>6 DEF Begin, ReconcilerType, Copies
  <2>2. b \in Tasks
    BY <2>1 DEF Idle, Running, BaseSteps
  <2>3. FirstStep(r, b) \in Tasks
    <3>1. [b EXCEPT !.pc = "finalize"] \in Tasks
      BY <2>2 DEF Running, BaseSteps
    <3>2. Closed(b, "Creating", "Error") \in Tasks
      BY <2>2, ControlTypes
    <3>3. QED
      BY <2>2, <3>1, <3>2 DEF FirstStep
  <2>4. QED
    BY <1>4, <1>6, <2>3, GotoTypes DEF Begin
<1>7. CASE AddFinalizer(w, r)
  <2> DEFINE o == Updated(r, [t.obj EXCEPT !.finalizer = TRUE])
  <2>1. t \in Tasks /\ api[r] \in Lives
    BY <1>1, <1>2, <1>7 DEF AddFinalizer, WriteAccepted
  <2>2. [t.obj EXCEPT !.finalizer = TRUE] \in Lives
    BY <2>1 DEF Running, LiveObjects
  <2>3. o \in Lives
    BY <2>1, <2>2, UpdatedTypes
  <2>4. PICK s \in {t.obj.status, o.status} :
             Save(w, r, o, AfterFinalizer([t EXCEPT !.obj = [o EXCEPT !.status = s]]))
    BY <1>7 DEF AddFinalizer
  <2>5. [o EXCEPT !.status = s] \in Lives
    BY <2>1, <2>3 DEF Running, LiveObjects
  <2>6. [t EXCEPT !.obj = [o EXCEPT !.status = s]] \in Tasks
    BY <2>1, <2>5 DEF Running
  <2>7. AfterFinalizer([t EXCEPT !.obj = [o EXCEPT !.status = s]]) \in Tasks
    BY <2>6, ControlTypes
  <2>8. QED
    BY <1>4, <1>7, <2>3, <2>4, <2>7, SaveTypes DEF AddFinalizer
<1>8. CASE MarkPending(w, r)
  <2> DEFINE o == Updated(r, [t.obj EXCEPT !.creation = "pending"])
  <2>1. t \in Tasks /\ api[r] \in Lives
    BY <1>1, <1>2, <1>8 DEF MarkPending, WriteAccepted
  <2>2. [t.obj EXCEPT !.creation = "pending"] \in Lives
    BY <2>1 DEF Running, LiveObjects, Creations
  <2>3. o \in Lives
    BY <2>1, <2>2, UpdatedTypes
  <2>4. PICK s \in {t.obj.status, o.status} :
             Save(w, r, o, [t EXCEPT !.pc = "create", !.obj = [o EXCEPT !.status = s]])
    BY <1>8 DEF MarkPending
  <2>5. [o EXCEPT !.status = s] \in Lives
    BY <2>1, <2>3 DEF Running, LiveObjects
  <2>6. [t EXCEPT !.pc = "create", !.obj = [o EXCEPT !.status = s]] \in Tasks
    BY <2>1, <2>5 DEF Running, BaseSteps
  <2>7. QED
    BY <1>4, <1>8, <2>3, <2>4, <2>6, SaveTypes DEF MarkPending
<1>9. CASE RecordCreation(w, r)
  <2> DEFINE o == [api[r] EXCEPT !.creation = t.obj.creation,
                       !.note = IF t.obj.note = None THEN @ ELSE t.obj.note]
             m(s) == [o EXCEPT !.status = s]
             u(s) == [t EXCEPT !.obj = m(s), !.cur = TRUE]
  <2>1. t \in Tasks /\ api[r] \in Lives
    BY <1>1, <1>2, <1>9 DEF RecordCreation
  <2>2. o \in Lives /\ m(o.status) = o
    BY <2>1 DEF Running, LiveObjects
  <2>3. PICK s \in {t.obj.status, o.status} : Save(w, r, o, Recorded(t, m(s)))
    BY <1>9, <2>2 DEF RecordCreation
  <2>4. m(s) \in Lives
    BY <2>1, <2>2, ZenonT(40) DEF Running, LiveObjects
  <2>5. u(s) \in Tasks
    BY <2>1, <2>4 DEF Running
  <2>6. [u(s) EXCEPT !.pc = "publishCreated"] \in Tasks
    BY <2>5 DEF Running, BaseSteps
  <2>7. Closed(u(s), "Creating", "Error") \in Tasks
    BY <2>5, ControlTypes
  <2>8. Recorded(t, m(s)) \in Tasks
    BY <2>6, <2>7 DEF Recorded
  <2>9. QED
    BY <1>4, <1>9, <2>2, <2>3, <2>8, SaveTypes DEF RecordCreation
<1>10. CASE RemoveFinalizer(w, r)
  BY <1>4, <1>10, SaveTypes DEF RemoveFinalizer
<1>11. CASE WriteStatus(w, r)
  <2> DEFINE o == [api[r] EXCEPT !.status = t.obj.status, !.ready = t.obj.ready,
                                 !.synced = t.obj.synced]
  <2>1. t \in Tasks /\ api[r] \in Lives
    BY <1>1, <1>2, <1>11 DEF WriteStatus, WriteAccepted
  <2>2. o \in Lives
    BY <2>1 DEF Running, LiveObjects
  <2>3. QED
    BY <1>4, <1>11, <2>2, SaveTypes DEF WriteStatus
<1>12. CASE Conflict(w, r)
  BY <1>4, <1>12, GotoTypes DEF Conflict
<1>13. ASSUME NEW steps \in SUBSET Steps, CallFails(w, r, steps)
       PROVE  ReconcilerType(Steps, Lives, Contexts)'
  <2>1. t \in Tasks
    BY <1>1, <1>13 DEF CallFails
  <2>2. OnError(t) \in Tasks
    BY <2>1, ControlTypes
  <2>3. mishaps' \in 0..MaxMishaps
    BY <1>13, MishapTypes DEF CallFails, ReconcilerType
  <2>4. QED
    BY <1>13, <2>2, <2>3, GotoTypes DEF CallFails
<1>14. CASE Abandon(w, r)
  <2>1. mishaps' \in 0..MaxMishaps
    BY <1>14, MishapTypes DEF Abandon, ReconcilerType
  <2>2. QED
    BY <1>14, <2>1, GotoTypes DEF Abandon
<1>15. QED
  BY <1>5, <1>6, <1>7, <1>8, <1>9, <1>10, <1>11, <1>12, <1>13, <1>14
     DEF ReconcilerStep

------------------------------------------------------------------------------
(* Exclusion: what the three ways of changing the state must respect. *)

\* A reconcile goes on as t without a write: it enters Create only from Create,
\* and keeps the finalizer and the creation it has read.
LEMMA GotoExclusion ==
    ASSUME NEW Steps, NEW Lives, NEW Contexts, ReconcilerType(Steps, Lives, Contexts),
           Exclusion, NEW w \in Workers, NEW r \in Resources, NEW t, Goto(w, r, t),
           t.cur => /\ task[w][r].cur /\ t.obj.finalizer = task[w][r].obj.finalizer
                    /\ t.pc # "record" => /\ task[w][r].pc # "record"
                                          /\ t.obj.creation = task[w][r].obj.creation,
           t.pc \in {"connect", "observe"} =>
                /\ task[w][r].pc \in {"connect", "observe"}
                /\ t.obj = task[w][r].obj,
           t.pc \in CreateSteps => task[w][r].pc \in CreateSteps,
           t.pc \in BeforeCreate => /\ task[w][r].pc \in BeforeCreate
                                    /\ t.obj.creation = task[w][r].obj.creation,
           t.pc = "pending" => t.obj.finalizer
    PROVE  Exclusion'
<1>1. /\ api' = api /\ cache' = cache
      /\ \A v \in Workers, q \in Resources :
           task'[v][q] = IF v = w /\ q = r THEN t ELSE task[v][q]
  BY DEF Goto, ReconcilerType
<1>2. CreateIsExclusive'
  BY <1>1 DEF Exclusion, CreateIsExclusive
<1>3. CachesAgree'
  BY <1>1 DEF Exclusion, CachesAgree
<1>4. TasksAgree'
  BY <1>1 DEF Exclusion, TasksAgree
<1>5. CreationAnnounced'
  BY <1>1 DEF Exclusion, CreationAnnounced
<1>6. CreationChecked'
  BY <1>1 DEF Exclusion, CreationChecked
<1>7. QED
  BY <1>2, <1>3, <1>4, <1>5, <1>6 DEF Exclusion

\* A write from outside leaves the creation and the finalizer as they are.
LEMMA StoreExclusion ==
    ASSUME NEW Steps, NEW Lives, NEW Contexts, ReconcilerType(Steps, Lives, Contexts),
           Exclusion, NEW r \in Resources, NEW o, Store(r, o),
           \/ o.phase = "gone"
           \/ /\ api[r].phase # "gone"
              /\ o.creation = api[r].creation /\ o.finalizer = api[r].finalizer
    PROVE  Exclusion'
<1>1. api'[r] = o /\ \A q \in Resources : q # r => api'[q] = api[q]
  BY StoreEffect
<1>2. \A v \in Workers, q \in Resources :
        /\ cache'[v][q].obj = cache[v][q].obj
        /\ cache'[v][q].cur => cache[v][q].cur /\ api'[q] = api[q]
        /\ task'[v][q].pc = task[v][q].pc /\ task'[v][q].obj = task[v][q].obj
        /\ task'[v][q].cur => task[v][q].cur /\ api'[q] = api[q]
  BY StoreEffect
<1>3. CreateIsExclusive'
  BY <1>2 DEF Exclusion, CreateIsExclusive
<1>4. CachesAgree'
  BY <1>2 DEF Exclusion, CachesAgree
<1>5. TasksAgree'
  BY <1>2 DEF Exclusion, TasksAgree
<1>6. CreationAnnounced'
  BY <1>1, <1>2 DEF Exclusion, CreationAnnounced
<1>7. CreationChecked'
  BY <1>2 DEF Exclusion, CreationChecked
<1>8. QED
  BY <1>3, <1>4, <1>5, <1>6, <1>7 DEF Exclusion

\* A write o by a reconcile that goes on as t: whoever is in Create keeps the
\* announcement, and w enters it only with the announcement and alone.
LEMMA SaveExclusion ==
    ASSUME NEW Steps, NEW Lives, NEW Contexts, ReconcilerType(Steps, Lives, Contexts),
           Exclusion, NEW w \in Workers, NEW r \in Resources, NEW o, NEW t,
           Save(w, r, o, t),
           \A v \in Workers : v # w /\ task[v][r].pc \in CreateSteps =>
                /\ t.pc \notin CreateSteps
                /\ o.phase = "gone" \/ (o.creation = "pending" /\ o.finalizer),
           t.pc \in CreateSteps => o.creation = "pending" /\ o.finalizer,
           t.cur => t.obj.finalizer = o.finalizer /\ t.obj.creation = o.creation,
           t.pc \notin {"connect", "observe"},
           t.pc \in BeforeCreate => t.obj.creation # "pending",
           t.pc = "pending" => t.obj.finalizer
    PROVE  Exclusion'
<1>1. /\ api'[r] = o /\ task'[w][r] = t
      /\ \A q \in Resources : q # r => api'[q] = api[q]
  BY SaveEffect
<1>2. \A v \in Workers, q \in Resources :
        /\ cache'[v][q].obj = cache[v][q].obj
        /\ cache'[v][q].cur => cache[v][q].cur /\ api'[q] = api[q]
        /\ v # w \/ q # r =>
             /\ task'[v][q].pc = task[v][q].pc /\ task'[v][q].obj = task[v][q].obj
             /\ task'[v][q].cur => task[v][q].cur /\ api'[q] = api[q]
  BY SaveEffect
<1>3. CreateIsExclusive'
  BY <1>1, <1>2 DEF Exclusion, CreateIsExclusive
<1>4. CachesAgree'
  BY <1>2 DEF Exclusion, CachesAgree
<1>5. TasksAgree'
  BY <1>1, <1>2 DEF Exclusion, TasksAgree
<1>6. CreationAnnounced'
  BY <1>1, <1>2 DEF Exclusion, CreationAnnounced
<1>7. CreationChecked'
  BY <1>1, <1>2 DEF Exclusion, CreationChecked
<1>8. QED
  BY <1>3, <1>4, <1>5, <1>6, <1>7 DEF Exclusion

\* What the control flow makes of a reconcile, as far as exclusion goes.
LEMMA ControlEffect ==
    ASSUME NEW Steps, NEW Lives, NEW Specs, NEW Notes, NEW Statuses, NEW Contexts,
           Lives = LiveObjects(Specs, Notes, Statuses),
           NEW t \in Running(Steps, Lives, Contexts)
    PROVE  /\ \A ready, synced :
                LET u == Closed(t, ready, synced)
                IN  /\ u.pc = "status" /\ u.cur = t.cur
                    /\ u.obj.finalizer = t.obj.finalizer
                    /\ u.obj.creation = t.obj.creation
                    /\ u.obj.status = t.obj.status /\ u.seen = "unknown"
                    /\ u.obj.note = t.obj.note /\ u.obj.spec = t.obj.spec
                    /\ u.obj.deleting = t.obj.deleting /\ u.ctx = None
                    /\ u.obj.ready = ready /\ u.obj.synced = synced
           /\ LET u == OnError(t)
              IN  /\ u.pc = "status" /\ u.cur = t.cur
                  /\ u.obj.finalizer = t.obj.finalizer
                  /\ u.obj.creation = t.obj.creation
                  /\ u.obj.status = t.obj.status /\ u.seen = "unknown"
                  /\ u.obj.note = t.obj.note /\ u.obj.spec = t.obj.spec
                  /\ u.obj.deleting = t.obj.deleting /\ u.ctx = None
                  /\ u.obj.synced = "Error"
                  /\ \/ u.obj.ready \in {t.obj.ready, "Creating"}
                     \/ u.obj.ready = "Deleting" /\ t.pc \in DeleteSteps
           /\ LET u == AfterFinalizer(t)
              IN  /\ u.cur = t.cur
                  /\ u.obj.finalizer = t.obj.finalizer
                  /\ u.obj.creation = t.obj.creation
                  /\ u.obj.status = t.obj.status /\ u.obj.note = t.obj.note
                  /\ u.obj.deleting = t.obj.deleting /\ u.obj.spec = t.obj.spec
                  /\ \/ /\ u.pc = "pending" /\ u.seen = "missing" /\ t.seen = "missing"
                        /\ u.obj = t.obj /\ u.ctx = t.ctx
                     \/ u.pc = "update" /\ u.seen = "outdated" /\ u.obj = t.obj
                     \/ /\ u.pc = "status" /\ u.seen = "unknown"
                        /\ u.obj.ready = t.obj.ready /\ u.obj.synced = "Success"
<1>1. ASSUME NEW ready, NEW synced
      PROVE  LET u == Closed(t, ready, synced)
             IN  /\ u.pc = "status" /\ u.cur = t.cur
                 /\ u.obj.finalizer = t.obj.finalizer
                 /\ u.obj.creation = t.obj.creation
                 /\ u.obj.status = t.obj.status /\ u.seen = "unknown"
                 /\ u.obj.note = t.obj.note /\ u.obj.spec = t.obj.spec
                 /\ u.obj.deleting = t.obj.deleting /\ u.ctx = None
                 /\ u.obj.ready = ready /\ u.obj.synced = synced
  BY DEF Closed, Running, LiveObjects
<1>2. LET u == OnError(t)
      IN  /\ u.pc = "status" /\ u.cur = t.cur
          /\ u.obj.finalizer = t.obj.finalizer
          /\ u.obj.creation = t.obj.creation
          /\ u.obj.status = t.obj.status /\ u.seen = "unknown"
          /\ u.obj.note = t.obj.note /\ u.obj.spec = t.obj.spec
          /\ u.obj.deleting = t.obj.deleting /\ u.ctx = None
          /\ u.obj.synced = "Error"
          /\ \/ u.obj.ready \in {t.obj.ready, "Creating"}
             \/ u.obj.ready = "Deleting" /\ t.pc \in DeleteSteps
  BY <1>1 DEF OnError
<1>3. LET u == AfterFinalizer(t)
      IN  /\ u.cur = t.cur
          /\ u.obj.finalizer = t.obj.finalizer
          /\ u.obj.creation = t.obj.creation
          /\ u.obj.status = t.obj.status /\ u.obj.note = t.obj.note
          /\ u.obj.deleting = t.obj.deleting /\ u.obj.spec = t.obj.spec
          /\ \/ /\ u.pc = "pending" /\ u.seen = "missing" /\ t.seen = "missing"
                /\ u.obj = t.obj /\ u.ctx = t.ctx
             \/ u.pc = "update" /\ u.seen = "outdated" /\ u.obj = t.obj
             \/ /\ u.pc = "status" /\ u.seen = "unknown"
                /\ u.obj.ready = t.obj.ready /\ u.obj.synced = "Success"
  <2>1. CASE t.seen = "missing"
    BY <2>1 DEF AfterFinalizer, Running
  <2>2. CASE t.seen = "outdated"
    BY <2>2 DEF AfterFinalizer, Running
  <2>3. CASE t.seen \notin {"missing", "outdated"}
    BY <1>1, <2>3 DEF AfterFinalizer
  <2>4. QED
    BY <2>1, <2>2, <2>3
<1>4. QED
  BY <1>1, <1>2, <1>3

\* A reconcile begins with what the cache holds; one that does not end at once
\* has read an object without an announcement.
LEMMA BeginEffect ==
    ASSUME NEW Steps, NEW Lives, NEW Specs, NEW Notes, NEW Statuses, NEW Contexts,
           ReconcilerType(Steps, Lives, Contexts), BaseSteps \subseteq Steps,
           Lives = LiveObjects(Specs, Notes, Statuses),
           NEW w \in Workers, NEW r \in Resources, Begin(w, r)
    PROVE  LET c == cache[w][r]
               t == FirstStep(r, [Idle EXCEPT !.pc = "connect", !.obj = c.obj,
                                              !.cur = c.cur])
           IN  /\ Goto(w, r, t) /\ t.cur = c.cur /\ t.seen = "unknown"
               /\ t.obj.finalizer = c.obj.finalizer
               /\ t.obj.creation = c.obj.creation
               /\ t.obj.status = c.obj.status /\ t.obj.note = c.obj.note
               /\ t.obj.deleting = c.obj.deleting /\ t.obj.spec = c.obj.spec
               /\ \/ t.pc = "finalize" /\ t.obj = c.obj /\ t.obj.deleting /\ r \in Orphans
                  \/ t.pc = "status" /\ t.obj.ready = "Creating" /\ t.obj.synced = "Error"
                  \/ /\ t.pc = "connect" /\ t.obj = c.obj /\ c.obj.creation # "pending"
                     /\ ~(t.obj.deleting /\ r \in Orphans)
<1> DEFINE c == cache[w][r]
           b == [Idle EXCEPT !.pc = "connect", !.obj = c.obj, !.cur = c.cur]
<1>1. c.obj \in Lives /\ c.cur \in BOOLEAN
  <2>1. c.obj \in Lives
    BY LivePhase DEF Begin
  <2>2. QED
    BY <2>1 DEF ReconcilerType, Copies
<1>2. /\ b.pc = "connect" /\ b.obj = c.obj /\ b.cur = c.cur
      /\ b.seen = "unknown" /\ b.ctx = None
  BY DEF Idle
<1>3. b \in Running(Steps, Lives, Contexts)
  BY <1>1 DEF Idle, Running, BaseSteps
<1>4. Goto(w, r, FirstStep(r, b))
  BY DEF Begin
<1> HIDE DEF b
<1>5. LET t == FirstStep(r, b)
      IN  /\ t.cur = c.cur /\ t.seen = "unknown"
          /\ t.obj.finalizer = c.obj.finalizer
          /\ t.obj.creation = c.obj.creation
          /\ t.obj.status = c.obj.status /\ t.obj.note = c.obj.note
          /\ t.obj.deleting = c.obj.deleting /\ t.obj.spec = c.obj.spec
          /\ \/ t.pc = "finalize" /\ t.obj = c.obj /\ t.obj.deleting /\ r \in Orphans
             \/ t.pc = "status" /\ t.obj.ready = "Creating" /\ t.obj.synced = "Error"
             \/ /\ t.pc = "connect" /\ t.obj = c.obj /\ c.obj.creation # "pending"
                /\ ~(t.obj.deleting /\ r \in Orphans)
  <2>1. CASE b.obj.deleting /\ r \in Orphans
    <3>1. FirstStep(r, b) = [b EXCEPT !.pc = "finalize"]
      BY <2>1 DEF FirstStep
    <3>2. QED
      BY <1>2, <1>3, <2>1, <3>1 DEF Running
  <2>2. CASE ~(b.obj.deleting /\ r \in Orphans) /\ b.obj.creation = "pending"
    <3>1. FirstStep(r, b) = Closed(b, "Creating", "Error")
      BY <2>2 DEF FirstStep
    <3>2. QED
      BY <1>2, <1>3, <3>1, ControlEffect
  <2>3. CASE ~(b.obj.deleting /\ r \in Orphans) /\ b.obj.creation # "pending"
    <3>1. FirstStep(r, b) = b
      BY <2>3 DEF FirstStep
    <3>2. QED
      BY <1>2, <2>3, <3>1
  <2>4. QED
    BY <2>1, <2>2, <2>3
<1>6. QED
  BY <1>4, <1>5 DEF b

\* Beginning a reconcile keeps exclusion: nobody enters Create by it.
LEMMA BeginExclusion ==
    ASSUME NEW Steps, NEW Lives, NEW Specs, NEW Notes, NEW Statuses, NEW Contexts,
           ReconcilerType(Steps, Lives, Contexts), BaseSteps \subseteq Steps,
           Lives = LiveObjects(Specs, Notes, Statuses), Exclusion,
           NEW w \in Workers, NEW r \in Resources, Begin(w, r)
    PROVE  Exclusion'
<1> DEFINE c == cache[w][r]
           t == FirstStep(r, [Idle EXCEPT !.pc = "connect", !.obj = c.obj,
                                          !.cur = c.cur])
<1>1. /\ Goto(w, r, t) /\ t.cur = c.cur
      /\ t.obj.finalizer = c.obj.finalizer /\ t.obj.creation = c.obj.creation
      /\ \/ t.pc = "finalize" \/ t.pc = "status"
         \/ t.pc = "connect" /\ t.obj = c.obj /\ c.obj.creation # "pending"
  BY BeginEffect
<1> HIDE DEF t
<1>2. /\ api' = api /\ cache' = cache
      /\ \A v \in Workers, q \in Resources :
           task'[v][q] = IF v = w /\ q = r THEN t ELSE task[v][q]
  BY <1>1 DEF Goto, ReconcilerType
<1>3. CreateIsExclusive'
  BY <1>1, <1>2 DEF Exclusion, CreateIsExclusive, CreateSteps
<1>4. CachesAgree'
  BY <1>2 DEF Exclusion, CachesAgree
<1>5. TasksAgree'
  BY <1>1, <1>2 DEF Exclusion, TasksAgree, CachesAgree
<1>6. CreationAnnounced'
  BY <1>1, <1>2 DEF Exclusion, CreationAnnounced, CreateSteps
<1>7. CreationChecked'
  BY <1>1, <1>2 DEF Exclusion, CreationChecked, BeforeCreate
<1>8. QED
  BY <1>3, <1>4, <1>5, <1>6, <1>7 DEF Exclusion

\* The writes of a reconcile keep exclusion.
LEMMA WriteExclusion ==
    ASSUME NEW Steps, NEW Lives, NEW Specs, NEW Notes, NEW Statuses, NEW Contexts,
           ReconcilerType(Steps, Lives, Contexts), "idle" \notin Steps,
           Lives = LiveObjects(Specs, Notes, Statuses), Exclusion,
           NEW w \in Workers, NEW r \in Resources,
           \/ AddFinalizer(w, r) \/ MarkPending(w, r) \/ RecordCreation(w, r)
           \/ RemoveFinalizer(w, r) \/ WriteStatus(w, r)
    PROVE  Exclusion'
<1> DEFINE t == task[w][r]
           Tasks == Running(Steps, Lives, Contexts)
<1>1. t.pc # "idle" => t \in Tasks
  BY RunningTask
<1>2. api[r].phase = "live" => api[r] \in Lives
  BY LivePhase
<1>3. /\ t.cur => t.obj.finalizer = api[r].finalizer
      /\ t.cur /\ t.pc # "record" => t.obj.creation = api[r].creation
  BY DEF Exclusion, TasksAgree
<1>4. /\ t.pc \in BeforeCreate => t.obj.creation # "pending"
      /\ t.pc = "pending" => t.obj.finalizer
  BY DEF Exclusion, CreationChecked
<1>5. \A v \in Workers : task[v][r].pc \in CreateSteps =>
        api[r].phase = "gone" \/ (api[r].creation = "pending" /\ api[r].finalizer)
  BY DEF Exclusion, CreationAnnounced
<1>6. CASE AddFinalizer(w, r)
  <2> DEFINE o == Updated(r, [t.obj EXCEPT !.finalizer = TRUE])
             m(s) == [t EXCEPT !.obj = [o EXCEPT !.status = s]]
  <2>1. t \in Tasks /\ api[r] \in Lives /\ t.cur /\ t.pc = "addFinalizer"
        /\ api[r].phase = "live"
    BY <1>1, <1>2, <1>6 DEF AddFinalizer, WriteAccepted
  <2>2. t.obj \in Lives
    BY <2>1 DEF Running
  <2>3. o \in Lives /\ o.finalizer = TRUE /\ o.creation = t.obj.creation
    BY <2>1, <2>2 DEF Updated, LiveObjects
  <2>4. PICK s \in {t.obj.status, o.status} : Save(w, r, o, AfterFinalizer(m(s)))
    BY <1>6 DEF AddFinalizer
  <2>5. [o EXCEPT !.status = s] \in Lives
    BY <2>2, <2>3 DEF LiveObjects
  <2>6. /\ m(s) \in Tasks /\ m(s).obj.creation = t.obj.creation
        /\ m(s).obj.finalizer = TRUE
    <3>1. [o EXCEPT !.status = s].creation = o.creation
          /\ [o EXCEPT !.status = s].finalizer = o.finalizer
      BY <2>3 DEF LiveObjects
    <3>2. m(s) \in Tasks /\ m(s).obj = [o EXCEPT !.status = s]
      BY <2>1, <2>5 DEF Running
    <3>3. QED
      BY <2>3, <3>1, <3>2
  <2> HIDE DEF o, m
  <2> DEFINE u == AfterFinalizer(m(s))
  <2>7. /\ u.pc \in {"pending", "update", "status"}
        /\ u.obj.creation = t.obj.creation /\ u.obj.finalizer = TRUE
    BY <2>6, ControlEffect
  <2> HIDE DEF u
  <2>8. t.obj.creation # "pending" /\ t.obj.creation = api[r].creation
    BY <1>3, <1>4, <2>1 DEF BeforeCreate
  <2>9. u.pc \notin CreateSteps \cup {"connect", "observe"}
    BY <2>7 DEF CreateSteps
  <2>10. ASSUME NEW v \in Workers, task[v][r].pc \in CreateSteps
         PROVE  FALSE
    BY <1>5, <2>1, <2>8, <2>10
  <2>11. QED
    BY <2>3, <2>4, <2>7, <2>8, <2>9, <2>10, SaveExclusion, ZenonT(40) DEF u
<1>7. CASE MarkPending(w, r)
  <2> DEFINE o == Updated(r, [t.obj EXCEPT !.creation = "pending"])
             u(s) == [t EXCEPT !.pc = "create", !.obj = [o EXCEPT !.status = s]]
  <2>1. t \in Tasks /\ api[r] \in Lives /\ t.cur /\ t.pc = "pending"
        /\ api[r].phase = "live"
    BY <1>1, <1>2, <1>7 DEF MarkPending, WriteAccepted
  <2>2. t.obj \in Lives
    BY <2>1 DEF Running
  <2>3. o \in Lives /\ o.finalizer = t.obj.finalizer /\ o.creation = "pending"
    BY <2>1, <2>2 DEF Updated, LiveObjects, Creations
  <2>4. PICK s \in {t.obj.status, o.status} : Save(w, r, o, u(s))
    BY <1>7 DEF MarkPending
  <2>5. /\ u(s).pc = "create" /\ u(s).obj.creation = o.creation
        /\ u(s).obj.finalizer = o.finalizer
    <3>1. [o EXCEPT !.status = s].creation = o.creation
          /\ [o EXCEPT !.status = s].finalizer = o.finalizer
      BY <2>3 DEF LiveObjects
    <3>2. u(s).pc = "create" /\ u(s).obj = [o EXCEPT !.status = s]
      BY <2>1 DEF Running
    <3>3. QED
      BY <3>1, <3>2
  <2> HIDE DEF o, u
  <2>6. t.obj.creation # "pending" /\ t.obj.creation = api[r].creation
    BY <1>3, <1>4, <2>1 DEF BeforeCreate
  <2>7. ASSUME NEW v \in Workers, task[v][r].pc \in CreateSteps
        PROVE  FALSE
    BY <1>5, <2>1, <2>6, <2>7
  <2>8. o.finalizer
    BY <1>4, <2>1, <2>3
  <2>9. u(s).pc \notin BeforeCreate \cup {"connect", "observe", "pending"}
    BY <2>5 DEF BeforeCreate
  <2>10. QED
    BY <2>3, <2>4, <2>5, <2>7, <2>8, <2>9, SaveExclusion
<1>8. CASE RecordCreation(w, r)
  <2> DEFINE o == [api[r] EXCEPT !.creation = t.obj.creation,
                            !.note = IF t.obj.note = None THEN @ ELSE t.obj.note]
             m(s) == [o EXCEPT !.status = s]
             u(s) == [t EXCEPT !.obj = m(s), !.cur = TRUE]
  <2>1. t \in Tasks /\ api[r] \in Lives /\ t.pc = "record"
    BY <1>1, <1>2, <1>8 DEF RecordCreation
  <2>2. o \in Lives /\ m(o.status) = o
    BY <2>1 DEF Running, LiveObjects
  <2>3. PICK s \in {t.obj.status, o.status} : Save(w, r, o, Recorded(t, m(s)))
    BY <1>8, <2>2 DEF RecordCreation
  <2>4. m(s) \in Lives /\ m(s).creation = o.creation /\ m(s).finalizer = o.finalizer
    BY <2>1, <2>2, ZenonT(40) DEF Running, LiveObjects
  <2>5. u(s) \in Tasks /\ u(s).obj = m(s)
    BY <2>1, <2>4 DEF Running
  <2> DEFINE next == Recorded(t, m(s))
  <2>6. next = IF m(s).creation = "succeeded"
               THEN [u(s) EXCEPT !.pc = "publishCreated"]
               ELSE Closed(u(s), "Creating", "Error")
    BY DEF Recorded
  <2> HIDE DEF o, m, u, next
  <2>7. /\ next.pc \in {"publishCreated", "status"}
        /\ next.obj.creation = o.creation /\ next.obj.finalizer = o.finalizer
    <3>1. CASE m(s).creation = "succeeded"
      BY <2>4, <2>5, <2>6, <3>1 DEF Running
    <3>2. CASE m(s).creation # "succeeded"
      BY <2>4, <2>5, <2>6, <3>2, ControlEffect
    <3>3. QED
      BY <3>1, <3>2
  <2>8. ASSUME NEW v \in Workers, v # w, task[v][r].pc \in CreateSteps
        PROVE  FALSE
    BY <2>1, <2>8 DEF Exclusion, CreateIsExclusive, CreateSteps
  <2>9. next.pc \notin BeforeCreate \cup CreateSteps \cup {"connect", "observe", "pending"}
    BY <2>7 DEF BeforeCreate, CreateSteps
  <2>10. QED
    BY <2>3, <2>7, <2>8, <2>9, SaveExclusion DEF next
<1>9. CASE RemoveFinalizer(w, r)
  <2>1. Save(w, r, Gone, Idle) /\ Gone.phase = "gone"
    BY <1>9 DEF RemoveFinalizer, Gone, Blank
  <2>2. Idle.pc = "idle" /\ Idle.cur = FALSE
    BY DEF Idle
  <2>3. QED
    BY <2>1, <2>2, SaveExclusion DEF CreateSteps, BeforeCreate
<1>10. CASE WriteStatus(w, r)
  <2> DEFINE o == [api[r] EXCEPT !.status = t.obj.status, !.ready = t.obj.ready,
                                 !.synced = t.obj.synced]
  <2>1. t \in Tasks /\ api[r] \in Lives /\ api[r].phase = "live"
        /\ Save(w, r, o, Idle)
    BY <1>1, <1>2, <1>10 DEF WriteStatus, WriteAccepted
  <2>2. o.creation = api[r].creation /\ o.finalizer = api[r].finalizer
    BY <2>1 DEF LiveObjects
  <2>3. Idle.pc = "idle" /\ Idle.cur = FALSE
    BY DEF Idle
  <2> HIDE DEF o
  <2>4. \A v \in Workers : task[v][r].pc \in CreateSteps =>
          o.creation = "pending" /\ o.finalizer
    BY <1>5, <2>1, <2>2
  <2>5. Idle.pc \notin CreateSteps \cup BeforeCreate
    BY <2>3 DEF CreateSteps, BeforeCreate
  <2>6. QED
    BY <2>1, <2>3, <2>4, <2>5, SaveExclusion
<1>11. QED
  BY <1>6, <1>7, <1>8, <1>9, <1>10

\* A reconcile that ends keeps exclusion.
LEMMA EndExclusion ==
    ASSUME NEW Steps, NEW Lives, NEW Contexts, ReconcilerType(Steps, Lives, Contexts),
           Exclusion, NEW w \in Workers, NEW r \in Resources, Goto(w, r, Idle)
    PROVE  Exclusion'
<1>1. Idle.pc = "idle" /\ Idle.cur = FALSE
  BY DEF Idle
<1>2. Idle.pc \notin CreateSteps \cup BeforeCreate \cup {"connect", "observe", "pending"}
  BY <1>1 DEF CreateSteps, BeforeCreate
<1>3. QED
  BY <1>1, <1>2, GotoExclusion

\* A reconcile that turns to the status write keeps exclusion, unless it leaves
\* behind the outcome of a creation.
LEMMA CloseExclusion ==
    ASSUME NEW Steps, NEW Lives, NEW Contexts, ReconcilerType(Steps, Lives, Contexts),
           Exclusion, NEW w \in Workers, NEW r \in Resources, NEW t, Goto(w, r, t),
           t.pc = "status", t.cur = task[w][r].cur, task[w][r].pc # "record",
           t.obj.finalizer = task[w][r].obj.finalizer,
           t.obj.creation = task[w][r].obj.creation
    PROVE  Exclusion'
<1>1. t.pc \notin CreateSteps \cup BeforeCreate \cup {"connect", "observe", "pending"}
  BY DEF CreateSteps, BeforeCreate
<1>2. QED
  BY <1>1, GotoExclusion

\* All steps of the operator that call nothing outside keep exclusion.
LEMMA OperatorExclusion ==
    ASSUME NEW Steps, NEW Lives, NEW Specs, NEW Notes, NEW Statuses, NEW Contexts,
           ReconcilerType(Steps, Lives, Contexts),
           "idle" \notin Steps, BaseSteps \subseteq Steps,
           Lives = LiveObjects(Specs, Notes, Statuses), Exclusion,
           NEW w \in Workers, NEW r \in Resources,
           \/ Sync(w, r) \/ Begin(w, r) \/ ReconcilerStep(w, r)
           \/ \E steps \in SUBSET (Steps \ {"record"}) : CallFails(w, r, steps)
           \/ Abandon(w, r)
    PROVE  Exclusion'
<1>1. CASE Sync(w, r)
  <2>1. api' = api /\ task' = task
    BY <1>1 DEF Sync
  <2>2. \A v \in Workers, q \in Resources :
          cache'[v][q] = cache[v][q] \/ cache'[v][q].obj = api[q]
    BY <1>1 DEF Sync, ReconcilerType
  <2>3. CachesAgree'
    BY <2>1, <2>2 DEF Exclusion, CachesAgree
  <2>4. QED
    BY <2>1, <2>3 DEF Exclusion, CreateIsExclusive, TasksAgree, CreationAnnounced,
                      CreationChecked
<1>2. CASE Begin(w, r)
  BY <1>2, BeginExclusion
<1>3. CASE ReconcilerStep(w, r)
  <2>1. CASE Conflict(w, r)
    BY <2>1, EndExclusion DEF Conflict
  <2>2. QED
    BY <1>3, <2>1, WriteExclusion DEF ReconcilerStep
<1>4. ASSUME NEW steps \in SUBSET (Steps \ {"record"}), CallFails(w, r, steps)
      PROVE  Exclusion'
  <2> DEFINE t == task[w][r]
  <2>1. t \in Running(Steps, Lives, Contexts) /\ t.pc # "record"
    <3>1. t.pc \in steps
      BY <1>4 DEF CallFails
    <3>2. t.pc # "idle" /\ t.pc # "record"
      BY <3>1
    <3>3. QED
      BY <3>2, RunningTask
  <2>2. LET u == OnError(t)
        IN  /\ u.pc = "status" /\ u.cur = t.cur
            /\ u.obj.finalizer = t.obj.finalizer /\ u.obj.creation = t.obj.creation
    BY <2>1, ControlEffect
  <2>3. Goto(w, r, OnError(t))
    BY <1>4 DEF CallFails
  <2>4. QED
    BY <2>1, <2>2, <2>3, CloseExclusion
<1>5. CASE Abandon(w, r)
  BY <1>5, EndExclusion DEF Abandon
<1>6. QED
  BY <1>1, <1>2, <1>3, <1>4, <1>5

\* So do the user's actions: nobody is in Create for an object not applied yet.
LEMMA UserExclusion ==
    ASSUME NEW Steps, NEW Lives, NEW Specs, NEW Notes, NEW Statuses, NEW Contexts,
           ReconcilerType(Steps, Lives, Contexts),
           Lives = LiveObjects(Specs, Notes, Statuses), Exclusion,
           NEW r \in Resources,
           (\E spec \in Specs : Apply(r, spec)) \/ RequestDeletion(r)
    PROVE  Exclusion'
<1>1. ASSUME NEW spec \in Specs, Apply(r, spec)
      PROVE  Exclusion'
  <2> DEFINE o == [Blank EXCEPT !.phase = "live", !.spec = spec]
  <2>1. api[r].phase = "new" /\ Store(r, o)
    BY <1>1 DEF Apply
  <2>2. api[r] = Blank
    BY <2>1 DEF ReconcilerType, Gone, Blank, LiveObjects
  <2>3. o.creation = api[r].creation /\ o.finalizer = api[r].finalizer
    BY <2>2 DEF Blank
  <2>4. QED
    BY <2>1, <2>3, StoreExclusion
<1>2. ASSUME RequestDeletion(r), api[r].finalizer
      PROVE  Exclusion'
  <2> DEFINE o == [api[r] EXCEPT !.deleting = TRUE]
  <2>1. api[r] \in Lives /\ api[r].phase = "live" /\ Store(r, o)
    BY <1>2, LivePhase DEF RequestDeletion
  <2>2. o.creation = api[r].creation /\ o.finalizer = api[r].finalizer
    BY <2>1 DEF LiveObjects
  <2>3. QED
    BY <2>1, <2>2, StoreExclusion
<1>3. ASSUME RequestDeletion(r), ~api[r].finalizer
      PROVE  Exclusion'
  <2>1. Store(r, Gone) /\ Gone.phase = "gone"
    BY <1>3 DEF RequestDeletion, Gone, Blank
  <2>2. QED
    BY <2>1, StoreExclusion
<1>4. QED
  BY <1>1, <1>2, <1>3

------------------------------------------------------------------------------
(* Exclusion under the calls of a controller. *)

\* Where Observe leads.
LEMMA ObservedEffect ==
    ASSUME NEW Steps, NEW Lives, NEW Contexts, ReconcilerType(Steps, Lives, Contexts),
           NEW w \in Workers, NEW r \in Resources, task[w][r].pc # "idle",
           NEW o, NEW seen, NEW ctx, Observed(w, r, o, seen, ctx)
    PROVE  \E u : /\ Goto(w, r, u) /\ u.cur = task[w][r].cur
                  /\ u.obj = o /\ u.seen = seen /\ u.ctx = ctx
                  /\ \/ u.pc = "publish" /\ ~o.deleting
                     \/ u.pc = "delete" /\ seen # "missing" /\ o.deleting
                     \/ u.pc = "finalize" /\ seen = "missing" /\ o.deleting
<1> DEFINE step == IF ~o.deleting THEN "publish"
                   ELSE IF seen = "missing" THEN "finalize" ELSE "delete"
           u == [task[w][r] EXCEPT !.pc = step, !.obj = o, !.seen = seen, !.ctx = ctx]
<1>1. Goto(w, r, u)
  BY DEF Observed
<1>2. /\ u.cur = task[w][r].cur /\ u.obj = o /\ u.seen = seen /\ u.pc = step
      /\ u.ctx = ctx
  <2>1. task[w][r] \in Running(Steps, Lives, Contexts)
    BY RunningTask
  <2>2. QED
    BY <2>1 DEF Running
<1>3. \/ step = "publish" /\ ~o.deleting
      \/ step = "delete" /\ seen # "missing" /\ o.deleting
      \/ step = "finalize" /\ seen = "missing" /\ o.deleting
  OBVIOUS
<1> HIDE DEF u, step
<1>4. QED
  BY <1>1, <1>2, <1>3

\* Observe keeps exclusion: it leaves the creation annotations alone.
LEMMA ObservedExclusion ==
    ASSUME NEW Steps, NEW Lives, NEW Contexts, ReconcilerType(Steps, Lives, Contexts),
           Exclusion, NEW w \in Workers, NEW r \in Resources, NEW o, NEW seen, NEW ctx,
           task[w][r].pc = "observe", Observed(w, r, o, seen, ctx),
           o.creation = task[w][r].obj.creation, o.finalizer = task[w][r].obj.finalizer
    PROVE  Exclusion'
<1>1. PICK u : /\ Goto(w, r, u) /\ u.cur = task[w][r].cur /\ u.obj = o
               /\ u.pc \in {"publish", "delete", "finalize"}
  BY ObservedEffect
<1>2. task[w][r].pc \in BeforeCreate /\ task[w][r].pc # "record"
  BY DEF BeforeCreate
<1>3. u.pc \notin CreateSteps \cup {"connect", "observe", "pending"}
  BY <1>1 DEF CreateSteps
<1>4. QED
  BY <1>1, <1>2, <1>3, GotoExclusion

\* Where the publication of the connection details leads before Create.
LEMMA AfterPublishEffect ==
    ASSUME NEW Steps, NEW Lives, NEW Specs, NEW Notes, NEW Statuses, NEW Contexts,
           Lives = LiveObjects(Specs, Notes, Statuses),
           NEW t \in Running(Steps, Lives, Contexts)
    PROVE  LET u == AfterPublish(t)
           IN  /\ u.cur = t.cur /\ u.obj.finalizer = t.obj.finalizer
               /\ u.obj.creation = t.obj.creation /\ u.obj.status = t.obj.status
               /\ u.obj.note = t.obj.note /\ u.obj.spec = t.obj.spec
               /\ u.obj.deleting = t.obj.deleting
               /\ \/ /\ u.pc = "addFinalizer" /\ u.seen = t.seen /\ ~u.obj.finalizer
                     /\ u.obj = t.obj /\ u.ctx = t.ctx
                  \/ /\ u.pc = "pending" /\ u.seen = "missing" /\ t.seen = "missing"
                     /\ u.obj.finalizer /\ u.obj = t.obj /\ u.ctx = t.ctx
                  \/ u.pc = "update" /\ u.seen = "outdated" /\ u.obj = t.obj
                  \/ /\ u.pc = "status" /\ u.seen = "unknown"
                     /\ u.obj.ready = t.obj.ready /\ u.obj.synced = "Success"
<1>1. CASE t.obj.finalizer
  <2> DEFINE u == AfterFinalizer(t)
  <2>1. AfterPublish(t) = u
    BY <1>1 DEF AfterPublish
  <2>2. /\ u.cur = t.cur /\ u.obj.finalizer = t.obj.finalizer
        /\ u.obj.creation = t.obj.creation /\ u.obj.status = t.obj.status
        /\ u.obj.note = t.obj.note /\ u.obj.spec = t.obj.spec
        /\ u.obj.deleting = t.obj.deleting
        /\ \/ /\ u.pc = "pending" /\ u.seen = "missing" /\ t.seen = "missing"
              /\ u.obj = t.obj /\ u.ctx = t.ctx
           \/ u.pc = "update" /\ u.seen = "outdated" /\ u.obj = t.obj
           \/ /\ u.pc = "status" /\ u.seen = "unknown"
              /\ u.obj.ready = t.obj.ready /\ u.obj.synced = "Success"
    BY ControlEffect
  <2> HIDE DEF u
  <2>3. QED
    BY <1>1, <2>1, <2>2
<1>2. CASE ~t.obj.finalizer
  <2>1. AfterPublish(t) = [t EXCEPT !.pc = "addFinalizer"]
    BY <1>2 DEF AfterPublish
  <2>2. QED
    BY <1>2, <2>1 DEF Running
<1>3. QED
  BY <1>1, <1>2

\* Publishing before Create keeps exclusion: it leads up to the announcement.
LEMMA PublishExclusion ==
    ASSUME NEW Steps, NEW Lives, NEW Specs, NEW Notes, NEW Statuses, NEW Contexts,
           ReconcilerType(Steps, Lives, Contexts), "idle" \notin Steps,
           Lives = LiveObjects(Specs, Notes, Statuses), Exclusion,
           NEW w \in Workers, NEW r \in Resources, task[w][r].pc = "publish",
           Goto(w, r, AfterPublish(task[w][r]))
    PROVE  Exclusion'
<1> DEFINE t == task[w][r]
           u == AfterPublish(t)
<1>1. t \in Running(Steps, Lives, Contexts)
  BY RunningTask
<1>2. /\ u.cur = t.cur /\ u.obj.finalizer = t.obj.finalizer
      /\ u.obj.creation = t.obj.creation
      /\ u.pc \in {"addFinalizer", "pending", "update", "status"}
      /\ u.pc = "pending" => u.obj.finalizer
  BY <1>1, AfterPublishEffect
<1>3. t.pc \in BeforeCreate /\ t.pc # "record" /\ Goto(w, r, u)
  BY DEF BeforeCreate
<1> HIDE DEF u
<1>4. u.pc \notin CreateSteps \cup {"connect", "observe"}
  BY <1>2 DEF CreateSteps
<1>5. QED
  BY <1>2, <1>3, <1>4, GotoExclusion

\* A step within Create keeps exclusion, also when it leaves an outcome behind.
LEMMA CreateExclusion ==
    ASSUME NEW Steps, NEW Lives, NEW Contexts, ReconcilerType(Steps, Lives, Contexts),
           Exclusion, NEW w \in Workers, NEW r \in Resources, NEW u, Goto(w, r, u),
           task[w][r].pc \in CreateSteps, task[w][r].pc # "record",
           u.cur = task[w][r].cur,
           u.obj.finalizer = task[w][r].obj.finalizer,
           \/ u.pc = "record"
           \/ u.pc = "createSecret" /\ u.obj.creation = task[w][r].obj.creation
    PROVE  Exclusion'
<1>1. u.pc \notin BeforeCreate \cup {"connect", "observe", "pending"}
  BY SMTT(30) DEF BeforeCreate
<1>2. QED
  BY <1>1, GotoExclusion

------------------------------------------------------------------------------
(* What the writes of a reconcile store and what they leave in memory. *)

\* Adding the finalizer stores the metadata and the spec from memory with the
\* status as it is stored, and leaves the same in memory, but for the status.
LEMMA AddFinalizerEffect ==
    ASSUME NEW Steps, NEW Lives, NEW Specs, NEW Notes, NEW Statuses, NEW Contexts,
           ReconcilerType(Steps, Lives, Contexts), "idle" \notin Steps,
           Lives = LiveObjects(Specs, Notes, Statuses),
           NEW w \in Workers, NEW r \in Resources, AddFinalizer(w, r)
    PROVE  LET t == task[w][r]
           IN  /\ t.pc = "addFinalizer" /\ t.cur /\ api[r].phase = "live"
               /\ \E o, u :
                    /\ Save(w, r, o, u) /\ o.phase = "live" /\ o.finalizer
                    /\ o.deleting = t.obj.deleting /\ o.spec = t.obj.spec
                    /\ o.creation = t.obj.creation /\ o.note = t.obj.note
                    /\ o.status = api[r].status /\ o.ready = api[r].ready
                    /\ o.synced = api[r].synced
                    /\ u.cur = t.cur /\ u.obj.finalizer
                    /\ u.obj.deleting = t.obj.deleting /\ u.obj.spec = t.obj.spec
                    /\ u.obj.creation = t.obj.creation /\ u.obj.note = t.obj.note
                    /\ u.obj.status \in {t.obj.status, api[r].status}
                    /\ u.obj.ready = api[r].ready
                    /\ \/ /\ u.pc = "pending" /\ u.seen = "missing"
                          /\ t.seen = "missing" /\ u.ctx = t.ctx
                       \/ u.pc = "update" /\ u.seen = "outdated"
                       \/ u.pc = "status" /\ u.seen = "unknown"
<1> DEFINE t == task[w][r]
           Tasks == Running(Steps, Lives, Contexts)
           o == Updated(r, [t.obj EXCEPT !.finalizer = TRUE])
           p(s) == [o EXCEPT !.status = s]
           m(s) == [t EXCEPT !.obj = p(s)]
           u(s) == AfterFinalizer(m(s))
<1>1. t.pc = "addFinalizer" /\ t.cur /\ api[r].phase = "live"
  BY DEF AddFinalizer, WriteAccepted
<1>2. t \in Tasks /\ t.obj \in Lives /\ api[r] \in Lives
  <2>1. t \in Tasks /\ api[r] \in Lives
    BY <1>1, RunningTask, LivePhase
  <2>2. QED
    BY <2>1 DEF Running
<1>3. /\ o \in Lives /\ o.phase = "live" /\ o.finalizer
      /\ o.deleting = t.obj.deleting /\ o.spec = t.obj.spec
      /\ o.creation = t.obj.creation /\ o.note = t.obj.note
      /\ o.status = api[r].status /\ o.ready = api[r].ready
      /\ o.synced = api[r].synced
  BY <1>2 DEF Updated, LiveObjects
<1>4. PICK s \in {t.obj.status, o.status} : Save(w, r, o, u(s))
  BY DEF AddFinalizer
<1>5. /\ p(s) \in Lives /\ p(s).finalizer = o.finalizer
      /\ p(s).deleting = o.deleting /\ p(s).spec = o.spec
      /\ p(s).creation = o.creation /\ p(s).note = o.note
      /\ p(s).status = s /\ p(s).ready = o.ready
  BY <1>2, <1>3 DEF LiveObjects
<1> HIDE DEF o, p
<1>6. /\ m(s) \in Tasks /\ m(s).obj = p(s) /\ m(s).cur = t.cur
      /\ m(s).seen = t.seen /\ m(s).ctx = t.ctx
  BY <1>2, <1>5 DEF Running
<1> HIDE DEF m
<1>7. /\ u(s).cur = m(s).cur /\ u(s).obj.finalizer = m(s).obj.finalizer
      /\ u(s).obj.deleting = m(s).obj.deleting /\ u(s).obj.spec = m(s).obj.spec
      /\ u(s).obj.creation = m(s).obj.creation /\ u(s).obj.note = m(s).obj.note
      /\ u(s).obj.status = m(s).obj.status /\ u(s).obj.ready = m(s).obj.ready
      /\ \/ /\ u(s).pc = "pending" /\ u(s).seen = "missing"
            /\ m(s).seen = "missing" /\ u(s).ctx = m(s).ctx
         \/ u(s).pc = "update" /\ u(s).seen = "outdated"
         \/ u(s).pc = "status" /\ u(s).seen = "unknown"
  BY <1>6, ControlEffect
<1> HIDE DEF u
<1>8. /\ u(s).cur = t.cur /\ u(s).obj.finalizer
      /\ u(s).obj.deleting = t.obj.deleting /\ u(s).obj.spec = t.obj.spec
      /\ u(s).obj.creation = t.obj.creation /\ u(s).obj.note = t.obj.note
      /\ u(s).obj.status \in {t.obj.status, api[r].status}
      /\ u(s).obj.ready = api[r].ready
      /\ \/ /\ u(s).pc = "pending" /\ u(s).seen = "missing"
            /\ t.seen = "missing" /\ u(s).ctx = t.ctx
         \/ u(s).pc = "update" /\ u(s).seen = "outdated"
         \/ u(s).pc = "status" /\ u(s).seen = "unknown"
  BY <1>3, <1>5, <1>6, <1>7, SMTT(30)
<1>9. QED
  BY <1>1, <1>3, <1>4, <1>8

\* So does the announcement of the creation, with which Create is next.
LEMMA MarkPendingEffect ==
    ASSUME NEW Steps, NEW Lives, NEW Specs, NEW Notes, NEW Statuses, NEW Contexts,
           ReconcilerType(Steps, Lives, Contexts), "idle" \notin Steps,
           Lives = LiveObjects(Specs, Notes, Statuses),
           NEW w \in Workers, NEW r \in Resources, MarkPending(w, r)
    PROVE  LET t == task[w][r]
           IN  /\ t.pc = "pending" /\ t.cur /\ api[r].phase = "live"
               /\ \E o, u :
                    /\ Save(w, r, o, u) /\ o.phase = "live"
                    /\ o.finalizer = t.obj.finalizer
                    /\ o.deleting = t.obj.deleting /\ o.spec = t.obj.spec
                    /\ o.creation = "pending" /\ o.note = t.obj.note
                    /\ o.status = api[r].status /\ o.ready = api[r].ready
                    /\ o.synced = api[r].synced
                    /\ u.pc = "create" /\ u.cur = t.cur /\ u.seen = t.seen
                    /\ u.ctx = t.ctx
                    /\ u.obj.finalizer = t.obj.finalizer
                    /\ u.obj.deleting = t.obj.deleting /\ u.obj.spec = t.obj.spec
                    /\ u.obj.creation = "pending" /\ u.obj.note = t.obj.note
                    /\ u.obj.status \in {t.obj.status, api[r].status}
                    /\ u.obj.ready = api[r].ready
<1> DEFINE t == task[w][r]
           Tasks == Running(Steps, Lives, Contexts)
           o == Updated(r, [t.obj EXCEPT !.creation = "pending"])
           p(s) == [o EXCEPT !.status = s]
           u(s) == [t EXCEPT !.pc = "create", !.obj = p(s)]
<1>1. t.pc = "pending" /\ t.cur /\ api[r].phase = "live"
  BY DEF MarkPending, WriteAccepted
<1>2. t \in Tasks /\ t.obj \in Lives /\ api[r] \in Lives
  <2>1. t \in Tasks /\ api[r] \in Lives
    BY <1>1, RunningTask, LivePhase
  <2>2. QED
    BY <2>1 DEF Running
<1>3. /\ o \in Lives /\ o.phase = "live" /\ o.finalizer = t.obj.finalizer
      /\ o.deleting = t.obj.deleting /\ o.spec = t.obj.spec
      /\ o.creation = "pending" /\ o.note = t.obj.note
      /\ o.status = api[r].status /\ o.ready = api[r].ready
      /\ o.synced = api[r].synced
  BY <1>2 DEF Updated, LiveObjects, Creations
<1>4. PICK s \in {t.obj.status, o.status} : Save(w, r, o, u(s))
  BY DEF MarkPending
<1>5. /\ p(s).finalizer = o.finalizer
      /\ p(s).deleting = o.deleting /\ p(s).spec = o.spec
      /\ p(s).creation = o.creation /\ p(s).note = o.note
      /\ p(s).status = s /\ p(s).ready = o.ready
  BY <1>2, <1>3 DEF LiveObjects
<1> HIDE DEF o, p
<1>6. /\ u(s).pc = "create" /\ u(s).obj = p(s) /\ u(s).cur = t.cur
      /\ u(s).seen = t.seen /\ u(s).ctx = t.ctx
  BY <1>2 DEF Running
<1> HIDE DEF u
<1>7. /\ u(s).obj.finalizer = t.obj.finalizer
      /\ u(s).obj.deleting = t.obj.deleting /\ u(s).obj.spec = t.obj.spec
      /\ u(s).obj.creation = "pending" /\ u(s).obj.note = t.obj.note
      /\ u(s).obj.status \in {t.obj.status, api[r].status}
      /\ u(s).obj.ready = api[r].ready
  BY <1>3, <1>5, <1>6
<1>8. QED
  BY <1>1, <1>3, <1>4, <1>6, <1>7

\* The record of Create's outcome adds the annotations to the object as it is
\* stored; the reconcile goes on with it.
LEMMA RecordEffect ==
    ASSUME NEW Steps, NEW Lives, NEW Specs, NEW Notes, NEW Statuses, NEW Contexts,
           ReconcilerType(Steps, Lives, Contexts), "idle" \notin Steps,
           Lives = LiveObjects(Specs, Notes, Statuses),
           NEW w \in Workers, NEW r \in Resources, RecordCreation(w, r)
    PROVE  LET t == task[w][r]
           IN  /\ t.pc = "record" /\ api[r].phase = "live"
               /\ \E o, u :
                    /\ Save(w, r, o, u) /\ o.phase = "live"
                    /\ o.finalizer = api[r].finalizer
                    /\ o.deleting = api[r].deleting /\ o.spec = api[r].spec
                    /\ o.creation = t.obj.creation
                    /\ o.note = IF t.obj.note = None THEN api[r].note ELSE t.obj.note
                    /\ o.status = api[r].status /\ o.ready = api[r].ready
                    /\ o.synced = api[r].synced
                    /\ u.cur = TRUE
                    /\ u.obj.finalizer = o.finalizer
                    /\ u.obj.deleting = o.deleting /\ u.obj.spec = o.spec
                    /\ u.obj.creation = o.creation /\ u.obj.note = o.note
                    /\ \/ u.obj.status = o.status
                       \/ t.cur /\ u.obj.status = t.obj.status
                    /\ \/ /\ u.pc = "publishCreated" /\ u.obj.ready = api[r].ready
                          /\ u.obj.synced = api[r].synced
                       \/ /\ u.pc = "status" /\ u.seen = "unknown"
                          /\ u.obj.ready = "Creating"
<1> DEFINE t == task[w][r]
           Tasks == Running(Steps, Lives, Contexts)
           o == [api[r] EXCEPT !.creation = t.obj.creation,
                               !.note = IF t.obj.note = None THEN @ ELSE t.obj.note]
           p(s) == [o EXCEPT !.status = s]
           m(s) == [t EXCEPT !.obj = p(s), !.cur = TRUE]
           next(s) == Recorded(t, p(s))
<1>1. t.pc = "record" /\ api[r].phase = "live"
  BY DEF RecordCreation
<1>2. t \in Tasks /\ t.obj \in Lives /\ api[r] \in Lives
  <2>1. t \in Tasks /\ api[r] \in Lives
    BY <1>1, RunningTask, LivePhase
  <2>2. QED
    BY <2>1 DEF Running
<1>3. /\ o \in Lives /\ o.phase = "live" /\ o.finalizer = api[r].finalizer
      /\ o.deleting = api[r].deleting /\ o.spec = api[r].spec
      /\ o.creation = t.obj.creation
      /\ o.note = IF t.obj.note = None THEN api[r].note ELSE t.obj.note
      /\ o.status = api[r].status /\ o.ready = api[r].ready
      /\ o.synced = api[r].synced /\ p(o.status) = o
  BY <1>2 DEF LiveObjects
<1>4. PICK s \in {t.obj.status, o.status} :
           Save(w, r, o, next(s)) /\ (s = o.status \/ t.cur)
  BY <1>3 DEF RecordCreation
<1>5. /\ p(s) \in Lives /\ p(s).finalizer = o.finalizer
      /\ p(s).deleting = o.deleting /\ p(s).spec = o.spec
      /\ p(s).creation = o.creation /\ p(s).note = o.note
      /\ p(s).status = s /\ p(s).ready = o.ready /\ p(s).synced = o.synced
  BY <1>2, <1>3, ZenonT(40) DEF LiveObjects
<1> HIDE DEF o, p
<1>6. m(s) \in Tasks /\ m(s).obj = p(s) /\ m(s).cur = TRUE
  BY <1>2, <1>5 DEF Running
<1>7. next(s) = IF p(s).creation = "succeeded"
                THEN [m(s) EXCEPT !.pc = "publishCreated"]
                ELSE Closed(m(s), "Creating", "Error")
  BY DEF Recorded
<1> HIDE DEF m, next
<1>8. /\ next(s).cur = TRUE /\ next(s).obj.finalizer = p(s).finalizer
      /\ next(s).obj.deleting = p(s).deleting /\ next(s).obj.spec = p(s).spec
      /\ next(s).obj.creation = p(s).creation /\ next(s).obj.note = p(s).note
      /\ next(s).obj.status = p(s).status
      /\ \/ /\ next(s).pc = "publishCreated" /\ next(s).obj.ready = p(s).ready
            /\ next(s).obj.synced = p(s).synced
         \/ /\ next(s).pc = "status" /\ next(s).seen = "unknown"
            /\ next(s).obj.ready = "Creating"
  <2>1. CASE p(s).creation = "succeeded"
    BY <1>6, <1>7, <2>1 DEF Running
  <2>2. CASE p(s).creation # "succeeded"
    BY <1>6, <1>7, <2>2, ControlEffect
  <2>3. QED
    BY <2>1, <2>2
<1>9. QED
  BY <1>1, <1>3, <1>4, <1>5, <1>8

\* The last two writes of a reconcile: the object goes, or its status is stored
\* from memory.
LEMMA EndEffect ==
    ASSUME NEW Steps, NEW Lives, NEW Specs, NEW Notes, NEW Statuses, NEW Contexts,
           ReconcilerType(Steps, Lives, Contexts),
           Lives = LiveObjects(Specs, Notes, Statuses),
           NEW w \in Workers, NEW r \in Resources
    PROVE  /\ RemoveFinalizer(w, r) =>
                /\ task[w][r].pc = "finalize" /\ task[w][r].cur
                /\ api[r].phase = "live" /\ Save(w, r, Gone, Idle)
           /\ WriteStatus(w, r) =>
                /\ task[w][r].pc = "status" /\ task[w][r].cur
                /\ api[r].phase = "live"
                /\ \E o : /\ Save(w, r, o, Idle) /\ o.phase = "live"
                          /\ o.finalizer = api[r].finalizer
                          /\ o.deleting = api[r].deleting /\ o.spec = api[r].spec
                          /\ o.creation = api[r].creation /\ o.note = api[r].note
                          /\ o.status = task[w][r].obj.status
                          /\ o.ready = task[w][r].obj.ready
                          /\ o.synced = task[w][r].obj.synced
<1>1. ASSUME RemoveFinalizer(w, r)
      PROVE  /\ task[w][r].pc = "finalize" /\ task[w][r].cur
             /\ api[r].phase = "live" /\ Save(w, r, Gone, Idle)
  BY <1>1 DEF RemoveFinalizer, WriteAccepted
<1>2. ASSUME WriteStatus(w, r)
      PROVE  /\ task[w][r].pc = "status" /\ task[w][r].cur
             /\ api[r].phase = "live"
             /\ \E o : /\ Save(w, r, o, Idle) /\ o.phase = "live"
                       /\ o.finalizer = api[r].finalizer
                       /\ o.deleting = api[r].deleting /\ o.spec = api[r].spec
                       /\ o.creation = api[r].creation /\ o.note = api[r].note
                       /\ o.status = task[w][r].obj.status
                       /\ o.ready = task[w][r].obj.ready
                       /\ o.synced = task[w][r].obj.synced
  <2> DEFINE t == task[w][r]
             o == [api[r] EXCEPT !.status = t.obj.status, !.ready = t.obj.ready,
                                 !.synced = t.obj.synced]
  <2>1. t.pc = "status" /\ t.cur /\ api[r].phase = "live" /\ Save(w, r, o, Idle)
    BY <1>2 DEF WriteStatus, WriteAccepted
  <2>2. api[r] \in Lives
    BY <2>1, LivePhase
  <2>3. /\ o.phase = "live" /\ o.finalizer = api[r].finalizer
        /\ o.deleting = api[r].deleting /\ o.spec = api[r].spec
        /\ o.creation = api[r].creation /\ o.note = api[r].note
        /\ o.status = t.obj.status /\ o.ready = t.obj.ready
        /\ o.synced = t.obj.synced
    BY <2>1, <2>2 DEF LiveObjects
  <2> HIDE DEF o
  <2>4. QED
    BY <2>1, <2>3
<1>3. QED
  BY <1>1, <1>2

\* What the user does to the stored object: a new one is blank but for its spec; a
\* deletion is noted on an object that has a finalizer.
LEMMA UserEffect ==
    ASSUME NEW Steps, NEW Lives, NEW Specs, NEW Notes, NEW Statuses, NEW Contexts,
           ReconcilerType(Steps, Lives, Contexts),
           Lives = LiveObjects(Specs, Notes, Statuses), NEW r \in Resources
    PROVE  /\ \A spec \in Specs : Apply(r, spec) =>
                /\ api[r].phase = "new"
                /\ \E o : /\ Store(r, o) /\ o.phase = "live" /\ ~o.deleting
                          /\ o.creation = "none" /\ o.note = None
                          /\ o.status = None /\ o.ready = "none" /\ o.spec = spec
           /\ RequestDeletion(r) =>
                /\ api[r].phase = "live" /\ ~api[r].deleting
                /\ \/ ~api[r].finalizer /\ Store(r, Gone)
                   \/ /\ api[r].finalizer
                      /\ \E o : /\ Store(r, o) /\ o.phase = "live" /\ o.deleting
                                /\ o.finalizer = api[r].finalizer
                                /\ o.creation = api[r].creation
                                /\ o.note = api[r].note /\ o.spec = api[r].spec
                                /\ o.status = api[r].status
                                /\ o.ready = api[r].ready
                                /\ o.synced = api[r].synced
<1>1. ASSUME NEW spec \in Specs, Apply(r, spec)
      PROVE  /\ api[r].phase = "new"
             /\ \E o : /\ Store(r, o) /\ o.phase = "live" /\ ~o.deleting
                       /\ o.creation = "none" /\ o.note = None
                       /\ o.status = None /\ o.ready = "none" /\ o.spec = spec
  <2> DEFINE o == [Blank EXCEPT !.phase = "live", !.spec = spec]
  <2>1. Store(r, o) /\ api[r].phase = "new"
    BY <1>1 DEF Apply
  <2>2. /\ o.phase = "live" /\ ~o.deleting /\ o.creation = "none"
        /\ o.note = None /\ o.status = None /\ o.ready = "none" /\ o.spec = spec
    BY DEF Blank
  <2> HIDE DEF o
  <2>3. QED
    BY <2>1, <2>2
<1>2. ASSUME RequestDeletion(r), api[r].finalizer
      PROVE  \E o : /\ Store(r, o) /\ o.phase = "live" /\ o.deleting
                    /\ o.finalizer = api[r].finalizer
                    /\ o.creation = api[r].creation
                    /\ o.note = api[r].note /\ o.spec = api[r].spec
                    /\ o.status = api[r].status /\ o.ready = api[r].ready
                    /\ o.synced = api[r].synced
  <2> DEFINE o == [api[r] EXCEPT !.deleting = TRUE]
  <2>1. Store(r, o) /\ api[r].phase = "live"
    BY <1>2 DEF RequestDeletion
  <2>2. api[r] \in Lives
    BY <2>1, LivePhase
  <2>3. /\ o.phase = "live" /\ o.deleting /\ o.finalizer = api[r].finalizer
        /\ o.creation = api[r].creation /\ o.note = api[r].note
        /\ o.spec = api[r].spec /\ o.status = api[r].status
        /\ o.ready = api[r].ready /\ o.synced = api[r].synced
    BY <2>1, <2>2 DEF LiveObjects
  <2> HIDE DEF o
  <2>4. QED
    BY <2>1, <2>3
<1>3. QED
  BY <1>1, <1>2 DEF RequestDeletion

==============================================================================
