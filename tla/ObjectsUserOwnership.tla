-------------------------- MODULE ObjectsUserOwnership --------------------------
(***************************************************************************)
(* The safety properties of ObjectsUser about the users at cloudscale.ch,  *)
(* for every number of resources, operator instances, users and mishaps.   *)
(* Ownership is inductive together with TypeOK and Exclusion and says that *)
(* a resource has one user and does not forget it; Mandate is, too, and    *)
(* says that whatever is done to a user is done for the resource that made *)
(* it, on request.  With both, every step is one of ExternalResource.      *)
(***************************************************************************)
EXTENDS ObjectsUserProofs

------------------------------------------------------------------------------
(* What a step has to keep. *)

\* Fewer users are easier to account for.
LEMMA FewerUsers ==
    ASSUME NEW r, NEW o, NEW t, NEW U, NEW V \in SUBSET U
    PROVE  /\ Stored(r, o, U) => Stored(r, o, V)
           /\ Seen(t, U) => Seen(t, V)
BY DEF Stored, Seen

\* A task looks the same to the others' writes, except that its copy may be
\* outdated by them.
LEMMA OutdatedTask ==
    ASSUME NEW r, NEW t, NEW u, NEW o, NEW p, NEW U, NEW V \in SUBSET U,
           u.pc = t.pc, u.obj = t.obj, u.seen = t.seen, u.cur => t.cur /\ p = o,
           Sound(r, t), Known(r, t, o), Seen(t, U),
           t.pc \in CreateSteps =>
              \/ p.phase = "gone" /\ r \in Orphans
              \/ p.phase = "live" /\ p.status \in {None, t.obj.status}
    PROVE  Sound(r, u) /\ Known(r, u, p) /\ Seen(u, V)
<1>1. Sound(r, u)
  BY DEF Sound
<1>2. Known(r, u, p)
  BY DEF Known
<1>3. Seen(u, V)
  BY DEF Seen
<1>4. QED
  BY <1>1, <1>2, <1>3

\* Ownership in the next state, spelled out.
LEMMA OwnershipNext ==
    ASSUME \A r \in Resources :
             /\ Stored(r, api'[r], Owned(r)')
             /\ \A w \in Workers :
                  /\ Sound(r, task'[w][r]) /\ Known(r, task'[w][r], api'[r])
                  /\ Seen(task'[w][r], Owned(r)')
    PROVE  Ownership'
BY DEF Ownership, Stored, Sound, Known, Seen

\* A reconcile goes on without a write, and no user is created.
LEMMA GotoOwnership ==
    ASSUME TypeOK, Ownership, NEW w \in Workers, NEW r \in Resources, NEW u,
           Goto(w, r, u), \A q \in Resources : Owned(q)' \subseteq Owned(q),
           Sound(r, u), Known(r, u, api[r]), Seen(u, Owned(r))
    PROVE  Ownership'
<1>1. /\ api' = api
      /\ \A v \in Workers, q \in Resources :
           task'[v][q] = IF v = w /\ q = r THEN u ELSE task[v][q]
  BY GotoEffect DEF TypeOK
<1>2. ASSUME NEW q \in Resources
      PROVE  Stored(q, api'[q], Owned(q)')
  BY <1>1, FewerUsers DEF Ownership
<1>3. ASSUME NEW v \in Workers, NEW q \in Resources
      PROVE  /\ Sound(q, task'[v][q]) /\ Known(q, task'[v][q], api'[q])
             /\ Seen(task'[v][q], Owned(q)')
  <2>1. CASE v = w /\ q = r
    BY <1>1, <2>1, FewerUsers
  <2>2. CASE ~(v = w /\ q = r)
    BY <1>1, <2>2, FewerUsers DEF Ownership
  <2>3. QED
    BY <2>1, <2>2
<1>4. QED
  BY <1>2, <1>3, OwnershipNext

\* A write leaves o for all reconciles of r but the one that goes on as t.
LEMMA SaveOwnership ==
    ASSUME TypeOK, Ownership, NEW w \in Workers, NEW r \in Resources, NEW o, NEW t,
           Save(w, r, o, t), UNCHANGED <<cloud, lost>>,
           Stored(r, o, Owned(r)), Sound(r, t), Known(r, t, o), Seen(t, Owned(r)),
           \A v \in Workers : v # w /\ task[v][r].pc \in CreateSteps =>
              \/ o.phase = "gone" /\ r \in Orphans
              \/ o.phase = "live" /\ o.status \in {None, task[v][r].obj.status}
    PROVE  Ownership'
<1>1. /\ api'[r] = o /\ task'[w][r] = t
      /\ \A q \in Resources : q # r => api'[q] = api[q]
      /\ \A v \in Workers, q \in Resources :
           v # w \/ q # r =>
             /\ task'[v][q].pc = task[v][q].pc
             /\ task'[v][q].obj = task[v][q].obj
             /\ task'[v][q].seen = task[v][q].seen
             /\ task'[v][q].cur => task[v][q].cur /\ api'[q] = api[q]
  BY SaveEffect DEF TypeOK
<1>2. \A q \in Resources : Owned(q)' = Owned(q)
  BY DEF Owned, Live
<1>3. ASSUME NEW q \in Resources
      PROVE  Stored(q, api'[q], Owned(q)')
  BY <1>1, <1>2 DEF Ownership
<1>4. ASSUME NEW v \in Workers, NEW q \in Resources
      PROVE  /\ Sound(q, task'[v][q]) /\ Known(q, task'[v][q], api'[q])
             /\ Seen(task'[v][q], Owned(q)')
  <2>1. CASE v = w /\ q = r
    BY <1>1, <1>2, <2>1
  <2>2. CASE v # w \/ q # r
    <3>1. Sound(q, task[v][q]) /\ Known(q, task[v][q], api[q])
          /\ Seen(task[v][q], Owned(q))
      BY DEF Ownership
    <3>2. task[v][q].pc \in CreateSteps =>
            \/ api'[q].phase = "gone" /\ q \in Orphans
            \/ api'[q].phase = "live" /\ api'[q].status \in {None, task[v][q].obj.status}
      <4>1. CASE q = r
        BY <1>1, <2>2, <4>1
      <4>2. CASE q # r
        BY <1>1, <3>1, <4>2 DEF Known
      <4>3. QED
        BY <4>1, <4>2
    <3>3. /\ task'[v][q].pc = task[v][q].pc
          /\ task'[v][q].obj = task[v][q].obj
          /\ task'[v][q].seen = task[v][q].seen
          /\ task'[v][q].cur => task[v][q].cur /\ api'[q] = api[q]
      BY <1>1, <2>2
    <3>4. Owned(q)' \in SUBSET Owned(q)
      BY <1>2
    <3>5. QED
      BY <3>1, <3>2, <3>3, <3>4, OutdatedTask
  <2>3. QED
    BY <2>1, <2>2
<1>5. QED
  BY <1>3, <1>4, OwnershipNext

\* A write from outside leaves o for all reconciles of r.
LEMMA StoreOwnership ==
    ASSUME TypeOK, Ownership, NEW r \in Resources, NEW o,
           Store(r, o), UNCHANGED <<cloud, lost>>, Stored(r, o, Owned(r)),
           \A v \in Workers : task[v][r].pc \in CreateSteps =>
              \/ o.phase = "gone" /\ r \in Orphans
              \/ o.phase = "live" /\ o.status \in {None, task[v][r].obj.status}
    PROVE  Ownership'
<1>1. /\ api'[r] = o
      /\ \A q \in Resources : q # r => api'[q] = api[q]
      /\ \A v \in Workers, q \in Resources :
           /\ task'[v][q].pc = task[v][q].pc
           /\ task'[v][q].obj = task[v][q].obj
           /\ task'[v][q].seen = task[v][q].seen
           /\ task'[v][q].cur => task[v][q].cur /\ api'[q] = api[q]
  BY StoreEffect DEF TypeOK
<1>2. \A q \in Resources : Owned(q)' = Owned(q)
  BY DEF Owned, Live
<1>3. ASSUME NEW q \in Resources
      PROVE  Stored(q, api'[q], Owned(q)')
  BY <1>1, <1>2 DEF Ownership
<1>4. ASSUME NEW v \in Workers, NEW q \in Resources
      PROVE  /\ Sound(q, task'[v][q]) /\ Known(q, task'[v][q], api'[q])
             /\ Seen(task'[v][q], Owned(q)')
  <2>1. Sound(q, task[v][q]) /\ Known(q, task[v][q], api[q])
        /\ Seen(task[v][q], Owned(q))
    BY DEF Ownership
  <2>2. task[v][q].pc \in CreateSteps =>
          \/ api'[q].phase = "gone" /\ q \in Orphans
          \/ api'[q].phase = "live" /\ api'[q].status \in {None, task[v][q].obj.status}
    <3>1. CASE q = r
      BY <1>1, <3>1
    <3>2. CASE q # r
      BY <1>1, <2>1, <3>2 DEF Known
    <3>3. QED
      BY <3>1, <3>2
  <2>3. /\ task'[v][q].pc = task[v][q].pc
        /\ task'[v][q].obj = task[v][q].obj
        /\ task'[v][q].seen = task[v][q].seen
        /\ task'[v][q].cur => task[v][q].cur /\ api'[q] = api[q]
    BY <1>1
  <2>4. Owned(q)' \in SUBSET Owned(q)
    BY <1>2
  <2>5. QED
    BY <2>1, <2>2, <2>3, <2>4, OutdatedTask
<1>5. QED
  BY <1>3, <1>4, OwnershipNext

------------------------------------------------------------------------------
(* The users of a resource. *)

\* A step that creates no user: who lives afterwards lived before.
LEMMA NoNewUsers ==
    ASSUME lost \subseteq lost',
           \A u \in UserIDs : cloud'[u].state = "live" =>
              cloud[u].state = "live" /\ cloud'[u].owner = cloud[u].owner
    PROVE  \A q \in Resources : Owned(q)' \subseteq Owned(q)
BY DEF Owned, Live

\* Creating a user for r adds it to the users of r.
LEMMA AddedUser ==
    ASSUME TypeOK, NEW r \in Resources, NEW spec, NEW u \in UserIDs, NEW key,
           NewUser(r, spec, u, key), lost \subseteq lost'
    PROVE  /\ Owned(r)' \subseteq Owned(r) \cup ({u} \ (lost' \cup {None}))
           /\ \A q \in Resources : q # r => Owned(q)' \subseteq Owned(q)
<1>1. /\ cloud'[u].owner = r
      /\ \A v \in UserIDs : v # u => cloud'[v] = cloud[v]
  BY DEF NewUser, TypeOK
<1>2. QED
  BY <1>1 DEF Owned, Live

\* What the calls for an existing user do to it.
LEMMA UserChanges ==
    ASSUME TypeOK, UNCHANGED lost, NEW u \in UserIDs, NEW x, Live(u),
           \/ cloud' = [cloud EXCEPT ![u].state = "dead"]
           \/ cloud' = [cloud EXCEPT ![u].name = x]
           \/ cloud' = [cloud EXCEPT ![u].tags = x]
           \/ cloud' = [cloud EXCEPT ![u].key = x]
    PROVE  \A q \in Resources : Owned(q)' \subseteq Owned(q)
<1> DEFINE user == cloud'[u]
<1>1. /\ cloud[u] \in Users /\ cloud[u].state = "live"
      /\ \A v \in UserIDs : v # u => cloud'[v] = cloud[v]
      /\ \/ user = [cloud[u] EXCEPT !.state = "dead"]
         \/ user = [cloud[u] EXCEPT !.name = x]
         \/ user = [cloud[u] EXCEPT !.tags = x]
         \/ user = [cloud[u] EXCEPT !.key = x]
  BY DEF TypeOK, Live
<1>2. cloud[u] # NoUser
  BY <1>1 DEF NoUser
<1> HIDE DEF user
<1>3. user.owner = cloud[u].owner
  BY <1>1, <1>2 DEF Users
<1>4. QED
  BY <1>1, <1>3, NoNewUsers DEF user

------------------------------------------------------------------------------
(* Steps without a write to the resource. *)

\* A reconcile that ends.
LEMMA EndOwnership ==
    ASSUME TypeOK, Ownership, NEW w \in Workers, NEW r \in Resources,
           Goto(w, r, Idle), UNCHANGED <<cloud, lost>>
    PROVE  Ownership'
<1>1. Idle.pc = "idle" /\ Idle.cur = FALSE /\ Idle.obj.creation = "none"
  BY DEF Idle, Blank
<1>2. Sound(r, Idle) /\ Known(r, Idle, api[r]) /\ Seen(Idle, Owned(r))
  BY <1>1 DEF Sound, Known, Seen, CreateSteps
<1>3. \A q \in Resources : Owned(q)' \subseteq Owned(q)
  BY NoNewUsers
<1>4. QED
  BY <1>2, <1>3, GotoOwnership

\* A reconcile that goes on after Create is out of the question, or turns to the
\* status write, with what it has in memory.
LEMMA LaterOwnership ==
    ASSUME TypeOK, Ownership, NEW w \in Workers, NEW r \in Resources, NEW u,
           Goto(w, r, u), \A q \in Resources : Owned(q)' \subseteq Owned(q),
           task[w][r].pc \notin CreateSteps, u.cur = task[w][r].cur,
           u.obj.creation = task[w][r].obj.creation,
           u.obj.status = task[w][r].obj.status, u.obj.note = task[w][r].obj.note,
           \/ u.pc = "status" /\ u.seen = "unknown"
           \/ /\ task[w][r].pc \notin {"finalize", "status"}
              /\ u.pc \notin CreateSteps
              /\ u.pc \notin {"publish", "addFinalizer", "pending", "finalize", "status"}
    PROVE  Ownership'
<1> DEFINE t == task[w][r]
<1>1. Sound(r, t) /\ Known(r, t, api[r])
  BY DEF Ownership
<1>2. u.pc \notin CreateSteps
  BY DEF CreateSteps
<1>3. Sound(r, u)
  BY <1>1, <1>2 DEF Sound, CreateSteps
<1>4. Known(r, u, api[r])
  BY <1>1, <1>2 DEF Known, Sound, CreateSteps
<1>5. Seen(u, Owned(r))
  BY <1>2 DEF Seen, CreateSteps
<1>6. QED
  BY <1>3, <1>4, <1>5, GotoOwnership

\* A reconcile begins: what a current copy says of the ID is what is stored.
LEMMA BeginOwnership ==
    ASSUME TypeOK, Exclusion, Ownership, NEW w \in Workers, NEW r \in Resources,
           Begin(w, r), UNCHANGED <<cloud, lost>>
    PROVE  Ownership'
<1> DEFINE c == cache[w][r]
           t == FirstStep(r, [Idle EXCEPT !.pc = "connect", !.obj = c.obj,
                                          !.cur = c.cur])
<1>1. /\ Goto(w, r, t) /\ t.cur = c.cur /\ t.seen = "unknown"
      /\ t.obj.creation = c.obj.creation
      /\ t.obj.status = c.obj.status /\ t.obj.note = c.obj.note
      /\ \/ t.pc = "finalize" /\ r \in Orphans
         \/ t.pc = "status"
         \/ t.pc = "connect" /\ c.obj.creation # "pending"
  BY Begun, ZenonT(40)
<1> HIDE DEF t
<1>2. c.obj.phase = "live" /\ (c.cur => c.obj = api[r])
  BY DEF Begin, Exclusion, CachesAgree
<1>3. Stored(r, api[r], Owned(r))
  BY DEF Ownership
<1>4. t.pc \notin CreateSteps
  BY <1>1 DEF CreateSteps
<1>5. Sound(r, t)
  BY <1>1, <1>2, <1>3, <1>4 DEF Sound, Stored
<1>6. Known(r, t, api[r])
  BY <1>1, <1>2, <1>4 DEF Known
<1>7. Seen(t, Owned(r))
  BY <1>1, <1>4 DEF Seen, CreateSteps
<1>8. \A q \in Resources : Owned(q)' \subseteq Owned(q)
  BY NoNewUsers
<1>9. QED
  BY <1>1, <1>5, <1>6, <1>7, <1>8, GotoOwnership

\* The ID that Observe goes by is the stored one, in the status or annotated, if
\* the copy is current; then a resource whose user is not found has none.
LEMMA RecalledOwnership ==
    ASSUME TypeOK, Exclusion, Ownership, NEW w \in Workers, NEW r \in Resources,
           task[w][r].pc = "observe"
    PROVE  LET t == task[w][r]
               o == Recalled(t.obj)
           IN  /\ o.creation = t.obj.creation /\ o.creation # "pending"
               /\ t.cur =>
                    /\ api[r].phase = "live"
                    /\ o.status # None /\ o.note # None => o.note = o.status
                    /\ \/ o.status = api[r].status
                       \/ api[r].status = None /\ api[r].note = o.status
                    /\ ~Live(o.status) => Owned(r) = {}
<1> DEFINE t == task[w][r]
           o == Recalled(t.obj)
<1>1. /\ o.creation = t.obj.creation
      /\ o.status = IF t.obj.status = None THEN t.obj.note ELSE t.obj.status
      /\ o.note \in {None, t.obj.note}
      /\ t.obj.status = None => o.note = None
  BY TaskTypes, RecalledEffect
<1> HIDE DEF o
<1>2. o.creation # "pending"
  BY <1>1 DEF Exclusion, CreationChecked, BeforeCreate
<1>3. /\ t.cur => t.obj = api[r] /\ api[r].phase = "live"
      /\ Stored(r, api[r], Owned(r))
  BY DEF Exclusion, TasksAgree, Ownership, Known
<1>4. ASSUME t.cur, ~Live(o.status), NEW u \in Owned(r)
      PROVE  FALSE
  <2>1. u # None /\ Live(u)
    BY <1>4 DEF Owned, Live
  <2>2. api[r].status = u \/ api[r].note = u
    BY <1>1, <1>2, <1>3, <1>4 DEF Stored
  <2>3. o.status = u
    BY <1>1, <1>3, <1>4, <2>1, <2>2 DEF Stored
  <2>4. QED
    BY <1>4, <2>1, <2>3
<1>5. t.cur => /\ o.status # None /\ o.note # None => o.note = o.status
               /\ \/ o.status = api[r].status
                  \/ api[r].status = None /\ api[r].note = o.status
  BY <1>1, <1>3 DEF Stored
<1>6. QED
  BY <1>1, <1>2, <1>3, <1>4, <1>5 DEF o

\* Observe found the user or did not.
LEMMA ObservedOwnership ==
    ASSUME TypeOK, Exclusion, Ownership, NEW w \in Workers, NEW r \in Resources,
           ObserveMissing(w, r) \/ ObserveFound(w, r)
    PROVE  Ownership'
<1> DEFINE t == task[w][r]
           o == Recalled(t.obj)
           p == [o EXCEPT !.ready = "Available"]
<1>1. t.pc = "observe" /\ UNCHANGED <<cloud, lost>>
  BY DEF ObserveMissing, ObserveFound
<1>2. p.status = o.status /\ p.note = o.note /\ p.creation = o.creation
  <2>1. o \in Lives
    BY <1>1, TaskTypes, RecalledTypes
  <2>2. QED
    BY <2>1 DEF Lives, LiveObjects
<1>3. \/ Observed(w, r, o, "missing", None) /\ ~Live(o.status)
      \/ \E ctx : \/ Observed(w, r, o, "outdated", ctx)
                  \/ Observed(w, r, p, "current", ctx)
  BY DEF ObserveMissing, ObserveFound
<1>4. /\ o.creation # "pending"
      /\ t.cur =>
           /\ api[r].phase = "live"
           /\ o.status # None /\ o.note # None => o.note = o.status
           /\ \/ o.status = api[r].status
              \/ api[r].status = None /\ api[r].note = o.status
           /\ ~Live(o.status) => Owned(r) = {}
  BY <1>1, RecalledOwnership
<1> HIDE DEF o, p
<1>5. PICK u : /\ Goto(w, r, u) /\ u.cur = t.cur
               /\ u.obj = o \/ u.obj = p
               /\ u.seen = "missing" => ~Live(o.status)
               /\ \/ u.pc = "publish"
                  \/ u.pc = "delete" /\ u.seen # "missing"
                  \/ u.pc = "finalize" /\ u.seen = "missing"
  <2>1. CASE Observed(w, r, o, "missing", None) /\ ~Live(o.status)
    BY <1>1, <2>1, ObservedEffect DEF TypeOK
  <2>2. CASE \E ctx : Observed(w, r, o, "outdated", ctx)
    BY <1>1, <2>2, ObservedEffect DEF TypeOK
  <2>3. CASE \E ctx : Observed(w, r, p, "current", ctx)
    BY <1>1, <2>3, ObservedEffect DEF TypeOK
  <2>4. QED
    BY <1>3, <2>1, <2>2, <2>3
<1>6. u.obj.status = o.status /\ u.obj.note = o.note /\ u.obj.creation = o.creation
  BY <1>2, <1>5
<1>7. u.pc \notin CreateSteps
  BY <1>5 DEF CreateSteps
<1>8. Sound(r, u)
  BY <1>4, <1>5, <1>6, <1>7 DEF Sound
<1>9. Known(r, u, api[r])
  BY <1>4, <1>5, <1>6, <1>7 DEF Known
<1>10. Seen(u, Owned(r))
  BY <1>4, <1>5, <1>7 DEF Seen, CreateSteps
<1>11. \A q \in Resources : Owned(q)' \subseteq Owned(q)
  BY <1>1, NoNewUsers
<1>12. QED
  BY <1>5, <1>8, <1>9, <1>10, <1>11, GotoOwnership

\* Connect, a failed Observe and the publication of the connection details.
LEMMA ObserveStepOwnership ==
    ASSUME TypeOK, Exclusion, Ownership, NEW w \in Workers, NEW r \in Resources,
           \/ Connect(w, r) \/ ObserveFails(w, r) \/ Publish(w, r)
           \/ PublishRefused(w, r)
    PROVE  Ownership'
<1> DEFINE t == task[w][r]
           o == Recalled(t.obj)
           Tasks == Running(Steps, Lives, Keys)
<1>1. t \in Tasks /\ t.obj \in Lives /\ UNCHANGED <<cloud, lost>>
  BY TaskTypes DEF Connect, ObserveFails, Publish, PublishRefused
<1>2. \A q \in Resources : Owned(q)' \subseteq Owned(q)
  BY <1>1, NoNewUsers
<1>3. Sound(r, t) /\ Known(r, t, api[r]) /\ Seen(t, Owned(r))
  BY DEF Ownership
<1>4. CASE Connect(w, r)
  <2> DEFINE u == [t EXCEPT !.pc = "observe"]
  <2>1. /\ Goto(w, r, u) /\ t.pc = "connect"
        /\ u.pc = "observe" /\ u.cur = t.cur /\ u.obj = t.obj
    BY <1>1, <1>4 DEF Connect, Running
  <2>2. t.pc \notin CreateSteps /\ u.pc \notin CreateSteps
    BY <2>1 DEF CreateSteps
  <2> HIDE DEF u
  <2>3. QED
    BY <1>2, <2>1, <2>2, LaterOwnership
<1>5. CASE ObserveFails(w, r)
  <2> DEFINE x == [t EXCEPT !.obj = o]
  <2>1. /\ o.creation # "pending"
        /\ t.cur =>
             /\ api[r].phase = "live"
             /\ o.status # None /\ o.note # None => o.note = o.status
             /\ \/ o.status = api[r].status
                \/ api[r].status = None /\ api[r].note = o.status
    BY <1>5, RecalledOwnership DEF ObserveFails
  <2>2. x \in Tasks /\ x.cur = t.cur /\ x.obj = o
    BY <1>1, RecalledTypes DEF Running
  <2>3. Goto(w, r, OnError(x))
    BY <1>5 DEF ObserveFails
  <2> HIDE DEF x, o
  <2>4. PICK u : /\ Goto(w, r, u) /\ u.pc = "status" /\ u.cur = t.cur
                 /\ u.obj.creation = o.creation /\ u.seen = "unknown"
                 /\ u.obj.status = o.status /\ u.obj.note = o.note
    BY <2>2, <2>3, ControlEffect DEF Lives
  <2>5. u.pc \notin CreateSteps
    BY <2>4 DEF CreateSteps
  <2>6. Sound(r, u)
    BY <2>1, <2>4, <2>5 DEF Sound
  <2>7. Known(r, u, api[r])
    BY <2>1, <2>4, <2>5 DEF Known
  <2>8. Seen(u, Owned(r))
    BY <2>4, <2>5 DEF Seen
  <2>9. QED
    BY <1>2, <2>4, <2>6, <2>7, <2>8, GotoOwnership
<1>6. CASE Publish(w, r) /\ t.pc = "publish"
  <2> DEFINE u == AfterPublish(t)
  <2>1. Goto(w, r, u)
    BY <1>6 DEF Publish
  <2>2. /\ u.cur = t.cur /\ u.obj.creation = t.obj.creation
        /\ u.obj.status = t.obj.status /\ u.obj.note = t.obj.note
        /\ \/ u.pc = "addFinalizer" /\ u.seen = t.seen /\ ~u.obj.finalizer
           \/ u.pc = "pending" /\ u.seen = "missing" /\ t.seen = "missing"
           \/ u.pc = "update" /\ u.seen = "outdated"
           \/ u.pc = "status" /\ u.seen = "unknown"
    BY <1>1, AfterPublishEffect DEF Lives
  <2> HIDE DEF u
  <2>3. u.pc \notin CreateSteps /\ t.obj.creation # "pending"
    BY <1>3, <1>6, <2>2 DEF CreateSteps, Sound
  <2>4. Sound(r, u)
    BY <1>3, <2>2, <2>3 DEF Sound
  <2>5. Known(r, u, api[r])
    BY <1>3, <2>2, <2>3 DEF Known
  <2>6. Seen(u, Owned(r))
    BY <1>3, <1>6, <2>2, <2>3 DEF Seen
  <2>7. QED
    BY <1>2, <2>1, <2>4, <2>5, <2>6, GotoOwnership
<1>7. CASE Publish(w, r) /\ t.pc # "publish"
  <2>1. /\ t.pc \in {"publishCreated", "publishUpdated"}
        /\ \E ready, synced : Goto(w, r, Closed(t, ready, synced))
    BY <1>7 DEF Publish
  <2>2. PICK u : /\ Goto(w, r, u) /\ u.pc = "status" /\ u.cur = t.cur
                 /\ u.obj.creation = t.obj.creation /\ u.seen = "unknown"
                 /\ u.obj.status = t.obj.status /\ u.obj.note = t.obj.note
    BY <1>1, <2>1, ControlEffect DEF Lives
  <2>3. t.pc \notin CreateSteps
    BY <2>1 DEF CreateSteps
  <2>4. QED
    BY <1>2, <2>2, <2>3, LaterOwnership
<1>8. CASE PublishRefused(w, r)
  <2>1. t.pc \notin CreateSteps /\ Goto(w, r, OnError(t))
    BY <1>8 DEF PublishRefused, CreateSteps
  <2>2. PICK u : /\ Goto(w, r, u) /\ u.pc = "status" /\ u.cur = t.cur
                 /\ u.obj.creation = t.obj.creation /\ u.seen = "unknown"
                 /\ u.obj.status = t.obj.status /\ u.obj.note = t.obj.note
    BY <1>1, <2>1, ControlEffect DEF Lives
  <2>3. QED
    BY <1>2, <2>1, <2>2, LaterOwnership
<1>9. QED
  BY <1>4, <1>5, <1>6, <1>7, <1>8

\* Update and Delete change users and forget none.
LEMMA UpdateStepOwnership ==
    ASSUME TypeOK, Ownership, NEW w \in Workers, NEW r \in Resources,
           \/ UpdateName(w, r) \/ UpdateTags(w, r) \/ UpdateSecret(w, r)
           \/ UserNotFound(w, r) \/ DeleteUser(w, r) \/ DeleteAnswerLost(w, r)
    PROVE  Ownership'
<1> DEFINE t == task[w][r]
           n == t.obj.status
<1>1. t.pc \in {"update", "updateTags", "updateSecret", "delete"}
  BY UpdateStepEffect
<1>2. n \in UserIDs \cup {None}
  BY <1>1, TaskTypes
<1>3. /\ UNCHANGED lost
      /\ \/ UNCHANGED cloud
         \/ /\ Live(n)
            /\ \/ cloud' = [cloud EXCEPT ![n].state = "dead"]
               \/ \E x : cloud' = [cloud EXCEPT ![n].name = x]
               \/ \E x : cloud' = [cloud EXCEPT ![n].tags = x]
  BY DEF UpdateName, UpdateTags, UpdateSecret, UserNotFound, DeleteUser, DeleteAnswerLost
<1>4. \A q \in Resources : Owned(q)' \subseteq Owned(q)
  <2>1. CASE UNCHANGED cloud
    BY <1>3, <2>1, NoNewUsers
  <2>2. CASE ~UNCHANGED cloud
    <3>1. n \in UserIDs
      BY <1>2, <1>3, <2>2 DEF Live
    <3> HIDE DEF n
    <3>2. QED
      BY <1>3, <2>2, <3>1, UserChanges
  <2>3. QED
    BY <2>1, <2>2
<1>5. PICK u : /\ Goto(w, r, u) /\ u.cur = t.cur
               /\ u.obj.creation = t.obj.creation
               /\ u.obj.status = t.obj.status /\ u.obj.note = t.obj.note
               /\ \/ u.pc = "status" /\ u.seen = "unknown"
                  \/ u.pc \in {"updateTags", "updateSecret", "publishUpdated"}
  BY UpdateStepEffect
<1>6. /\ t.pc \notin CreateSteps
      /\ u.pc \in {"updateTags", "updateSecret", "publishUpdated"} =>
           u.pc \notin CreateSteps
  BY <1>1 DEF CreateSteps
<1>7. QED
  BY <1>1, <1>4, <1>5, <1>6, LaterOwnership

\* The steps of Create: the resource has no user before, and no one else believes
\* that it has none.
LEMMA CreateStepOwnership ==
    ASSUME TypeOK, Exclusion, Ownership, NEW w \in Workers, NEW r \in Resources,
           \/ CreateSkipped(w, r) \/ CreateUser(w, r) \/ EnsureCredentialsSecret(w, r)
           \/ CreateFails(w, r) \/ CreateAnswerLost(w, r)
    PROVE  Ownership'
<1> DEFINE t == task[w][r]
<1>1. t.pc \in {"create", "createSecret"} /\ lost \subseteq lost'
  BY CreateStepEffect
     DEF CreateSkipped, CreateUser, EnsureCredentialsSecret, CreateFails, CreateAnswerLost
<1>2. PICK u : /\ Goto(w, r, u) /\ u.cur = t.cur
               /\ u.obj.status = t.obj.status
               /\ \/ u.pc = "record" /\ u.obj.creation # "pending"
                  \/ u.pc = "createSecret"
               /\ \/ UNCHANGED cloud /\ u.obj.note = t.obj.note
                  \/ /\ t.pc = "create" /\ t.obj.status = None
                     /\ \E n \in UserIDs, key \in Keys :
                          /\ NewUser(r, t.obj.spec, n, key)
                          /\ n \in lost' \/ u.obj.note = n
  BY CreateStepEffect
<1>3. /\ Stored(r, api[r], Owned(r))
      /\ Sound(r, t) /\ Known(r, t, api[r]) /\ Seen(t, Owned(r))
  BY DEF Ownership
<1>4. t.pc \in CreateSteps /\ u.pc \in CreateSteps
  BY <1>1, <1>2 DEF CreateSteps
<1>5. Known(r, u, api[r])
  BY <1>2, <1>3, <1>4 DEF Known
<1>6. CASE UNCHANGED cloud /\ u.obj.note = t.obj.note
  <2>1. \A q \in Resources : Owned(q)' \subseteq Owned(q)
    BY <1>1, <1>6, NoNewUsers
  <2>2. Sound(r, u)
    BY <1>2, <1>3, <1>4, <1>6 DEF Sound
  <2>3. Seen(u, Owned(r))
    BY <1>2, <1>3, <1>4, <1>6 DEF Seen
  <2>4. QED
    BY <1>2, <1>5, <2>1, <2>2, <2>3, GotoOwnership
<1>7. ASSUME NEW n \in UserIDs, NEW key \in Keys,
             NewUser(r, t.obj.spec, n, key), n \in lost' \/ u.obj.note = n,
             t.pc = "create", t.obj.status = None
      PROVE  Ownership'
  <2>1. /\ api' = api
        /\ \A v \in Workers, q \in Resources :
             task'[v][q] = IF v = w /\ q = r THEN u ELSE task[v][q]
    BY <1>2, GotoEffect DEF TypeOK
  <2>2. Owned(r) = {}
    BY <1>3, <1>7 DEF Seen
  <2>3. /\ Owned(r)' \subseteq {n} \ {None}
        /\ Owned(r)' \subseteq {u.obj.note}
        /\ \A q \in Resources : q # r => Owned(q)' \subseteq Owned(q)
    BY <1>1, <1>7, <2>2, AddedUser
  <2>4. /\ api[r].phase = "gone" => r \in Orphans
        /\ api[r].phase \in {"live", "gone"}
        /\ api[r].phase = "live" => api[r].creation = "pending" /\ api[r].finalizer
    BY <1>3, <1>4 DEF Known, Exclusion, CreationAnnounced
  <2>5. Stored(r, api[r], Owned(r)')
    BY <1>3, <2>3, <2>4 DEF Stored
  <2>6. Sound(r, u)
    BY <1>2, <1>4, <1>7 DEF Sound
  <2>7. Seen(u, Owned(r)')
    BY <1>2, <2>3, <1>4 DEF Seen
  <2>8. ASSUME NEW v \in Workers, v # w
        PROVE  Seen(task[v][r], Owned(r)')
    <3>1. task[v][r].pc \notin CreateSteps
      BY <1>4, <2>8 DEF Exclusion, CreateIsExclusive
    <3>2. Sound(r, task[v][r]) /\ Known(r, task[v][r], api[r])
      BY DEF Ownership
    <3>3. task[v][r].cur => /\ task[v][r].obj.creation = "pending"
      BY <2>4, <3>1, <3>2 DEF Known, Exclusion, TasksAgree, CreateSteps
    <3>4. QED
      BY <3>1, <3>2, <3>3 DEF Seen, Sound, CreateSteps
  <2>9. ASSUME NEW q \in Resources
        PROVE  Stored(q, api'[q], Owned(q)')
    BY <2>1, <2>3, <2>5, FewerUsers DEF Ownership
  <2>10. ASSUME NEW v \in Workers, NEW q \in Resources
         PROVE  /\ Sound(q, task'[v][q]) /\ Known(q, task'[v][q], api'[q])
                /\ Seen(task'[v][q], Owned(q)')
    <3>1. CASE v = w /\ q = r
      BY <1>5, <2>1, <2>6, <2>7, <3>1
    <3>2. CASE v # w /\ q = r
      BY <2>1, <2>8, <3>2 DEF Ownership
    <3>3. CASE q # r
      BY <2>1, <2>3, <3>3, FewerUsers DEF Ownership
    <3>4. QED
      BY <3>1, <3>2, <3>3
  <2>11. QED
    BY <2>9, <2>10, OwnershipNext
<1>8. QED
  BY <1>2, <1>6, <1>7

------------------------------------------------------------------------------
(* Writes to the resource. *)

\* What an update of the metadata writes, from a copy that is current: the ID it
\* may leave in the annotation is the one in the status, stored or in memory.
LEMMA UpdatedOwnership ==
    ASSUME Ownership, NEW w \in Workers, NEW r \in Resources,
           task[w][r].cur, NEW o, o.phase = "live",
           o.status = api[r].status, o.note = task[w][r].obj.note,
           NEW s \in {task[w][r].obj.status, o.status}
    PROVE  /\ o.status # None /\ o.note # None => o.note = o.status
           /\ s # None /\ o.note # None => o.note = s
           /\ s = o.status \/ (o.status = None /\ o.note \in {None, s})
           /\ o.status \in {None, s}
BY DEF Ownership, Sound, Known

\* The finalizer is added to an object without one, so it has no user; the
\* announcement is written when no user was found.
LEMMA AnnounceOwnership ==
    ASSUME TypeOK, Exclusion, Ownership, NEW w \in Workers, NEW r \in Resources,
           AddFinalizer(w, r) \/ MarkPending(w, r), UNCHANGED <<cloud, lost>>
    PROVE  Ownership'
<1> DEFINE t == task[w][r]
           Tasks == Running(Steps, Lives, Keys)
<1>1. /\ t \in Tasks /\ t.obj \in Lives /\ t.cur
      /\ t.pc \in {"addFinalizer", "pending"}
      /\ api[r].phase = "live" /\ api[r] \in Lives
  BY TaskTypes, LivePhase DEF AddFinalizer, MarkPending, WriteAccepted, TypeOK, Lives
<1>2. Stored(r, api[r], Owned(r)) /\ Sound(r, t) /\ Seen(t, Owned(r))
  BY DEF Ownership
<1>3. t.obj.finalizer = api[r].finalizer /\ api[r].creation # "pending"
  BY <1>1 DEF Exclusion, TasksAgree, CreationChecked, BeforeCreate
<1>4. ASSUME NEW v \in Workers, task[v][r].pc \in CreateSteps
      PROVE  FALSE
  BY <1>1, <1>3, <1>4 DEF Exclusion, CreationAnnounced
<1>5. CASE AddFinalizer(w, r)
  <2> DEFINE o == Updated(r, [t.obj EXCEPT !.finalizer = TRUE])
             m(s) == [t EXCEPT !.obj = [o EXCEPT !.status = s]]
  <2>1. o \in Lives /\ o.phase = "live" /\ o.creation = t.obj.creation
        /\ o.status = api[r].status /\ o.note = t.obj.note
    BY <1>1 DEF Updated, Lives, LiveObjects
  <2>2. PICK s \in {t.obj.status, o.status} : Save(w, r, o, AfterFinalizer(m(s)))
    BY <1>5 DEF AddFinalizer
  <2> DEFINE p == [o EXCEPT !.status = s]
  <2>3. s \in UserIDs \cup {None}
    BY <1>1, <2>1 DEF Lives, LiveObjects
  <2> HIDE DEF o
  <2>4. /\ p \in Lives /\ p.status = s /\ p.note = o.note
        /\ p.creation = o.creation
    BY <2>1, <2>3 DEF Lives, LiveObjects
  <2> HIDE DEF p
  <2>5. m(s) \in Tasks /\ m(s).obj = p /\ m(s).cur = t.cur
    <3>1. m(s) = [t EXCEPT !.obj = p]
      BY DEF p
    <3>2. QED
      BY <1>1, <2>4, <3>1 DEF Running
  <2> HIDE DEF m
  <2> DEFINE u == AfterFinalizer(m(s))
  <2>6. /\ u.obj.status = s /\ u.obj.note = o.note
        /\ u.obj.creation = t.obj.creation /\ u.pc \in {"pending", "update", "status"}
        /\ u.pc = "pending" => u.seen = "missing"
    BY <2>1, <2>4, <2>5, ControlEffect DEF Lives
  <2> HIDE DEF u
  <2>7. t.pc = "addFinalizer"
    BY <1>5 DEF AddFinalizer
  <2>8. Owned(r) = {}
    BY <1>1, <1>2, <1>3, <2>7 DEF Stored, Sound
  <2>9. /\ o.status # None /\ o.note # None => o.note = o.status
        /\ s # None /\ o.note # None => o.note = s
        /\ s = o.status \/ (o.status = None /\ o.note \in {None, s})
    BY <1>1, <2>1, UpdatedOwnership
  <2>10. u.pc \notin CreateSteps /\ t.obj.creation # "pending"
    BY <1>1, <1>2, <2>6 DEF CreateSteps, Sound
  <2>11. Stored(r, o, Owned(r))
    BY <2>8, <2>9 DEF Stored
  <2>12. Sound(r, u)
    BY <2>6, <2>9, <2>10 DEF Sound
  <2>13. Known(r, u, o)
    BY <2>1, <2>6, <2>9, <2>10 DEF Known
  <2>14. Seen(u, Owned(r))
    BY <2>8 DEF Seen
  <2>15. Save(w, r, o, u)
    BY <2>2 DEF u
  <2>16. QED
    BY <1>4, <2>11, <2>12, <2>13, <2>14, <2>15, SaveOwnership
<1>6. CASE MarkPending(w, r)
  <2> DEFINE o == Updated(r, [t.obj EXCEPT !.creation = "pending"])
             m(s) == [t EXCEPT !.pc = "create", !.obj = [o EXCEPT !.status = s]]
  <2>1. o \in Lives /\ o.phase = "live"
        /\ o.status = api[r].status /\ o.note = t.obj.note
    BY <1>1, ZenonT(40) DEF Updated, Lives, LiveObjects, Creations
  <2>2. PICK s \in {t.obj.status, o.status} : Save(w, r, o, m(s))
    BY <1>6 DEF MarkPending
  <2> DEFINE u == m(s)
  <2>3. u.obj = [o EXCEPT !.status = s] /\ u.pc = "create"
    BY <1>1, <2>1 DEF Running, Lives, LiveObjects
  <2>4. u.obj.status = s /\ u.obj.note = o.note
    BY <2>1, <2>3 DEF Lives, LiveObjects
  <2> HIDE DEF o, u
  <2>5. Owned(r) = {}
    BY <1>1, <1>2, <1>6 DEF MarkPending, Sound, Seen
  <2>6. /\ o.status # None /\ o.note # None => o.note = o.status
        /\ s # None /\ o.note # None => o.note = s
        /\ s = o.status \/ (o.status = None /\ o.note \in {None, s})
        /\ o.status \in {None, s}
    BY <1>1, <2>1, UpdatedOwnership
  <2>7. Stored(r, o, Owned(r))
    BY <2>5, <2>6 DEF Stored
  <2>8. Sound(r, u)
    BY <2>3, <2>4, <2>6 DEF Sound
  <2>9. Known(r, u, o)
    BY <2>1, <2>3, <2>4, <2>6 DEF Known
  <2>10. Seen(u, Owned(r))
    BY <2>5 DEF Seen
  <2>11. Save(w, r, o, u)
    BY <2>2 DEF u
  <2>12. QED
    BY <1>4, <2>7, <2>8, <2>9, <2>10, <2>11, SaveOwnership
<1>7. QED
  BY <1>5, <1>6

\* The outcome of Create is recorded with the ID, which is the only user's.
LEMMA RecordOwnership ==
    ASSUME TypeOK, Exclusion, Ownership, NEW w \in Workers, NEW r \in Resources,
           RecordCreation(w, r), UNCHANGED <<cloud, lost>>
    PROVE  Ownership'
<1> DEFINE t == task[w][r]
           Tasks == Running(Steps, Lives, Keys)
           o == [api[r] EXCEPT !.creation = t.obj.creation,
                               !.note = IF t.obj.note = None THEN @ ELSE t.obj.note]
           m(s) == [o EXCEPT !.status = s]
           x(s) == [t EXCEPT !.obj = m(s), !.cur = TRUE]
<1>1. t \in Tasks /\ api[r] \in Lives /\ t.pc = "record" /\ t.pc \in CreateSteps
  BY TaskTypes, LivePhase DEF RecordCreation, CreateSteps, TypeOK, Lives
<1>2. t.obj \in Lives
  BY <1>1 DEF Running
<1>3. /\ o \in Lives /\ m(o.status) = o /\ o.phase = "live"
      /\ o.creation = t.obj.creation /\ o.status = api[r].status
      /\ o.finalizer = api[r].finalizer
      /\ o.note = IF t.obj.note = None THEN api[r].note ELSE t.obj.note
  BY <1>1, <1>2 DEF Lives, LiveObjects
<1>4. PICK s : /\ Save(w, r, o, Recorded(t, m(s)))
               /\ s = o.status \/ (t.cur /\ s = t.obj.status)
  BY <1>3 DEF RecordCreation
<1>5. m(s) \in Lives /\ m(s).status = s /\ m(s).note = o.note
      /\ m(s).creation = o.creation
  <2>1. s \in UserIDs \cup {None}
    BY <1>2, <1>3, <1>4, ZenonT(40) DEF Lives, LiveObjects
  <2>2. QED
    BY <1>3, <2>1, ZenonT(40) DEF Lives, LiveObjects
<1>6. x(s) \in Tasks /\ x(s).obj = m(s)
  BY <1>1, <1>5 DEF Running
<1> DEFINE u == Recorded(t, m(s))
<1>7. u = IF m(s).creation = "succeeded" THEN [x(s) EXCEPT !.pc = "publishCreated"]
                                         ELSE Closed(x(s), "Creating", "Error")
  BY DEF Recorded
<1> HIDE DEF o, m, x, u
<1>8. /\ u.pc \in {"publishCreated", "status"}
      /\ u.obj.creation = o.creation /\ u.obj.status = s /\ u.obj.note = o.note
  <2>1. CASE m(s).creation = "succeeded"
    BY <1>5, <1>6, <1>7, <2>1 DEF Running
  <2>2. CASE m(s).creation # "succeeded"
    BY <1>5, <1>6, <1>7, <2>2, ControlEffect DEF Lives
  <2>3. QED
    BY <2>1, <2>2
<1>9. /\ Stored(r, api[r], Owned(r))
      /\ Sound(r, t) /\ Known(r, t, api[r]) /\ Seen(t, Owned(r))
  BY DEF Ownership
<1>10. /\ api[r].phase = "live" /\ o.creation # "pending"
       /\ api[r].status \in {None, t.obj.status}
       /\ t.obj.status # None /\ t.obj.note # None => t.obj.note = t.obj.status
       /\ Owned(r) \subseteq {t.obj.note} \ {None}
  <2>1. api[r].phase = "live"
    BY <1>1 DEF Lives, LiveObjects
  <2>2. Owned(r) \subseteq {t.obj.note} \ {None}
    BY <1>1, <1>9 DEF Seen, Owned, Live
  <2>3. QED
    BY <1>1, <1>3, <1>9, <2>1, <2>2 DEF Known, Sound
<1>11. o.status # None /\ o.note # None => o.note = o.status
  BY <1>3, <1>9, <1>10 DEF Stored
<1>12. s # None /\ o.note # None => o.note = s
  BY <1>3, <1>4, <1>9, <1>10, <1>11 DEF Stored, Known
<1>13. s = o.status \/ (o.status = None /\ o.note \in {None, s})
  BY <1>3, <1>4, <1>10, <1>12
<1>14. u.pc \notin CreateSteps
  BY <1>8 DEF CreateSteps
<1>15. Stored(r, o, Owned(r))
  BY <1>3, <1>9, <1>10, <1>11 DEF Stored
<1>16. Sound(r, u)
  BY <1>8, <1>10, <1>12, <1>14 DEF Sound
<1>17. Known(r, u, o)
  BY <1>3, <1>8, <1>10, <1>13, <1>14 DEF Known
<1>18. Seen(u, Owned(r))
  BY <1>8, <1>14 DEF Seen, CreateSteps
<1>19. ASSUME NEW v \in Workers, v # w, task[v][r].pc \in CreateSteps
       PROVE  FALSE
  BY <1>1, <1>19 DEF Exclusion, CreateIsExclusive
<1>20. Save(w, r, o, u)
  BY <1>4 DEF u
<1>21. QED
  BY <1>15, <1>16, <1>17, <1>18, <1>19, <1>20, SaveOwnership

\* The finalizer goes when no user was found, or the user is to be left behind.
LEMMA FinalizeOwnership ==
    ASSUME TypeOK, Exclusion, Ownership, NEW w \in Workers, NEW r \in Resources,
           RemoveFinalizer(w, r), UNCHANGED <<cloud, lost>>
    PROVE  Ownership'
<1> DEFINE t == task[w][r]
<1>1. Save(w, r, Gone, Idle) /\ t.pc = "finalize" /\ t.cur /\ api[r].phase = "live"
  BY DEF RemoveFinalizer, WriteAccepted
<1>2. Stored(r, api[r], Owned(r)) /\ Sound(r, t) /\ Seen(t, Owned(r))
  BY DEF Ownership
<1>3. r \in Orphans \/ Owned(r) = {}
  BY <1>1, <1>2 DEF Sound, Seen
<1>4. Gone.phase = "gone" /\ Gone.status = None
      /\ Idle.pc = "idle" /\ Idle.cur = FALSE /\ Idle.obj.creation = "none"
  BY DEF Gone, Blank, Idle
<1>5. Stored(r, Gone, Owned(r))
  BY <1>2, <1>3, <1>4 DEF Stored
<1>6. Sound(r, Idle) /\ Known(r, Idle, Gone) /\ Seen(Idle, Owned(r))
  BY <1>4 DEF Sound, Known, Seen, CreateSteps
<1>7. ASSUME NEW v \in Workers, task[v][r].pc \in CreateSteps
      PROVE  r \in Orphans
  <2>1. t.obj.creation = "pending"
    BY <1>1, <1>7 DEF Exclusion, CreationAnnounced, TasksAgree
  <2>2. QED
    BY <1>1, <1>2, <2>1 DEF Sound
<1>8. QED
  BY <1>1, <1>4, <1>5, <1>6, <1>7, SaveOwnership

\* The status is written with the ID that is stored, or the one annotated.
LEMMA StatusOwnership ==
    ASSUME TypeOK, Exclusion, Ownership, NEW w \in Workers, NEW r \in Resources,
           WriteStatus(w, r), UNCHANGED <<cloud, lost>>
    PROVE  Ownership'
<1> DEFINE t == task[w][r]
           o == [api[r] EXCEPT !.status = t.obj.status, !.ready = t.obj.ready,
                               !.synced = t.obj.synced]
<1>1. /\ Save(w, r, o, Idle) /\ t.pc = "status" /\ t.cur
      /\ api[r].phase = "live" /\ api[r] \in Lives
  BY LivePhase DEF WriteStatus, WriteAccepted, TypeOK, Lives
<1>2. /\ o.phase = "live" /\ o.status = t.obj.status /\ o.note = api[r].note
      /\ o.creation = api[r].creation /\ o.finalizer = api[r].finalizer
  BY <1>1 DEF Lives, LiveObjects
<1> HIDE DEF o
<1>3. Stored(r, api[r], Owned(r)) /\ Sound(r, t) /\ Known(r, t, api[r])
  BY DEF Ownership
<1>4. \/ t.obj.status = api[r].status
      \/ api[r].status = None /\ api[r].note \in {None, t.obj.status}
  BY <1>1, <1>3 DEF Known
<1>5. Stored(r, o, Owned(r))
  <2>1. None \notin Owned(r)
    BY DEF Owned, Live
  <2>2. QED
    BY <1>1, <1>2, <1>3, <1>4, <2>1 DEF Stored
<1>6. Idle.pc = "idle" /\ Idle.cur = FALSE /\ Idle.obj.creation = "none"
  BY DEF Idle, Blank
<1>7. Sound(r, Idle) /\ Known(r, Idle, o) /\ Seen(Idle, Owned(r))
  BY <1>6 DEF Sound, Known, Seen, CreateSteps
<1>8. ASSUME NEW v \in Workers, task[v][r].pc \in CreateSteps
      PROVE  o.status \in {None, task[v][r].obj.status}
  <2>1. t.obj.creation = "pending"
    BY <1>1, <1>8 DEF Exclusion, CreationAnnounced, TasksAgree
  <2>2. t.obj.status = api[r].status
    BY <1>1, <1>3, <2>1 DEF Known
  <2>3. Known(r, task[v][r], api[r])
    BY DEF Ownership
  <2>4. QED
    BY <1>1, <1>2, <1>8, <2>2, <2>3 DEF Known
<1>9. QED
  BY <1>1, <1>2, <1>5, <1>7, <1>8, SaveOwnership

------------------------------------------------------------------------------
(* All steps *)

\* The steps of the operator that call nothing outside, or fail to.
LEMMA OperatorOwnership ==
    ASSUME TypeOK, Exclusion, Ownership, NEW w \in Workers, NEW r \in Resources,
           \/ Sync(w, r) \/ Begin(w, r) \/ ReconcilerStep(w, r)
           \/ CallFails(w, r, Calls) \/ Abandon(w, r),
           UNCHANGED <<cloud, lost>>
    PROVE  Ownership'
<1>1. CASE Sync(w, r)
  BY <1>1 DEF Sync, Ownership, Owned, Live, Stored, Sound, Known, Seen
<1>2. CASE Begin(w, r)
  BY <1>2, BeginOwnership
<1>3. CASE ReconcilerStep(w, r)
  <2>1. CASE Conflict(w, r)
    BY <2>1, EndOwnership DEF Conflict
  <2>2. QED
    BY <1>3, <2>1, AnnounceOwnership, RecordOwnership, FinalizeOwnership, StatusOwnership
       DEF ReconcilerStep
<1>4. CASE CallFails(w, r, Calls)
  <2> DEFINE t == task[w][r]
  <2>1. t.pc \in Calls /\ Goto(w, r, OnError(t))
    BY <1>4 DEF CallFails
  <2>2. t.pc # "idle" /\ t.pc \notin CreateSteps
    BY <2>1 DEF Calls, CreateSteps
  <2>3. t \in Running(Steps, Lives, Keys)
    BY <2>2, TaskTypes
  <2>4. PICK u : /\ Goto(w, r, u) /\ u.pc = "status" /\ u.cur = t.cur
                 /\ u.obj.creation = t.obj.creation /\ u.seen = "unknown"
                 /\ u.obj.status = t.obj.status /\ u.obj.note = t.obj.note
    BY <2>1, <2>3, ControlEffect DEF Lives
  <2>5. \A q \in Resources : Owned(q)' \subseteq Owned(q)
    BY NoNewUsers
  <2>6. QED
    BY <2>2, <2>4, <2>5, LaterOwnership
<1>5. CASE Abandon(w, r)
  BY <1>5, EndOwnership DEF Abandon
<1>6. QED
  BY <1>1, <1>2, <1>3, <1>4, <1>5

\* What happens outside the operator: a resource whose deletion is requested
\* before it has a finalizer has no user.
LEMMA EnvironmentOwnership ==
    ASSUME TypeOK, Exclusion, Ownership, Environment
    PROVE  Ownership'
<1>1. ASSUME NEW r \in Resources
      PROVE  /\ Stored(r, api[r], Owned(r))
             /\ api[r].phase = "live" => api[r] \in Lives
             /\ \A v \in Workers : task[v][r].pc \in CreateSteps =>
                  /\ \/ api[r].phase = "gone" /\ r \in Orphans
                     \/ api[r].phase = "live"
                        /\ api[r].status \in {None, task[v][r].obj.status}
                  /\ api[r].phase = "gone" \/ api[r].finalizer
  <2>1. api[r].phase = "live" => api[r] \in Lives
    BY LivePhase DEF TypeOK, Lives
  <2>2. QED
    BY <2>1 DEF Ownership, Known, Exclusion, CreationAnnounced
<1>2. ASSUME NEW r \in Resources, NEW spec \in Specs, Apply(r, spec),
             UNCHANGED <<cloud, secret, lost>>
      PROVE  Ownership'
  <2> DEFINE o == [Blank EXCEPT !.phase = "live", !.spec = spec]
  <2>1. api[r].phase = "new" /\ Store(r, o)
    BY <1>2 DEF Apply
  <2>2. o.phase = "live" /\ o.status = None /\ o.note = None
    BY DEF Blank
  <2> HIDE DEF o
  <2>3. Owned(r) = {}
    BY <1>1, <2>1 DEF Stored
  <2>4. Stored(r, o, Owned(r))
    BY <2>2, <2>3 DEF Stored
  <2>5. \A v \in Workers : task[v][r].pc \notin CreateSteps
    BY <1>1, <2>1
  <2>6. QED
    BY <1>2, <2>1, <2>4, <2>5, StoreOwnership
<1>3. ASSUME NEW r \in Resources, NEW o, Store(r, o), UNCHANGED <<cloud, lost>>,
             api[r].phase = "live", o.phase = "live",
             o.status = api[r].status, o.note = api[r].note,
             o.creation = api[r].creation, o.finalizer = api[r].finalizer
      PROVE  Ownership'
  <2>1. Stored(r, o, Owned(r))
    BY <1>1, <1>3 DEF Stored
  <2>2. QED
    BY <1>1, <1>3, <2>1, StoreOwnership
<1>4. ASSUME NEW r \in Resources, RequestDeletion(r), UNCHANGED <<cloud, secret, lost>>
      PROVE  Ownership'
  <2>1. CASE api[r].finalizer
    <3> DEFINE o == [api[r] EXCEPT !.deleting = TRUE]
    <3>1. api[r].phase = "live" /\ Store(r, o)
      BY <1>4, <2>1 DEF RequestDeletion
    <3>2. /\ o.phase = "live" /\ o.status = api[r].status /\ o.note = api[r].note
          /\ o.creation = api[r].creation /\ o.finalizer = api[r].finalizer
      BY <1>1, <3>1 DEF Lives, LiveObjects
    <3> HIDE DEF o
    <3>3. QED
      BY <1>3, <1>4, <3>1, <3>2
  <2>2. CASE ~api[r].finalizer
    <3>1. Store(r, Gone) /\ api[r].phase = "live"
      BY <1>4, <2>2 DEF RequestDeletion
    <3>2. Owned(r) = {} /\ \A v \in Workers : task[v][r].pc \notin CreateSteps
      BY <1>1, <2>2, <3>1 DEF Stored
    <3>3. Stored(r, Gone, Owned(r))
      BY <3>2 DEF Stored, Gone, Blank
    <3>4. QED
      BY <1>4, <3>1, <3>2, <3>3, StoreOwnership
  <2>3. QED
    BY <2>1, <2>2
<1>5. ASSUME NEW r \in Resources, NEW spec \in Specs, Edit(r, spec)
      PROVE  Ownership'
  <2> DEFINE o == [api[r] EXCEPT !.spec = spec]
  <2>1. api[r].phase = "live" /\ Store(r, o) /\ UNCHANGED <<cloud, lost>>
    BY <1>5 DEF Edit
  <2>2. /\ o.phase = "live" /\ o.status = api[r].status /\ o.note = api[r].note
        /\ o.creation = api[r].creation /\ o.finalizer = api[r].finalizer
    BY <1>1, <2>1 DEF Lives, LiveObjects
  <2> HIDE DEF o
  <2>3. QED
    BY <1>3, <2>1, <2>2
<1>6. ASSUME UNCHANGED <<api, task, lost>>, NEW u \in UserIDs, NEW x,
             \/ UNCHANGED cloud
             \/ /\ Live(u)
                /\ \/ cloud' = [cloud EXCEPT ![u].state = "dead"]
                   \/ cloud' = [cloud EXCEPT ![u].key = x]
      PROVE  Ownership'
  <2>1. \A q \in Resources : Owned(q)' \subseteq Owned(q)
    BY <1>6, NoNewUsers, UserChanges
  <2>2. QED
    BY <1>6, <2>1, FewerUsers, OwnershipNext DEF Ownership
<1>7. ASSUME UNCHANGED <<api, task, cloud, lost>>
      PROVE  Ownership'
  BY <1>7 DEF Ownership, Owned, Live, Stored, Sound, Known, Seen
<1>8. QED
  BY <1>2, <1>4, <1>5, <1>6, <1>7
     DEF Environment, RemovedOutOfBand, KeysReplaced, SecretRemoved, CollectSecret

\* Every step keeps ownership.
LEMMA OwnershipStep ==
    ASSUME TypeOK, Exclusion, Ownership, [Next]_vars
    PROVE  Ownership'
<1>1. ASSUME NEW w \in Workers, NEW r \in Resources,
             (Sync(w, r) \/ Begin(w, r)) /\ UNCHANGED <<cloud, secret, lost>>
      PROVE  Ownership'
  BY <1>1, OperatorOwnership
<1>2. ASSUME NEW w \in Workers, NEW r \in Resources, Progress(w, r)
      PROVE  Ownership'
  BY <1>2, OperatorOwnership, ObserveStepOwnership, ObservedOwnership,
     CreateStepOwnership, UpdateStepOwnership DEF Progress
<1>3. ASSUME NEW w \in Workers, NEW r \in Resources, Failure(w, r)
      PROVE  Ownership'
  BY <1>3, OperatorOwnership, ObserveStepOwnership, CreateStepOwnership,
     UpdateStepOwnership DEF Failure
<1>4. CASE UNCHANGED vars
  BY <1>4 DEF vars, Ownership, Owned, Live, Stored, Sound, Known, Seen
<1>5. QED
  BY <1>1, <1>2, <1>3, <1>4, EnvironmentOwnership DEF Next

\* In the beginning there are no users.
LEMMA OwnershipInit == Init => Ownership
<1> SUFFICES ASSUME Init
             PROVE  Ownership
  OBVIOUS
<1>1. \A r \in Resources : Owned(r) = {}
  BY DEF Init, Owned, Live, NoUser
<1>2. \A w \in Workers, r \in Resources : api[r] = Blank /\ task[w][r] = Idle
  BY DEF Init, ReconcilerInit
<1>3. /\ Idle.pc = "idle" /\ Idle.cur = FALSE /\ Idle.obj.creation = "none"
      /\ Blank.status = None /\ Blank.phase = "new"
  BY DEF Idle, Blank
<1>4. ASSUME NEW r \in Resources
      PROVE  Stored(r, Blank, {})
  BY <1>3 DEF Stored
<1>5. ASSUME NEW r \in Resources
      PROVE  Sound(r, Idle) /\ Known(r, Idle, Blank) /\ Seen(Idle, {})
  BY <1>3 DEF Sound, Known, Seen, CreateSteps
<1>6. ASSUME NEW r \in Resources
      PROVE  /\ Stored(r, api[r], Owned(r))
             /\ \A w \in Workers :
                  /\ Sound(r, task[w][r]) /\ Known(r, task[w][r], api[r])
                  /\ Seen(task[w][r], Owned(r))
  <2>1. Owned(r) = {} /\ \A w \in Workers : api[r] = Blank /\ task[w][r] = Idle
    BY <1>1, <1>2
  <2>2. api[r] = Blank
    BY DEF Init, ReconcilerInit
  <2>3. QED
    BY <1>4, <1>5, <2>1, <2>2
<1>7. QED
  BY <1>6 DEF Ownership

\* The inductive invariant holds in every reachable state.
LEMMA OwnershipHolds == Spec => [](TypeOK /\ Exclusion /\ Ownership)
<1>1. TypeOK /\ Exclusion /\ Ownership /\ [Next]_vars => Ownership'
  BY OwnershipStep
<1>2. QED
  BY <1>1, OwnershipInit, ExclusionHolds, PTL DEF Spec

------------------------------------------------------------------------------
(* Theorems *)

\* The stored objects, what every instance has in memory and the users at
\* cloudscale.ch fit together at every step of every reconcile.
THEOREM OwnershipAlways == Spec => []Ownership
BY OwnershipHolds, PTL

LEMMA OwnedByOne ==
    ASSUME TypeOK, Ownership
    PROVE  AtMostOneUser
<1> SUFFICES ASSUME NEW u \in UserIDs \ lost, NEW v \in UserIDs \ lost,
                    Live(u), Live(v), cloud[u].owner = cloud[v].owner
             PROVE  u = v
  BY DEF AtMostOneUser
<1>1. cloud[u].owner \in Resources
  BY DEF TypeOK, Live, Users, NoUser
<1>2. u \in Owned(cloud[u].owner) /\ v \in Owned(cloud[u].owner)
  BY DEF Owned
<1>3. QED
  BY <1>1, <1>2 DEF Ownership, Stored

\* A resource never has two users, however many operators with caches of any age
\* retry its creation, except for users whose create call did not answer.
THEOREM OneUser == Spec => []AtMostOneUser
<1>1. TypeOK /\ Ownership => AtMostOneUser
  BY OwnedByOne
<1>2. QED
  BY <1>1, OwnershipHolds, PTL

LEMMA OwnedAccountedFor ==
    ASSUME TypeOK, Ownership
    PROVE  EveryUserAccountedFor
<1> SUFFICES ASSUME NEW u \in UserIDs \ lost, Live(u),
                    cloud[u].owner \notin Orphans
             PROVE  LET o == api[cloud[u].owner]
                    IN  /\ o.phase = "live"
                        /\ o.status = u \/ o.note = u \/ o.creation = "pending"
  BY DEF EveryUserAccountedFor
<1>1. cloud[u].owner \in Resources
  BY DEF TypeOK, Live, Users, NoUser
<1>2. u \in Owned(cloud[u].owner)
  BY DEF Owned
<1>3. QED
  BY <1>1, <1>2 DEF Ownership, Stored

\* The operator never forgets a user it created: as long as the user lives, the
\* resource names it or is marked as one whose creation did not conclude.
THEOREM UsersAccountedFor == Spec => []EveryUserAccountedFor
<1>1. TypeOK /\ Ownership => EveryUserAccountedFor
  BY OwnedAccountedFor
<1>2. QED
  BY <1>1, OwnershipHolds, PTL

\* What a write makes of the ID in the status of the object: only the write of
\* the status changes it, and then it names the user it names, or the first one.
LEMMA StatusWrites ==
    ASSUME TypeOK, Ownership, NEW w \in Workers, NEW r \in Resources,
           \/ AddFinalizer(w, r) \/ MarkPending(w, r) \/ RecordCreation(w, r)
           \/ RemoveFinalizer(w, r) \/ WriteStatus(w, r),
           NEW q \in Resources, api[q].status # None, api'[q].phase = "live"
    PROVE  api'[q].status = api[q].status
<1> DEFINE t == task[w][r]
           named == [t.obj EXCEPT !.finalizer = TRUE]
           marked == [t.obj EXCEPT !.creation = "pending"]
           recorded == [api[r] EXCEPT !.creation = t.obj.creation,
                                      !.note = IF t.obj.note = None THEN @ ELSE t.obj.note]
           reported == [api[r] EXCEPT !.status = t.obj.status, !.ready = t.obj.ready,
                                      !.synced = t.obj.synced]
<1>1. t.pc # "idle"
  BY DEF AddFinalizer, MarkPending, RecordCreation, RemoveFinalizer, WriteStatus
<1>2. t.obj \in Lives /\ (api[r].phase = "live" => api[r] \in Lives)
  BY <1>1, TaskTypes, LivePhase DEF TypeOK, Lives
<1>3. /\ Updated(r, named).status = api[r].status
      /\ Updated(r, marked).status = api[r].status
      /\ api[r].phase = "live" => recorded.status = api[r].status
      /\ api[r].phase = "live" => reported.status = t.obj.status
      /\ Gone.phase = "gone"
  <2>1. Updated(r, named).status = api[r].status
    BY <1>2 DEF Updated, Lives, LiveObjects
  <2>2. Updated(r, marked).status = api[r].status
    BY <1>2 DEF Updated, Lives, LiveObjects
  <2>3. QED
    BY <1>2, <2>1, <2>2 DEF Gone, Blank, Lives, LiveObjects
<1> HIDE DEF named, marked, recorded, reported
<1>4. \E o, u : /\ Save(w, r, o, u)
                /\ \/ o.phase # "live"
                   \/ o.status = api[r].status
                   \/ t.cur /\ o.status = t.obj.status
  <2>1. CASE AddFinalizer(w, r)
    BY <1>3, <2>1 DEF AddFinalizer, named
  <2>2. CASE MarkPending(w, r)
    BY <1>3, <2>2 DEF MarkPending, marked
  <2>3. CASE RecordCreation(w, r)
    BY <1>3, <2>3 DEF RecordCreation, recorded
  <2>4. CASE RemoveFinalizer(w, r)
    BY <1>3, <2>4 DEF RemoveFinalizer
  <2>5. CASE WriteStatus(w, r)
    BY <1>3, <2>5 DEF WriteStatus, WriteAccepted, reported
  <2>6. QED
    BY <2>1, <2>2, <2>3, <2>4, <2>5
<1>5. PICK o, u : /\ Save(w, r, o, u)
                  /\ \/ o.phase # "live"
                     \/ o.status = api[r].status
                     \/ t.cur /\ o.status = t.obj.status
  BY <1>4
<1>6. api'[r] = o /\ (q # r => api'[q] = api[q])
  BY <1>5, SaveEffect DEF TypeOK
<1>7. Known(r, t, api[r])
  BY DEF Ownership
<1>8. QED
  BY <1>5, <1>6, <1>7 DEF Known

\* The same for what the user of the resource does.
LEMMA StatusKeptOutside ==
    ASSUME TypeOK, Environment,
           NEW q \in Resources, api[q].status # None, api'[q].phase = "live"
    PROVE  api'[q].status = api[q].status
<1>1. ASSUME NEW r \in Resources, NEW o, Store(r, o),
             o.phase = "live" /\ api[r].status # None => o.status = api[r].status
      PROVE  api'[q].status = api[q].status
  BY <1>1, StoreEffect DEF TypeOK
<1>2. ASSUME NEW r \in Resources
      PROVE  api[r].phase = "live" => api[r] \in Lives
  BY LivePhase DEF TypeOK, Lives
<1>3. ASSUME NEW r \in Resources, NEW spec \in Specs, Apply(r, spec)
      PROVE  api'[q].status = api[q].status
  <2> DEFINE o == [Blank EXCEPT !.phase = "live", !.spec = spec]
  <2>1. api[r].phase = "new" /\ Store(r, o)
    BY <1>3 DEF Apply
  <2>2. api[r].status = None
    BY <2>1 DEF TypeOK, ReconcilerType, Lives, LiveObjects, Blank, Gone
  <2> HIDE DEF o
  <2>3. QED
    BY <1>1, <2>1, <2>2
<1>4. ASSUME NEW r \in Resources, RequestDeletion(r)
      PROVE  api'[q].status = api[q].status
  <2> DEFINE o == IF api[r].finalizer THEN [api[r] EXCEPT !.deleting = TRUE] ELSE Gone
  <2>1. api[r].phase = "live" /\ Store(r, o)
    BY <1>4 DEF RequestDeletion
  <2>2. o.phase = "live" => o.status = api[r].status
    BY <1>2, <2>1 DEF Lives, LiveObjects, Gone, Blank
  <2> HIDE DEF o
  <2>3. QED
    BY <1>1, <2>1, <2>2
<1>5. ASSUME NEW r \in Resources, NEW spec \in Specs, Edit(r, spec)
      PROVE  api'[q].status = api[q].status
  <2> DEFINE o == [api[r] EXCEPT !.spec = spec]
  <2>1. api[r].phase = "live" /\ Store(r, o)
    BY <1>5 DEF Edit
  <2>2. o.status = api[r].status
    BY <1>2, <2>1 DEF Lives, LiveObjects
  <2> HIDE DEF o
  <2>3. QED
    BY <1>1, <2>1, <2>2
<1>6. QED
  BY <1>3, <1>4, <1>5
     DEF Environment, RemovedOutOfBand, KeysReplaced, SecretRemoved, CollectSecret

\* Every other step leaves the objects alone.
LEMMA StatusKept ==
    ASSUME TypeOK, Ownership, [Next]_vars,
           NEW q \in Resources, api[q].status # None, api'[q].phase = "live"
    PROVE  api'[q].status = api[q].status
<1>1. ASSUME NEW w \in Workers, NEW r \in Resources,
             \/ Sync(w, r) \/ Begin(w, r) \/ Conflict(w, r)
             \/ CallFails(w, r, Calls) \/ Abandon(w, r)
      PROVE  api' = api
  BY <1>1 DEF Sync, Begin, Conflict, CallFails, Abandon, Goto
<1>2. ASSUME NEW w \in Workers, NEW r \in Resources,
             \/ Connect(w, r) \/ ObserveMissing(w, r) \/ ObserveFound(w, r)
             \/ ObserveFails(w, r) \/ Publish(w, r) \/ PublishRefused(w, r)
      PROVE  api' = api
  BY <1>2 DEF Connect, ObserveMissing, ObserveFound, ObserveFails, Publish,
              PublishRefused, Observed, Goto
<1>3. ASSUME NEW w \in Workers, NEW r \in Resources,
             \/ CreateSkipped(w, r) \/ CreateUser(w, r) \/ EnsureCredentialsSecret(w, r)
             \/ CreateFails(w, r) \/ CreateAnswerLost(w, r)
      PROVE  api' = api
  BY <1>3, CreateStepEffect DEF Goto
<1>4. ASSUME NEW w \in Workers, NEW r \in Resources,
             \/ UpdateName(w, r) \/ UpdateTags(w, r) \/ UpdateSecret(w, r)
             \/ UserNotFound(w, r) \/ DeleteUser(w, r) \/ DeleteAnswerLost(w, r)
      PROVE  api' = api
  BY <1>4, UpdateStepEffect DEF Goto
<1>5. ASSUME NEW w \in Workers, NEW r \in Resources,
             \/ Sync(w, r) \/ Begin(w, r) \/ Progress(w, r) \/ Failure(w, r)
      PROVE  api'[q].status = api[q].status
  BY <1>1, <1>2, <1>3, <1>4, <1>5, StatusWrites DEF Progress, Failure, ReconcilerStep
<1>6. QED
  BY <1>5, StatusKeptOutside DEF Next, vars

\* Once the status names a user it never names another one or none while the
\* resource lives, whichever copies the writes of a reconcile start from.
THEOREM StatusIDKept == Spec => StatusIDNeverChanges
<1>1. TypeOK /\ Ownership /\ [Next]_vars =>
        [\A r \in Resources :
            api[r].status # None /\ api'[r].phase = "live"
                => api'[r].status = api[r].status]_vars
  BY StatusKept
<1>2. QED
  BY <1>1, OwnershipHolds, PTL DEF Spec, StatusIDNeverChanges

------------------------------------------------------------------------------
(* Deletions: Mandate, on top of Ownership. *)

\* Users that were made stay made.
MadeStays ==
    /\ \A q \in Resources : Made(q) \subseteq Made(q)'
    /\ \A u \in lost' : cloud'[u].state # "free"

\* Mandate in the next state, spelled out.
LEMMA MandateNext ==
    ASSUME MadeStays, \A q \in Resources :
             /\ Named(api'[q], Made(q)')
             /\ \A v \in Workers :
                  Entitled(q, Made(q)', api'[q], cache'[v][q].obj, task'[v][q])
    PROVE  Mandate'
BY DEF Mandate, MadeStays, Entitled, Named, Asked, Directed

\* A copy remains in order when users are made and the stored object changes, if a
\* deletion request is not lost.
LEMMA StillEntitled ==
    ASSUME NEW q, NEW M, NEW N, M \subseteq N, NEW o, NEW p, NEW c, NEW t, NEW d, NEW u,
           Entitled(q, M, o, c, t), d = c, u.pc = t.pc, u.obj = t.obj,
           u.cur => t.cur /\ p = o,
           p.phase = "gone" \/ (o.phase # "gone" /\ (o.deleting => p.deleting)) \/ p = o
    PROVE  Entitled(q, N, p, d, u)
BY DEF Entitled, Named, Asked, Directed

\* The reconcile of r by w goes on as u without a write.
LEMMA GotoMandate ==
    ASSUME TypeOK, Mandate, NEW w \in Workers, NEW r \in Resources, NEW u, Goto(w, r, u),
           MadeStays, Entitled(r, Made(r)', api[r], cache[w][r].obj, u)
    PROVE  Mandate'
<1>1. /\ api' = api /\ cache' = cache
      /\ \A v \in Workers, q \in Resources :
           task'[v][q] = IF v = w /\ q = r THEN u ELSE task[v][q]
  BY GotoEffect DEF TypeOK
<1>2. ASSUME NEW q \in Resources
      PROVE  Named(api'[q], Made(q)')
  BY <1>1 DEF Mandate, MadeStays, Named
<1>3. ASSUME NEW v \in Workers, NEW q \in Resources
      PROVE  Entitled(q, Made(q)', api'[q], cache'[v][q].obj, task'[v][q])
  <2>1. CASE v = w /\ q = r
    BY <1>1, <2>1
  <2>2. CASE ~(v = w /\ q = r)
    <3>1. Entitled(q, Made(q), api[q], cache[v][q].obj, task[v][q])
      BY DEF Mandate, Entitled
    <3>2. Made(q) \subseteq Made(q)'
      BY DEF MadeStays
    <3>3. QED
      BY <1>1, <2>2, <3>1, <3>2, StillEntitled
  <2>3. QED
    BY <2>1, <2>2
<1>4. QED
  BY <1>2, <1>3, MandateNext

\* The users are as they were.
LEMMA NobodyMade ==
    ASSUME Mandate, UNCHANGED <<cloud, lost>>
    PROVE  MadeStays /\ \A q \in Resources : Made(q)' = Made(q)
BY DEF Mandate, MadeStays, Made

\* The reconcile of r by w writes o and goes on as u.
LEMMA SaveMandate ==
    ASSUME TypeOK, Mandate, NEW w \in Workers, NEW r \in Resources, NEW o, NEW u,
           Save(w, r, o, u), UNCHANGED <<cloud, lost>>,
           o.phase = "gone" \/ (api[r].phase # "gone" /\ o.deleting = api[r].deleting),
           Named(o, Made(r)), Entitled(r, Made(r), o, cache[w][r].obj, u)
    PROVE  Mandate'
<1>1. /\ api'[r] = o /\ task'[w][r] = u
      /\ \A q \in Resources : q # r => api'[q] = api[q]
      /\ \A v \in Workers, q \in Resources :
           /\ cache'[v][q].obj = cache[v][q].obj
           /\ v # w \/ q # r =>
                /\ task'[v][q].pc = task[v][q].pc
                /\ task'[v][q].obj = task[v][q].obj
                /\ task'[v][q].cur => task[v][q].cur /\ api'[q] = api[q]
  BY SaveEffect DEF TypeOK
<1>2. MadeStays /\ \A q \in Resources : Made(q)' = Made(q)
  BY NobodyMade
<1>3. ASSUME NEW q \in Resources
      PROVE  Named(api'[q], Made(q)')
  BY <1>1, <1>2 DEF Mandate
<1>4. ASSUME NEW v \in Workers, NEW q \in Resources
      PROVE  Entitled(q, Made(q)', api'[q], cache'[v][q].obj, task'[v][q])
  <2>1. CASE v = w /\ q = r
    BY <1>1, <1>2, <2>1
  <2>2. CASE ~(v = w /\ q = r)
    <3>1. Entitled(q, Made(q), api[q], cache[v][q].obj, task[v][q])
      BY DEF Mandate, Entitled
    <3>2. \/ api'[q].phase = "gone"
          \/ api[q].phase # "gone" /\ (api[q].deleting => api'[q].deleting)
          \/ api'[q] = api[q]
      BY <1>1
    <3>3. QED
      BY <1>1, <1>2, <2>2, <3>1, <3>2, StillEntitled
  <2>3. QED
    BY <2>1, <2>2
<1>5. QED
  BY <1>2, <1>3, <1>4, MandateNext

\* The object r becomes o by a write from outside the operator.
LEMMA StoreMandate ==
    ASSUME TypeOK, Mandate, NEW r \in Resources, NEW o, Store(r, o),
           UNCHANGED <<cloud, lost>>, Named(o, Made(r)),
           \/ o.phase = "gone"
           \/ api[r].phase # "gone" /\ (api[r].deleting => o.deleting)
    PROVE  Mandate'
<1>1. /\ api'[r] = o
      /\ \A q \in Resources : q # r => api'[q] = api[q]
      /\ \A v \in Workers, q \in Resources :
           /\ cache'[v][q].obj = cache[v][q].obj
           /\ task'[v][q].pc = task[v][q].pc
           /\ task'[v][q].obj = task[v][q].obj
           /\ task'[v][q].cur => task[v][q].cur /\ api'[q] = api[q]
  BY StoreEffect DEF TypeOK
<1>2. MadeStays /\ \A q \in Resources : Made(q)' = Made(q)
  BY NobodyMade
<1>3. ASSUME NEW q \in Resources
      PROVE  Named(api'[q], Made(q)')
  BY <1>1, <1>2 DEF Mandate
<1>4. ASSUME NEW v \in Workers, NEW q \in Resources
      PROVE  Entitled(q, Made(q)', api'[q], cache'[v][q].obj, task'[v][q])
  <2>1. Entitled(q, Made(q), api[q], cache[v][q].obj, task[v][q])
    BY DEF Mandate, Entitled
  <2>2. \/ api'[q].phase = "gone"
        \/ api[q].phase # "gone" /\ (api[q].deleting => api'[q].deleting)
        \/ api'[q] = api[q]
    BY <1>1
  <2>3. QED
    BY <1>1, <1>2, <2>1, <2>2, StillEntitled
<1>5. QED
  BY <1>2, <1>3, <1>4, MandateNext

\* A reconcile goes on with the request and the IDs it has in memory.
LEMMA OnwardMandate ==
    ASSUME TypeOK, Mandate, NEW w \in Workers, NEW r \in Resources, NEW u, Goto(w, r, u),
           MadeStays, u.cur => task[w][r].cur,
           u.obj.deleting = task[w][r].obj.deleting,
           {u.obj.status, u.obj.note} \subseteq
              Made(r)' \cup {None, task[w][r].obj.status, task[w][r].obj.note},
           Directed(r, u)
    PROVE  Mandate'
<1> DEFINE t == task[w][r]
<1>1. Entitled(r, Made(r), api[r], cache[w][r].obj, t)
  BY DEF Mandate
<1>2. Made(r) \subseteq Made(r)'
  BY DEF MadeStays
<1>3. Named(u.obj, Made(r)') /\ Named(cache[w][r].obj, Made(r)')
  BY <1>1, <1>2 DEF Entitled, Named
<1>4. Entitled(r, Made(r)', api[r], cache[w][r].obj, u)
  BY <1>1, <1>3 DEF Entitled, Asked
<1>5. QED
  BY <1>4, GotoMandate

\* A reconcile that ends has no mandate left.
LEMMA EndMandate ==
    ASSUME TypeOK, Mandate, NEW w \in Workers, NEW r \in Resources,
           Goto(w, r, Idle), UNCHANGED <<cloud, lost>>
    PROVE  Mandate'
<1>1. /\ Idle.pc = "idle" /\ Idle.cur = FALSE /\ ~Idle.obj.deleting
      /\ Idle.obj.status = None /\ Idle.obj.note = None
  BY DEF Idle, Blank
<1>2. MadeStays /\ Made(r)' = Made(r)
  BY NobodyMade
<1>3. Entitled(r, Made(r), api[r], cache[w][r].obj, task[w][r])
  BY DEF Mandate
<1>4. Entitled(r, Made(r), api[r], cache[w][r].obj, Idle)
  BY <1>1, <1>3 DEF Entitled, Named, Asked, Directed, DeleteSteps
<1>5. QED
  BY <1>2, <1>4, GotoMandate

\* The writes of a reconcile keep the deletion request as the API server has it.
LEMMA WriteMandate ==
    ASSUME TypeOK, Mandate, NEW w \in Workers, NEW r \in Resources,
           \/ AddFinalizer(w, r) \/ MarkPending(w, r) \/ RecordCreation(w, r)
           \/ RemoveFinalizer(w, r) \/ WriteStatus(w, r),
           UNCHANGED <<cloud, lost>>
    PROVE  Mandate'
<1> DEFINE t == task[w][r]
           c == cache[w][r].obj
<1>1. Entitled(r, Made(r), api[r], c, t) /\ Named(api[r], Made(r))
  BY DEF Mandate
<1>2. ASSUME NEW o, NEW u, Save(w, r, o, u), api[r].phase = "live",
             o.deleting = api[r].deleting,
             Named(o, Made(r)), Named(u.obj, Made(r)), u.obj.deleting = o.deleting,
             Directed(r, u)
      PROVE  Mandate'
  <2>1. Entitled(r, Made(r), o, c, u)
    BY <1>1, <1>2 DEF Entitled, Asked
  <2>2. QED
    BY <1>2, <2>1, SaveMandate
<1>3. /\ Idle.pc = "idle" /\ Idle.cur = FALSE /\ ~Idle.obj.deleting
      /\ Idle.obj.status = None /\ Idle.obj.note = None
  BY DEF Idle, Blank
<1>4. ASSUME NEW o, Save(w, r, o, Idle), api[r].phase = "live",
             o.phase = "gone" \/ o.deleting = api[r].deleting,
             Named(o, Made(r))
      PROVE  Mandate'
  <2>1. Entitled(r, Made(r), o, c, Idle)
    BY <1>1, <1>3, <1>4 DEF Entitled, Named, Asked, Directed, DeleteSteps
  <2>2. QED
    BY <1>4, <2>1, SaveMandate
<1>5. CASE AddFinalizer(w, r)
  <2>1. PICK o, u :
          /\ Save(w, r, o, u) /\ o.deleting = t.obj.deleting /\ o.note = t.obj.note
          /\ o.status = api[r].status
          /\ u.obj.deleting = t.obj.deleting /\ u.obj.note = t.obj.note
          /\ u.obj.status \in {t.obj.status, api[r].status}
          /\ u.pc \in {"pending", "update", "status"}
    BY <1>5, StepsType, AddFinalizerEffect DEF TypeOK, Lives
  <2>2. t.cur /\ api[r].phase = "live"
    BY <1>5 DEF AddFinalizer, WriteAccepted
  <2>3. Named(o, Made(r)) /\ Named(u.obj, Made(r)) /\ Directed(r, u)
    BY <1>1, <2>1 DEF Entitled, Named, Directed, DeleteSteps
  <2>4. o.deleting = api[r].deleting
    BY <1>1, <2>1, <2>2 DEF Entitled
  <2>5. QED
    BY <1>2, <2>1, <2>2, <2>3, <2>4
<1>6. CASE MarkPending(w, r)
  <2>1. PICK o, u :
          /\ Save(w, r, o, u) /\ o.deleting = t.obj.deleting /\ o.note = t.obj.note
          /\ o.status = api[r].status
          /\ u.obj.deleting = t.obj.deleting /\ u.obj.note = t.obj.note
          /\ u.obj.status \in {t.obj.status, api[r].status}
          /\ u.pc = "create"
    BY <1>6, StepsType, MarkPendingEffect DEF TypeOK, Lives
  <2>2. t.cur /\ api[r].phase = "live"
    BY <1>6 DEF MarkPending, WriteAccepted
  <2>3. Named(o, Made(r)) /\ Named(u.obj, Made(r)) /\ Directed(r, u)
    BY <1>1, <2>1 DEF Entitled, Named, Directed, DeleteSteps
  <2>4. o.deleting = api[r].deleting
    BY <1>1, <2>1, <2>2 DEF Entitled
  <2>5. QED
    BY <1>2, <2>1, <2>2, <2>3, <2>4
<1>7. CASE RecordCreation(w, r)
  <2>1. PICK o, u :
          /\ Save(w, r, o, u) /\ o.phase = "live"
          /\ o.finalizer = api[r].finalizer
          /\ o.deleting = api[r].deleting /\ o.spec = api[r].spec
          /\ o.creation = t.obj.creation
          /\ o.note = IF t.obj.note = None THEN api[r].note ELSE t.obj.note
          /\ o.status = api[r].status /\ o.ready = api[r].ready
          /\ o.synced = api[r].synced
          /\ u.cur = TRUE
          /\ u.obj.finalizer = o.finalizer
          /\ u.obj.deleting = o.deleting /\ u.obj.spec = o.spec
          /\ u.obj.creation = o.creation /\ u.obj.note = o.note
          /\ \/ u.obj.status = o.status
             \/ t.cur /\ u.obj.status = t.obj.status
          /\ \/ /\ u.pc = "publishCreated" /\ u.obj.ready = api[r].ready
                /\ u.obj.synced = api[r].synced
             \/ /\ u.pc = "status" /\ u.seen = "unknown"
                /\ u.obj.ready = "Creating"
    <3>1. ReconcilerType(Steps, Lives, Keys)
      BY DEF TypeOK
    <3> HIDE DEF t
    <3>2. QED
      BY <1>7, <3>1, StepsType, RecordEffect DEF Lives, t
  <2>2. api[r].phase = "live"
    BY <1>7 DEF RecordCreation
  <2>3. Named(o, Made(r)) /\ Named(u.obj, Made(r)) /\ Directed(r, u)
    BY <1>1, <2>1 DEF Entitled, Named, Directed, DeleteSteps
  <2>4. QED
    BY <1>2, <2>1, <2>2, <2>3
<1>8. CASE RemoveFinalizer(w, r)
  <2>1. Save(w, r, Gone, Idle) /\ api[r].phase = "live"
    BY <1>8 DEF RemoveFinalizer, WriteAccepted
  <2>2. Gone.phase = "gone" /\ Named(Gone, Made(r))
    BY DEF Gone, Blank, Named
  <2>3. QED
    BY <1>4, <2>1, <2>2
<1>9. CASE WriteStatus(w, r)
  <2>1. PICK o :
          /\ Save(w, r, o, Idle) /\ o.deleting = api[r].deleting
          /\ o.note = api[r].note /\ o.status = t.obj.status
    BY <1>9, EndEffect DEF TypeOK, Lives
  <2>2. api[r].phase = "live"
    BY <1>9 DEF WriteStatus, WriteAccepted
  <2>3. Named(o, Made(r))
    BY <1>1, <2>1 DEF Entitled, Named
  <2>4. QED
    BY <1>4, <2>1, <2>2, <2>3
<1>10. QED
  BY <1>5, <1>6, <1>7, <1>8, <1>9

\* The steps of the operator that call nothing outside, or fail to.
LEMMA OperatorMandate ==
    ASSUME TypeOK, Exclusion, Mandate, NEW w \in Workers, NEW r \in Resources,
           \/ Sync(w, r) \/ Begin(w, r) \/ ReconcilerStep(w, r)
           \/ CallFails(w, r, Calls) \/ Abandon(w, r),
           UNCHANGED <<cloud, lost>>
    PROVE  Mandate'
<1> DEFINE t == task[w][r]
           c == cache[w][r]
<1>1. /\ MadeStays /\ (\A q \in Resources : Made(q)' = Made(q))
      /\ Entitled(r, Made(r), api[r], c.obj, t) /\ Named(api[r], Made(r))
  BY NobodyMade DEF Mandate
<1>2. CASE Sync(w, r)
  <2>1. /\ UNCHANGED <<api, task>>
        /\ \A v \in Workers, q \in Resources :
             cache'[v][q].obj = IF v = w /\ q = r THEN api[r] ELSE cache[v][q].obj
    BY <1>2 DEF Sync, TypeOK, ReconcilerType
  <2>2. ASSUME NEW v \in Workers, NEW q \in Resources
        PROVE  Entitled(q, Made(q)', api'[q], cache'[v][q].obj, task'[v][q])
    BY <1>1, <2>1 DEF Mandate, Entitled, Asked
  <2>3. \A q \in Resources : Named(api'[q], Made(q)')
    BY <1>1, <2>1 DEF Mandate
  <2>4. QED
    BY <1>1, <2>2, <2>3, MandateNext
<1>3. CASE Begin(w, r)
  <2> DEFINE u == FirstStep(r, [Idle EXCEPT !.pc = "connect", !.obj = c.obj,
                                            !.cur = c.cur])
  <2>1. /\ Goto(w, r, u) /\ u.cur = c.cur
        /\ u.obj.status = c.obj.status /\ u.obj.note = c.obj.note
        /\ u.obj.deleting = c.obj.deleting
        /\ \/ u.pc = "finalize" /\ u.obj.deleting
           \/ u.pc = "status"
           \/ u.pc = "connect" /\ ~(u.obj.deleting /\ r \in Orphans)
    BY <1>3, Begun
  <2> HIDE DEF u
  <2>2. Directed(r, u)
    BY <2>1 DEF Directed, DeleteSteps
  <2>3. c.cur => c.obj = api[r]
    BY DEF Exclusion, CachesAgree
  <2>4. Entitled(r, Made(r), api[r], c.obj, u)
    BY <1>1, <2>1, <2>2, <2>3 DEF Entitled, Named, Asked
  <2>5. QED
    BY <1>1, <2>1, <2>4, GotoMandate
<1>4. CASE Conflict(w, r) \/ Abandon(w, r)
  BY <1>4, EndMandate DEF Conflict, Abandon
<1>5. CASE CallFails(w, r, Calls)
  <2>1. t.pc \in Calls /\ Goto(w, r, OnError(t))
    BY <1>5 DEF CallFails
  <2>2. t \in Running(Steps, Lives, Keys)
    BY <2>1, TaskTypes DEF Calls
  <2>3. PICK u : /\ Goto(w, r, u) /\ u.pc = "status" /\ u.cur = t.cur
                 /\ u.obj.status = t.obj.status /\ u.obj.note = t.obj.note
                 /\ u.obj.deleting = t.obj.deleting
    BY <2>1, <2>2, ControlEffect DEF Lives
  <2>4. Directed(r, u)
    BY <2>3 DEF Directed, DeleteSteps
  <2>5. QED
    BY <1>1, <2>3, <2>4, OnwardMandate
<1>6. QED
  BY <1>2, <1>3, <1>4, <1>5, WriteMandate DEF ReconcilerStep

\* Connect, Observe and Publish: Observe goes by the request of its copy.
LEMMA ObserveStepMandate ==
    ASSUME TypeOK, Mandate, NEW w \in Workers, NEW r \in Resources,
           \/ Connect(w, r) \/ ObserveMissing(w, r) \/ ObserveFound(w, r)
           \/ ObserveFails(w, r) \/ Publish(w, r) \/ PublishRefused(w, r)
    PROVE  Mandate'
<1> DEFINE t == task[w][r]
           o == Recalled(t.obj)
<1>1. /\ UNCHANGED <<cloud, lost>> /\ t.pc # "idle"
      /\ t \in Running(Steps, Lives, Keys) /\ t.obj \in Lives
  <2>1. t.pc # "idle" /\ UNCHANGED <<cloud, lost>>
    BY DEF Connect, ObserveMissing, ObserveFound, ObserveFails, Publish, PublishRefused
  <2>2. QED
    BY <2>1, TaskTypes
<1>2. MadeStays /\ Directed(r, t)
  BY <1>1, NobodyMade DEF Mandate, Entitled
<1>3. /\ o \in Lives /\ o.deleting = t.obj.deleting
      /\ o.status \in {t.obj.status, t.obj.note} /\ o.note \in {None, t.obj.note}
  BY <1>1, RecalledTypes, RecalledEffect
<1>4. CASE Connect(w, r)
  <2> DEFINE u == [t EXCEPT !.pc = "observe"]
  <2>1. /\ Goto(w, r, u) /\ t.pc = "connect"
        /\ u.pc = "observe" /\ u.cur = t.cur /\ u.obj = t.obj
    BY <1>1, <1>4 DEF Connect, Running
  <2> HIDE DEF u
  <2>2. Directed(r, u)
    BY <1>2, <2>1 DEF Directed, DeleteSteps
  <2>3. QED
    BY <1>2, <2>1, <2>2, OnwardMandate
<1> HIDE DEF o
<1>5. ASSUME NEW p, NEW seen, NEW ctx, Observed(w, r, p, seen, ctx), t.pc = "observe",
             p.deleting = t.obj.deleting,
             {p.status, p.note} \subseteq {None, t.obj.status, t.obj.note}
      PROVE  Mandate'
  <2>1. PICK u : /\ Goto(w, r, u) /\ u.cur = t.cur /\ u.obj = p
                 /\ u.pc = "publish" \/ (u.pc \in {"delete", "finalize"} /\ p.deleting)
    BY <1>1, <1>5, ObservedEffect DEF TypeOK
  <2>2. Directed(r, u)
    BY <1>2, <1>5, <2>1 DEF Directed, DeleteSteps
  <2>3. QED
    BY <1>2, <1>5, <2>1, <2>2, OnwardMandate
<1>6. CASE ObserveMissing(w, r)
  BY <1>3, <1>5, <1>6 DEF ObserveMissing, o
<1>7. CASE ObserveFound(w, r)
  <2> DEFINE p == [o EXCEPT !.ready = "Available"]
  <2>1. p.deleting = o.deleting /\ p.status = o.status /\ p.note = o.note
    BY <1>3 DEF Lives, LiveObjects
  <2>2. /\ t.pc = "observe"
        /\ \E ctx : \/ Observed(w, r, o, "outdated", ctx)
                    \/ Observed(w, r, p, "current", ctx)
    BY <1>7 DEF ObserveFound, o
  <2> HIDE DEF p
  <2>3. QED
    BY <1>3, <1>5, <2>1, <2>2
<1>8. CASE ObserveFails(w, r)
  <2> DEFINE x == [t EXCEPT !.obj = o]
  <2>1. x \in Running(Steps, Lives, Keys) /\ x.cur = t.cur /\ x.obj = o
    BY <1>1, <1>3 DEF Running
  <2>2. Goto(w, r, OnError(x))
    BY <1>8 DEF ObserveFails, o
  <2> HIDE DEF x
  <2>3. PICK u : /\ Goto(w, r, u) /\ u.pc = "status" /\ u.cur = x.cur
                 /\ u.obj.status = x.obj.status /\ u.obj.note = x.obj.note
                 /\ u.obj.deleting = x.obj.deleting
    BY <2>1, <2>2, ControlEffect DEF Lives
  <2>4. Directed(r, u)
    BY <2>3 DEF Directed, DeleteSteps
  <2>5. QED
    BY <1>2, <1>3, <2>1, <2>3, <2>4, OnwardMandate
<1>9. CASE Publish(w, r) \/ PublishRefused(w, r)
  <2>1. \/ Goto(w, r, AfterPublish(t)) \/ Goto(w, r, OnError(t))
        \/ \E ready, synced : Goto(w, r, Closed(t, ready, synced))
    BY <1>9 DEF Publish, PublishRefused
  <2>2. PICK u : /\ Goto(w, r, u) /\ u.cur = t.cur
                 /\ u.pc \in {"addFinalizer", "pending", "update", "status"}
                 /\ u.obj.status = t.obj.status /\ u.obj.note = t.obj.note
                 /\ u.obj.deleting = t.obj.deleting
    <3>1. CASE Goto(w, r, AfterPublish(t))
      BY <1>1, <3>1, AfterPublishEffect DEF Lives
    <3>2. CASE \E ready, synced : Goto(w, r, Closed(t, ready, synced))
      BY <1>1, <3>2, ControlEffect DEF Lives
    <3>3. CASE Goto(w, r, OnError(t))
      BY <1>1, <3>3, ControlEffect DEF Lives
    <3>4. QED
      BY <2>1, <3>1, <3>2, <3>3
  <2>3. Directed(r, u)
    BY <2>2 DEF Directed, DeleteSteps
  <2>4. QED
    BY <1>2, <2>2, <2>3, OnwardMandate
<1>10. QED
  BY <1>4, <1>6, <1>7, <1>8, <1>9

\* What the calls for an existing user, and others at cloudscale.ch, do to the users
\* of the resources.
LEMMA UserKept ==
    ASSUME TypeOK, Mandate, UNCHANGED lost, NEW u \in UserIDs, NEW x, Live(u),
           \/ cloud' = [cloud EXCEPT ![u].state = "dead"]
           \/ cloud' = [cloud EXCEPT ![u].name = x]
           \/ cloud' = [cloud EXCEPT ![u].tags = x]
           \/ cloud' = [cloud EXCEPT ![u].key = x]
    PROVE  /\ MadeStays
           /\ \/ \A q \in Resources : Owned(q)' = Owned(q)
              \/ /\ cloud' = [cloud EXCEPT ![u].state = "dead"]
                 /\ \A q \in Resources : Owned(q)' = Owned(q) \ {u}
<1> DEFINE user == cloud'[u]
<1>1. /\ cloud[u] \in Users /\ cloud[u].state = "live"
      /\ \A v \in UserIDs : v # u => cloud'[v] = cloud[v]
      /\ \/ user = [cloud[u] EXCEPT !.state = "dead"]
            /\ cloud' = [cloud EXCEPT ![u].state = "dead"]
         \/ user = [cloud[u] EXCEPT !.name = x]
         \/ user = [cloud[u] EXCEPT !.tags = x]
         \/ user = [cloud[u] EXCEPT !.key = x]
  BY DEF TypeOK, Live
<1>2. cloud[u] # NoUser
  BY <1>1 DEF NoUser
<1> HIDE DEF user
<1>3. /\ user.owner = cloud[u].owner
      /\ \/ user.state = "live"
         \/ user.state = "dead" /\ cloud' = [cloud EXCEPT ![u].state = "dead"]
  BY <1>1, <1>2 DEF Users
<1>4. MadeStays
  <2>1. \A v \in lost : v \in UserIDs /\ cloud[v].state # "free"
    BY DEF TypeOK, Mandate
  <2>2. QED
    BY <1>1, <1>3, <2>1 DEF MadeStays, Made, user
<1>5. CASE user.state = "live"
  BY <1>1, <1>3, <1>4, <1>5 DEF Owned, Live, user
<1>6. CASE user.state = "dead" /\ cloud' = [cloud EXCEPT ![u].state = "dead"]
  <2>1. \A q \in Resources : Owned(q)' = Owned(q) \ {u}
    BY <1>1, <1>6 DEF Owned, Live, user
  <2>2. QED
    BY <1>4, <1>6, <2>1
<1>7. QED
  BY <1>3, <1>5, <1>6

\* What creating the user n does to the users of the resources, if the call answers
\* and if it does not.
LEMMA UserMade ==
    ASSUME TypeOK, Mandate, NEW r \in Resources, NEW spec, NEW n \in UserIDs, NEW key,
           NewUser(r, spec, n, key),
           UNCHANGED lost \/ lost' = lost \cup {n}
    PROVE  /\ MadeStays
           /\ UNCHANGED lost =>
                /\ n \in Made(r)'
                /\ Owned(r)' \subseteq Owned(r) \cup {n} /\ Owned(r) \subseteq Owned(r)'
                /\ \A q \in Resources : q # r => Owned(q)' = Owned(q)
           /\ lost' = lost \cup {n} => \A q \in Resources : Owned(q)' = Owned(q)
<1>1. /\ cloud[n].state = "free" /\ cloud'[n].owner = r /\ cloud'[n].state = "live"
      /\ \A v \in UserIDs : v # n => cloud'[v] = cloud[v]
  BY DEF NewUser, TypeOK
<1>2. n \notin lost /\ \A v \in lost : v \in UserIDs /\ cloud[v].state # "free"
  BY <1>1 DEF TypeOK, Mandate
<1>3. \A q \in Resources : n \notin Made(q) /\ n \notin Owned(q)
  BY <1>1 DEF Made, Owned, Live
<1>4. \A q \in Resources : Made(q) \subseteq Made(q)'
  BY <1>1, <1>3 DEF Made
<1>5. MadeStays
  BY <1>1, <1>2, <1>4 DEF MadeStays
<1>6. CASE UNCHANGED lost
  BY <1>1, <1>2, <1>3, <1>5, <1>6 DEF Made, Owned, Live
<1>7. CASE lost' = lost \cup {n}
  BY <1>1, <1>2, <1>3, <1>5, <1>7 DEF Made, Owned, Live
<1>8. QED
  BY <1>6, <1>7

\* Create annotates the user it made for the resource.
LEMMA CreateStepMandate ==
    ASSUME TypeOK, Mandate, NEW w \in Workers, NEW r \in Resources,
           \/ CreateSkipped(w, r) \/ CreateUser(w, r) \/ EnsureCredentialsSecret(w, r)
           \/ CreateFails(w, r) \/ CreateAnswerLost(w, r)
    PROVE  Mandate'
<1> DEFINE t == task[w][r]
<1>1. PICK u :
        /\ Goto(w, r, u) /\ u.cur = t.cur
        /\ u.obj.finalizer = t.obj.finalizer
        /\ u.obj.status = t.obj.status
        /\ u.obj.deleting = t.obj.deleting
        /\ u.pc \in {"record", "createSecret"}
        /\ \/ UNCHANGED <<cloud, lost>> /\ u.obj.note = t.obj.note
           \/ /\ t.pc = "create" /\ t.obj.status = None
              /\ \E n \in UserIDs, key \in Keys :
                   /\ NewUser(r, t.obj.spec, n, key)
                   /\ \/ UNCHANGED lost /\ u.obj.note = n
                      \/ lost' = lost \cup {n}
                         /\ u.obj.note = t.obj.note
  BY CreateStepEffect
<1>2. Directed(r, u)
  BY <1>1 DEF Directed, DeleteSteps
<1>3. CASE UNCHANGED <<cloud, lost>> /\ u.obj.note = t.obj.note
  <2>1. MadeStays
    BY <1>3, NobodyMade, SMTT(30)
  <2>2. QED
    BY <1>1, <1>2, <1>3, <2>1, OnwardMandate
<1>4. ASSUME NEW n \in UserIDs, NEW key \in Keys, NewUser(r, t.obj.spec, n, key),
             \/ UNCHANGED lost /\ u.obj.note = n
             \/ lost' = lost \cup {n} /\ u.obj.note = t.obj.note
      PROVE  Mandate'
  <2>1. MadeStays /\ (UNCHANGED lost => n \in Made(r)')
    BY <1>4, UserMade
  <2>2. {u.obj.status, u.obj.note} \subseteq Made(r)' \cup {None, t.obj.status, t.obj.note}
    BY <1>1, <1>4, <2>1
  <2>3. QED
    BY <1>1, <1>2, <2>1, <2>2, OnwardMandate
<1>5. QED
  BY <1>1, <1>3, <1>4

\* Update and Delete change users and make none.
LEMMA UpdateStepMandate ==
    ASSUME TypeOK, Mandate, NEW w \in Workers, NEW r \in Resources,
           \/ UpdateName(w, r) \/ UpdateTags(w, r) \/ UpdateSecret(w, r)
           \/ UserNotFound(w, r) \/ DeleteUser(w, r) \/ DeleteAnswerLost(w, r)
    PROVE  Mandate'
<1> DEFINE t == task[w][r]
<1>1. PICK u : /\ Goto(w, r, u) /\ u.cur = t.cur
               /\ u.obj.finalizer = t.obj.finalizer
               /\ u.obj.creation = t.obj.creation
               /\ u.obj.status = t.obj.status
               /\ u.obj.note = t.obj.note
               /\ u.obj.deleting = t.obj.deleting
               /\ u.pc \in {"status", "updateTags", "updateSecret", "publishUpdated"}
  BY UpdateStepEffect
<1>2. Directed(r, u)
  BY <1>1 DEF Directed, DeleteSteps
<1>3. MadeStays
  <2>1. CASE UNCHANGED <<cloud, lost>>
    BY <2>1, NobodyMade
  <2>2. ASSUME NEW x, UNCHANGED lost, Live(t.obj.status),
               LET n == t.obj.status
               IN  \/ cloud' = [cloud EXCEPT ![n].state = "dead"]
                   \/ cloud' = [cloud EXCEPT ![n].name = x]
                   \/ cloud' = [cloud EXCEPT ![n].tags = x]
        PROVE  MadeStays
    <3>1. t.pc # "idle"
      BY UpdateStepEffect
    <3>2. t.obj.status \in UserIDs
      BY <2>2, <3>1, TaskTypes DEF Live
    <3>3. QED
      BY <2>2, <3>2, UserKept
  <2>3. QED
    BY <2>1, <2>2
       DEF UpdateName, UpdateTags, UpdateSecret, UserNotFound, DeleteUser, DeleteAnswerLost
<1>4. QED
  BY <1>1, <1>2, <1>3, OnwardMandate

\* The users of the resource and of cloudscale.ch: a deletion request is for good.
LEMMA EnvironmentMandate ==
    ASSUME TypeOK, Mandate, Environment
    PROVE  Mandate'
<1>1. ASSUME NEW r \in Resources, UNCHANGED <<cloud, lost>>,
             (\E spec \in Specs : Apply(r, spec) \/ Edit(r, spec)) \/ RequestDeletion(r)
      PROVE  Mandate'
  <2>1. PICK o : /\ Store(r, o)
                 /\ \/ o.phase = "gone"
                    \/ api[r].phase # "gone" /\ (api[r].deleting => o.deleting)
                 /\ o.status \in {None, api[r].status} /\ o.note \in {None, api[r].note}
    <3>1. ASSUME NEW spec \in Specs, Apply(r, spec)
          PROVE  \E o : /\ Store(r, o) /\ o.status = None /\ o.note = None
                        /\ api[r].phase # "gone" /\ (api[r].deleting => o.deleting)
      <4> DEFINE o == [Blank EXCEPT !.phase = "live", !.spec = spec]
      <4>1. Store(r, o) /\ api[r].phase = "new"
        BY <3>1 DEF Apply
      <4>2. ~api[r].deleting
        BY <4>1 DEF TypeOK, ReconcilerType, Lives, LiveObjects, Blank, Gone
      <4>3. o.status = None /\ o.note = None
        BY DEF Blank
      <4> HIDE DEF o
      <4>4. QED
        BY <4>1, <4>2, <4>3
    <3>2. ASSUME NEW o, Store(r, o), api[r].phase = "live",
                 \/ \E spec \in Specs : o = [api[r] EXCEPT !.spec = spec]
                 \/ o = [api[r] EXCEPT !.deleting = TRUE]
          PROVE  /\ Store(r, o) /\ o.status = api[r].status /\ o.note = api[r].note
                 /\ api[r].phase # "gone" /\ (api[r].deleting => o.deleting)
      <4>1. api[r] \in Lives
        BY <3>2, LivePhase DEF TypeOK, Lives
      <4>2. QED
        BY <3>2, <4>1 DEF Lives, LiveObjects
    <3>3. CASE \E spec \in Specs : Edit(r, spec)
      BY <3>2, <3>3 DEF Edit
    <3>4. CASE RequestDeletion(r)
      <4>1. CASE api[r].finalizer
        BY <3>2, <3>4, <4>1 DEF RequestDeletion
      <4>2. CASE ~api[r].finalizer
        BY <3>4, <4>2 DEF RequestDeletion, Gone, Blank
      <4>3. QED
        BY <4>1, <4>2
    <3>5. QED
      BY <1>1, <3>1, <3>3, <3>4
  <2>2. Named(o, Made(r))
    BY <2>1 DEF Mandate, Named
  <2>3. QED
    BY <1>1, <2>1, <2>2, StoreMandate
<1>2. ASSUME UNCHANGED <<api, cache, task>>, MadeStays
      PROVE  Mandate'
  <2>1. ASSUME NEW q \in Resources, NEW v \in Workers
        PROVE  Entitled(q, Made(q)', api'[q], cache'[v][q].obj, task'[v][q])
    <3>1. Entitled(q, Made(q), api[q], cache[v][q].obj, task[v][q])
      BY DEF Mandate
    <3>2. Made(q) \subseteq Made(q)'
      BY <1>2 DEF MadeStays
    <3>3. QED
      BY <1>2, <3>1, <3>2, StillEntitled
  <2>2. \A q \in Resources : Named(api'[q], Made(q)')
    BY <1>2 DEF Mandate, Named, MadeStays
  <2>3. QED
    BY <1>2, <2>1, <2>2, MandateNext
<1>3. ASSUME NEW u \in UserIDs, RemovedOutOfBand(u) \/ \E key : KeysReplaced(u, key)
      PROVE  Mandate'
  <2>1. MadeStays
    BY <1>3, UserKept DEF RemovedOutOfBand, KeysReplaced
  <2>2. QED
    BY <1>2, <1>3, <2>1 DEF RemovedOutOfBand, KeysReplaced
<1>4. ASSUME NEW r \in Resources, SecretRemoved(r) \/ CollectSecret(r)
      PROVE  Mandate'
  BY <1>2, <1>4, NobodyMade DEF SecretRemoved, CollectSecret
<1>5. QED
  BY <1>1, <1>3, <1>4 DEF Environment, Edit

\* Every step keeps the mandate.
LEMMA MandateStep ==
    ASSUME TypeOK, Exclusion, Mandate, [Next]_vars
    PROVE  Mandate'
<1>1. ASSUME NEW w \in Workers, NEW r \in Resources,
             (Sync(w, r) \/ Begin(w, r)) /\ UNCHANGED <<cloud, secret, lost>>
      PROVE  Mandate'
  BY <1>1, OperatorMandate
<1>2. ASSUME NEW w \in Workers, NEW r \in Resources, Progress(w, r)
      PROVE  Mandate'
  BY <1>2, OperatorMandate, ObserveStepMandate, CreateStepMandate, UpdateStepMandate
     DEF Progress
<1>3. ASSUME NEW w \in Workers, NEW r \in Resources, Failure(w, r)
      PROVE  Mandate'
  BY <1>3, OperatorMandate, ObserveStepMandate, CreateStepMandate, UpdateStepMandate, SMTT(30)
     DEF Failure
<1>4. CASE UNCHANGED vars
  BY <1>4 DEF vars, Mandate, Made, Entitled, Named, Asked, Directed
<1>5. QED
  BY <1>1, <1>2, <1>3, <1>4, EnvironmentMandate DEF Next

\* At first there are no users and nothing is running.
LEMMA MandateInit == Init => Mandate
<1> SUFFICES ASSUME Init PROVE Mandate
  OBVIOUS
<1>1. /\ Blank.status = None /\ Blank.note = None /\ ~Blank.deleting
      /\ Idle.obj = Blank /\ Idle.pc = "idle" /\ Idle.cur = FALSE
  BY DEF Blank, Idle
<1>2. ASSUME NEW r \in Resources, NEW w \in Workers
      PROVE  Entitled(r, Made(r), Blank, Blank, Idle) /\ Named(Blank, Made(r))
  BY <1>1 DEF Entitled, Named, Asked, Directed, DeleteSteps
<1>3. /\ lost = {}
      /\ \A r \in Resources :
           /\ api[r] = Blank
           /\ \A w \in Workers : cache[w][r].obj = Blank /\ task[w][r] = Idle
  BY DEF Init, ReconcilerInit
<1>4. \A r \in Resources : Named(Blank, Made(r))
  BY <1>1 DEF Named
<1>5. QED
  BY <1>2, <1>3, <1>4 DEF Mandate

\* The users that anything is done to are the ones made for the resource, and requests
\* for deletion are those of its user: for instances with copies of any age.
THEOREM MandateAlways == Spec => []Mandate
<1>1. TypeOK /\ Exclusion /\ Mandate /\ [Next]_vars => Mandate'
  BY MandateStep
<1>2. QED
  BY <1>1, MandateInit, ExclusionHolds, PTL DEF Spec

\* The user in the status of a reconcile about to delete it is one of the resource's,
\* which is being deleted and not to be orphaned.
LEMMA AboutToDelete ==
    ASSUME TypeOK, Ownership, Mandate, NEW w \in Workers, NEW r \in Resources,
           task[w][r].pc = "delete", Live(task[w][r].obj.status)
    PROVE  /\ task[w][r].obj.status \in Owned(r) /\ r \notin Orphans
           /\ api[r].phase = "live" /\ api[r].deleting
<1> DEFINE t == task[w][r]
           n == t.obj.status
<1>1. /\ Named(t.obj, Made(r)) /\ Asked(t.obj, api[r]) /\ Directed(r, t)
      /\ Stored(r, api[r], Owned(r))
  BY DEF Mandate, Entitled, Ownership
<1>2. n \in Owned(r)
  BY <1>1 DEF Named, Made, Owned, Live
<1>3. r \notin Orphans /\ t.obj.deleting
  BY <1>1 DEF Directed, DeleteSteps
<1>4. api[r].phase = "live"
  BY <1>1, <1>2, <1>3 DEF Stored
<1>5. api[r].deleting
  BY <1>1, <1>3, <1>4 DEF Asked
<1>6. QED
  BY <1>2, <1>3, <1>4, <1>5

\* A reconcile deletes a user only for the resource that made it, which is being
\* deleted then and not to be orphaned, however old the copy is that it goes by.
THEOREM DeletedOnRequest == Spec => DeletedOnlyOnRequest
<1>1. TypeOK /\ Ownership /\ Mandate /\ [Next]_vars =>
        [\A w \in Workers, r \in Resources :
            DeleteUser(w, r) \/ DeleteAnswerLost(w, r)
                => api[r].deleting /\ r \notin Orphans
                   /\ cloud[task[w][r].obj.status].owner = r]_vars
  <2> SUFFICES ASSUME TypeOK, Ownership, Mandate, NEW w \in Workers, NEW r \in Resources,
                      DeleteUser(w, r) \/ DeleteAnswerLost(w, r)
               PROVE  api[r].deleting /\ r \notin Orphans
                      /\ cloud[task[w][r].obj.status].owner = r
    OBVIOUS
  <2>1. task[w][r].pc = "delete" /\ Live(task[w][r].obj.status)
    BY DEF DeleteUser, DeleteAnswerLost
  <2>2. QED
    BY <2>1, AboutToDelete DEF Owned
<1>2. QED
  BY <1>1, OwnershipHolds, MandateAlways, PTL DEF Spec, DeletedOnlyOnRequest

------------------------------------------------------------------------------
(* The controller implements ExternalResource. *)

\* The abstract step, from what happens to each resource.
LEMMA AbstractStep ==
    ASSUME \/ /\ UNCHANGED mishaps
              /\ \A q \in Resources : Wish(q)' = Wish(q) /\ Owned(q)' = Owned(q)
           \/ /\ mishaps' = mishaps + 1
              /\ \A q \in Resources : Wish(q)' = Wish(q)
              /\ \/ \A q \in Resources : Owned(q)' = Owned(q)
                 \/ \E r \in Resources :
                       /\ Owned(r)' = {}
                       /\ \A q \in Resources : q # r => Owned(q)' = Owned(q)
           \/ \E r \in Resources :
                 /\ UNCHANGED mishaps
                 /\ \A q \in Resources : Owned(q)' = Owned(q)
                 /\ \A q \in Resources : q # r => Wish(q)' = Wish(q)
                 /\ \/ Wish(r) = "new" /\ Wish(r)' = "live"
                    \/ Wish(r) = "live" /\ Wish(r)' = "deleting"
                    \/ /\ Wish(r) \in {"live", "deleting"} /\ Wish(r)' = "gone"
                       /\ Owned(r) = {} \/ (Wish(r) = "deleting" /\ r \in Orphans)
           \/ \E r \in Resources :
                 /\ UNCHANGED mishaps
                 /\ \A q \in Resources : Wish(q)' = Wish(q)
                 /\ \A q \in Resources : q # r => Owned(q)' = Owned(q)
                 /\ \/ /\ Owned(r) = {} /\ \E n \in UserIDs : Owned(r)' = {n}
                       /\ \/ Wish(r) \in {"live", "deleting"}
                          \/ Wish(r) = "gone" /\ r \in Orphans
                    \/ Wish(r) = "deleting" /\ r \notin Orphans /\ Owned(r)' = {}
    PROVE  [External!Next]_(External!vars)
<1> DEFINE wishes == [r \in Resources |-> Wish(r)]
           owned == [r \in Resources |-> Owned(r)]
<1>1. /\ \A r \in Resources : wishes[r] = Wish(r) /\ owned[r] = Owned(r)
      /\ \A r \in Resources : wishes'[r] = Wish(r)' /\ owned'[r] = Owned(r)'
      /\ wishes = [r \in Resources |-> wishes[r]]
      /\ wishes' = [r \in Resources |-> wishes'[r]]
      /\ owned = [r \in Resources |-> owned[r]]
      /\ owned' = [r \in Resources |-> owned'[r]]
  OBVIOUS
<1>2. /\ External!vars = <<wishes, owned, mishaps>>
      /\ External!vars' = <<wishes', owned', mishaps'>>
  BY DEF External!vars
<1>3. \A r \in Resources :
        /\ External!Ask(r) <=>
             /\ wishes[r] = "new" /\ wishes' = [wishes EXCEPT ![r] = "live"]
             /\ owned' = owned /\ mishaps' = mishaps
        /\ External!Withdraw(r) <=>
             /\ wishes[r] = "live" /\ wishes' = [wishes EXCEPT ![r] = "deleting"]
             /\ owned' = owned /\ mishaps' = mishaps
        /\ External!Provision(r) <=>
             /\ owned[r] = {}
             /\ \/ wishes[r] \in {"live", "deleting"}
                \/ wishes[r] = "gone" /\ r \in Orphans
             /\ \E x \in UserIDs : owned' = [owned EXCEPT ![r] = {x}]
             /\ wishes' = wishes /\ mishaps' = mishaps
        /\ External!Deprovision(r) <=>
             /\ wishes[r] = "deleting" /\ r \notin Orphans
             /\ owned' = [owned EXCEPT ![r] = {}]
             /\ wishes' = wishes /\ mishaps' = mishaps
        /\ External!Release(r) <=>
             /\ wishes[r] \in {"live", "deleting"}
             /\ \/ owned[r] = {}
                \/ wishes[r] = "deleting" /\ r \in Orphans
             /\ wishes' = [wishes EXCEPT ![r] = "gone"]
             /\ owned' = owned /\ mishaps' = mishaps
  BY DEF External!Ask, External!Withdraw, External!Provision, External!Deprovision,
         External!Release
<1>4. External!Fault <=>
        /\ mishaps' = mishaps + 1
        /\ owned' = owned \/ \E r \in Resources : owned' = [owned EXCEPT ![r] = {}]
        /\ wishes' = wishes
  BY DEF External!Fault
<1> HIDE DEF wishes, owned
<1>5. /\ (\A q \in Resources : Wish(q)' = Wish(q)) => wishes' = wishes
      /\ (\A q \in Resources : Owned(q)' = Owned(q)) => owned' = owned
      /\ \A x : \A r \in Resources :
           /\ Wish(r)' = x /\ (\A q \in Resources : q # r => Wish(q)' = Wish(q))
                => wishes' = [wishes EXCEPT ![r] = x]
           /\ Owned(r)' = x /\ (\A q \in Resources : q # r => Owned(q)' = Owned(q))
                => owned' = [owned EXCEPT ![r] = x]
  BY <1>1
<1>6. CASE /\ UNCHANGED mishaps
           /\ \A q \in Resources : Wish(q)' = Wish(q) /\ Owned(q)' = Owned(q)
  BY <1>2, <1>5, <1>6
<1>7. CASE /\ mishaps' = mishaps + 1
           /\ \A q \in Resources : Wish(q)' = Wish(q)
           /\ \/ \A q \in Resources : Owned(q)' = Owned(q)
              \/ \E r \in Resources :
                    /\ Owned(r)' = {}
                    /\ \A q \in Resources : q # r => Owned(q)' = Owned(q)
  <2>1. External!Fault
    BY <1>4, <1>5, <1>7
  <2>2. QED
    BY <2>1 DEF External!Next
<1>8. ASSUME NEW r \in Resources,
             /\ UNCHANGED mishaps
             /\ \A q \in Resources : Owned(q)' = Owned(q)
             /\ \A q \in Resources : q # r => Wish(q)' = Wish(q)
             /\ \/ Wish(r) = "new" /\ Wish(r)' = "live"
                \/ Wish(r) = "live" /\ Wish(r)' = "deleting"
                \/ /\ Wish(r) \in {"live", "deleting"} /\ Wish(r)' = "gone"
                   /\ Owned(r) = {} \/ (Wish(r) = "deleting" /\ r \in Orphans)
      PROVE  External!Next
  <2>1. External!Ask(r) \/ External!Withdraw(r) \/ External!Release(r)
    BY <1>1, <1>3, <1>5, <1>8
  <2>2. QED
    BY <2>1 DEF External!Next
<1>9. ASSUME NEW r \in Resources,
             /\ UNCHANGED mishaps
             /\ \A q \in Resources : Wish(q)' = Wish(q)
             /\ \A q \in Resources : q # r => Owned(q)' = Owned(q)
             /\ \/ /\ Owned(r) = {} /\ \E n \in UserIDs : Owned(r)' = {n}
                   /\ \/ Wish(r) \in {"live", "deleting"}
                      \/ Wish(r) = "gone" /\ r \in Orphans
                \/ Wish(r) = "deleting" /\ r \notin Orphans /\ Owned(r)' = {}
      PROVE  External!Next
  <2>1. External!Provision(r) \/ External!Deprovision(r)
    BY <1>1, <1>3, <1>5, <1>9
  <2>2. QED
    BY <2>1 DEF External!Next
<1>10. QED
  BY <1>6, <1>7, <1>8, <1>9

\* What has to hold for a step to be one of the abstract life cycle.
Provided == TypeOK /\ Exclusion /\ Ownership /\ Mandate

\* A mishap counts.
LEMMA MishapCounts == ASSUME Mishap PROVE mishaps' = mishaps + 1
BY DEF Mishap

LEMMA SameWish ==
    ASSUME NEW q \in Resources, api'[q].phase = api[q].phase, api'[q].deleting = api[q].deleting
    PROVE  Wish(q)' = Wish(q)
BY DEF Wish

\* A step that leaves the resources and their users alone is nothing to see.
LEMMA SameAbstract ==
    ASSUME api' = api, \A q \in Resources : Owned(q)' = Owned(q),
           UNCHANGED mishaps \/ Mishap
    PROVE  [External!Next]_(External!vars)
<1>1. \A q \in Resources : Wish(q)' = Wish(q)
  BY SameWish
<1>2. QED
  BY <1>1, MishapCounts, AbstractStep

\* A reconcile that goes on without a write or a call that has an effect.
LEMMA GotoAbstract ==
    ASSUME TypeOK, NEW w \in Workers, NEW r \in Resources, NEW u, Goto(w, r, u),
           UNCHANGED <<cloud, lost>>, UNCHANGED mishaps \/ Mishap
    PROVE  [External!Next]_(External!vars)
<1>1. api' = api
  BY GotoEffect DEF TypeOK
<1>2. \A q \in Resources : Owned(q)' = Owned(q)
  BY DEF Owned, Live
<1>3. QED
  BY <1>1, <1>2, SameAbstract

\* Create makes a user for a resource that has none and is there, or may leave it
\* behind; a user whose create call does not answer does not count.
LEMMA CreateAbstract ==
    ASSUME Provided, NEW w \in Workers, NEW r \in Resources,
           \/ CreateSkipped(w, r) \/ CreateUser(w, r) \/ EnsureCredentialsSecret(w, r)
           \/ CreateFails(w, r) \/ CreateAnswerLost(w, r)
    PROVE  [External!Next]_(External!vars)
<1> DEFINE t == task[w][r]
<1>1. TypeOK /\ Mandate
  BY DEF Provided
<1>2. CASE CreateSkipped(w, r) \/ EnsureCredentialsSecret(w, r) \/ CreateFails(w, r)
  BY <1>1, <1>2, GotoAbstract DEF CreateSkipped, EnsureCredentialsSecret, CreateFails
<1>3. CASE CreateAnswerLost(w, r)
  <2>1. PICK n \in UserIDs, key \in Keys :
             NewUser(r, t.obj.spec, n, key) /\ lost' = lost \cup {n}
    BY <1>3 DEF CreateAnswerLost
  <2>2. \A q \in Resources : Owned(q)' = Owned(q)
    BY <1>1, <2>1, UserMade
  <2>3. Mishap /\ api' = api
    BY <1>3 DEF CreateAnswerLost, Goto
  <2>4. QED
    BY <2>2, <2>3, SameAbstract
<1>4. CASE CreateUser(w, r)
  <2>1. t.pc = "create" /\ UNCHANGED <<mishaps, lost>> /\ api' = api
    BY <1>4, ZenonT(40) DEF CreateUser, Goto
  <2>2. PICK n \in UserIDs, key \in Keys : NewUser(r, t.obj.spec, n, key)
    BY <1>4 DEF CreateUser
  <2>3. /\ Owned(r)' \subseteq Owned(r) \cup {n}
        /\ \A q \in Resources : q # r => Owned(q)' = Owned(q)
    BY <1>1, <2>1, <2>2, UserMade
  <2>4. Seen(t, Owned(r)) /\ Known(r, t, api[r])
    BY DEF Provided, Ownership
  <2>5. Owned(r) = {}
    BY <2>1, <2>4 DEF Seen
  <2>6. Wish(r) \in {"live", "deleting"} \/ (Wish(r) = "gone" /\ r \in Orphans)
    BY <2>1, <2>4 DEF Known, CreateSteps, Wish
  <2>7. \A q \in Resources : Wish(q)' = Wish(q)
    BY <2>1, SameWish
  <2>8. CASE Owned(r)' = {}
    <3>1. \A q \in Resources : Owned(q)' = Owned(q)
      BY <2>3, <2>5, <2>8
    <3>2. QED
      BY <2>1, <3>1, SameAbstract
  <2>9. CASE Owned(r)' = {n}
    BY <2>1, <2>3, <2>5, <2>6, <2>7, <2>9, AbstractStep
  <2>10. QED
    BY <2>3, <2>5, <2>8, <2>9
<1>5. QED
  BY <1>2, <1>3, <1>4

\* Delete removes the user of a resource that is being deleted; the other calls for
\* an existing user leave it there.
LEMMA UpdateAbstract ==
    ASSUME Provided, NEW w \in Workers, NEW r \in Resources,
           \/ UpdateName(w, r) \/ UpdateTags(w, r) \/ UpdateSecret(w, r)
           \/ UserNotFound(w, r) \/ DeleteUser(w, r) \/ DeleteAnswerLost(w, r)
    PROVE  [External!Next]_(External!vars)
<1> DEFINE t == task[w][r]
           n == t.obj.status
<1>1. TypeOK /\ Mandate /\ Ownership
  BY DEF Provided
<1>2. CASE UpdateSecret(w, r) \/ UserNotFound(w, r)
  BY <1>1, <1>2, GotoAbstract DEF UpdateSecret, UserNotFound
<1>3. CASE UpdateName(w, r) \/ UpdateTags(w, r)
  <2>1. Live(n) /\ t.pc # "idle" /\ UNCHANGED <<mishaps, lost>> /\ api' = api
    BY <1>3 DEF UpdateName, UpdateTags, Goto
  <2>2. n \in UserIDs
    BY <1>1, <2>1, TaskTypes DEF Live
  <2>3. PICK x : \/ cloud' = [cloud EXCEPT ![n].name = x]
                 \/ cloud' = [cloud EXCEPT ![n].tags = x]
    BY <1>3, ZenonT(40) DEF UpdateName, UpdateTags
  <2>4. \A q \in Resources : Owned(q)' = Owned(q)
    <3> DEFINE user == cloud[n]
    <3>1. /\ user \in Users /\ user.state = "live"
          /\ \A v \in UserIDs : v # n => cloud'[v] = cloud[v]
          /\ cloud'[n] = [user EXCEPT !.name = x] \/ cloud'[n] = [user EXCEPT !.tags = x]
      BY <1>1, <2>1, <2>2, <2>3 DEF TypeOK, Live
    <3> HIDE DEF user
    <3>2. user # NoUser
      BY <3>1 DEF NoUser
    <3>3. cloud'[n].state = user.state /\ cloud'[n].owner = user.owner
      BY <3>1, <3>2 DEF Users
    <3>4. QED
      BY <2>1, <2>2, <3>1, <3>3, ZenonT(40) DEF Owned, Live, user
  <2>5. QED
    BY <2>1, <2>4, SameAbstract
<1>4. CASE DeleteUser(w, r) \/ DeleteAnswerLost(w, r)
  <2>1. /\ t.pc = "delete" /\ Live(n) /\ cloud' = [cloud EXCEPT ![n].state = "dead"]
        /\ UNCHANGED lost /\ api' = api
    BY <1>4 DEF DeleteUser, DeleteAnswerLost, Goto
  <2>2. /\ n \in Owned(r) /\ r \notin Orphans
        /\ api[r].phase = "live" /\ api[r].deleting
    BY <1>1, <2>1, AboutToDelete
  <2>3. Wish(r) = "deleting" /\ \A q \in Resources : Wish(q)' = Wish(q)
    BY <2>1, <2>2, SameWish DEF Wish
  <2>4. \/ \A q \in Resources : Owned(q)' = Owned(q)
        \/ \A q \in Resources : Owned(q)' = Owned(q) \ {n}
    BY <1>1, <2>1, <2>2, UserKept DEF Owned
  <2>5. UNCHANGED mishaps \/ Mishap
    BY <1>4 DEF DeleteUser, DeleteAnswerLost
  <2>6. CASE \A q \in Resources : Owned(q)' = Owned(q)
    BY <2>1, <2>5, <2>6, SameAbstract
  <2>7. CASE \A q \in Resources : Owned(q)' = Owned(q) \ {n}
    <3>1. Stored(r, api[r], Owned(r))
      BY <1>1 DEF Ownership
    <3>2. Owned(r)' = {}
      BY <2>2, <2>7, <3>1 DEF Stored
    <3>3. \A q \in Resources : q # r => Owned(q)' = Owned(q)
      BY <2>2, <2>7 DEF Owned
    <3>4. CASE UNCHANGED mishaps
      BY <2>2, <2>3, <3>2, <3>3, <3>4, AbstractStep
    <3>5. CASE Mishap
      BY <2>3, <3>2, <3>3, <3>5, MishapCounts, AbstractStep
    <3>6. QED
      BY <2>5, <3>4, <3>5
  <2>8. QED
    BY <2>4, <2>6, <2>7, SMTT(30)
<1>5. QED
  BY <1>2, <1>3, <1>4

\* The steps of the reconciler: the managed resource goes when its user is gone, or is
\* to be left behind.
LEMMA OperatorAbstract ==
    ASSUME Provided, NEW w \in Workers, NEW r \in Resources,
           \/ Sync(w, r) \/ Begin(w, r) \/ ReconcilerStep(w, r)
           \/ CallFails(w, r, Calls) \/ Abandon(w, r),
           UNCHANGED <<cloud, lost>>
    PROVE  [External!Next]_(External!vars)
<1> DEFINE t == task[w][r]
<1>1. /\ TypeOK /\ \A q \in Resources : Owned(q)' = Owned(q)
      /\ Entitled(r, Made(r), api[r], cache[w][r].obj, t)
  BY DEF Provided, Mandate, Owned, Live
<1>2. CASE Sync(w, r)
  BY <1>1, <1>2, SameAbstract DEF Sync
<1>3. CASE Begin(w, r) \/ Conflict(w, r) \/ CallFails(w, r, Calls) \/ Abandon(w, r)
  BY <1>1, <1>3, GotoAbstract DEF Begin, Conflict, CallFails, Abandon
<1>4. ASSUME NEW o, NEW u, Save(w, r, o, u), UNCHANGED mishaps,
             o.phase = api[r].phase, o.deleting = api[r].deleting
      PROVE  [External!Next]_(External!vars)
  <2>1. \A q \in Resources : api'[q] = IF q = r THEN o ELSE api[q]
    BY <1>1, <1>4, SaveEffect DEF TypeOK
  <2>2. \A q \in Resources : Wish(q)' = Wish(q)
    BY <1>4, <2>1, SameWish
  <2>3. QED
    BY <1>1, <1>4, <2>2, AbstractStep
<1>5. CASE AddFinalizer(w, r)
  <2>1. \E o, u : /\ Save(w, r, o, u) /\ o.phase = "live" /\ o.deleting = t.obj.deleting
    BY <1>1, <1>5, StepsType, AddFinalizerEffect DEF TypeOK, Lives
  <2>2. t.cur /\ api[r].phase = "live" /\ UNCHANGED mishaps
    BY <1>5 DEF AddFinalizer, WriteAccepted
  <2>3. QED
    BY <1>1, <1>4, <2>1, <2>2 DEF Entitled
<1>6. CASE MarkPending(w, r)
  <2>1. \E o, u : /\ Save(w, r, o, u) /\ o.phase = "live" /\ o.deleting = t.obj.deleting
    BY <1>1, <1>6, StepsType, MarkPendingEffect DEF TypeOK, Lives
  <2>2. t.cur /\ api[r].phase = "live" /\ UNCHANGED mishaps
    BY <1>6 DEF MarkPending, WriteAccepted
  <2>3. QED
    BY <1>1, <1>4, <2>1, <2>2 DEF Entitled
<1>7. CASE RecordCreation(w, r)
  <2>1. api[r].phase = "live" /\ UNCHANGED mishaps
    BY <1>7 DEF RecordCreation
  <2> DEFINE o == [api[r] EXCEPT !.creation = t.obj.creation,
                                 !.note = IF t.obj.note = None THEN @ ELSE t.obj.note]
  <2>2. \E u : Save(w, r, o, u)
    BY <1>7 DEF RecordCreation
  <2>3. api[r] \in Lives
    BY <1>1, <2>1, LivePhase DEF TypeOK, Lives
  <2>4. o.phase = api[r].phase /\ o.deleting = api[r].deleting
    BY <2>3 DEF Lives, LiveObjects
  <2> HIDE DEF o
  <2>5. QED
    BY <1>4, <2>1, <2>2, <2>4
<1>8. CASE WriteStatus(w, r)
  <2>1. api[r].phase = "live" /\ UNCHANGED mishaps
    BY <1>8 DEF WriteStatus, WriteAccepted
  <2>2. \E o : /\ Save(w, r, o, Idle) /\ o.phase = "live" /\ o.deleting = api[r].deleting
    BY <1>1, <1>8, EndEffect DEF TypeOK, Lives
  <2>3. QED
    BY <1>4, <2>1, <2>2
<1>9. CASE RemoveFinalizer(w, r)
  <2>1. /\ t.pc = "finalize" /\ t.cur /\ api[r].phase = "live"
        /\ Save(w, r, Gone, Idle) /\ UNCHANGED mishaps
    BY <1>9 DEF RemoveFinalizer, WriteAccepted
  <2>2. api[r].deleting
    BY <1>1, <2>1 DEF Entitled, Directed, DeleteSteps
  <2>3. r \in Orphans \/ Owned(r) = {}
    BY <2>1 DEF Provided, Ownership, Sound, Seen
  <2>4. /\ api'[r] = Gone /\ \A q \in Resources : q # r => api'[q] = api[q]
    BY <1>1, <2>1, SaveEffect DEF TypeOK
  <2>5. /\ Wish(r) = "deleting" /\ Wish(r)' = "gone"
        /\ \A q \in Resources : q # r => Wish(q)' = Wish(q)
    BY <2>1, <2>2, <2>4 DEF Wish, Gone, Blank
  <2>6. QED
    BY <1>1, <2>1, <2>3, <2>5, AbstractStep
<1>10. QED
  BY <1>2, <1>3, <1>5, <1>6, <1>7, <1>8, <1>9 DEF ReconcilerStep

\* What happens outside the operator: a resource that goes before it has a finalizer
\* has no user yet.
LEMMA EnvironmentAbstract ==
    ASSUME Provided, Environment
    PROVE  [External!Next]_(External!vars)
<1>1. TypeOK /\ Mandate /\ \A q \in Resources : Stored(q, api[q], Owned(q))
  BY DEF Provided, Ownership
<1>2. ASSUME UNCHANGED <<cloud, lost>>
      PROVE  \A q \in Resources : Owned(q)' = Owned(q)
  BY <1>2 DEF Owned, Live
<1>3. ASSUME NEW r \in Resources, UNCHANGED <<cloud, lost>>,
             (\E spec \in Specs : Apply(r, spec)) \/ RequestDeletion(r)
      PROVE  [External!Next]_(External!vars)
  <2>1. /\ UNCHANGED mishaps
        /\ \A q \in Resources : Owned(q)' = Owned(q)
    BY <1>2, <1>3 DEF Apply, RequestDeletion
  <2>2. PICK o :
          /\ Store(r, o)
          /\ \/ api[r].phase = "new" /\ o.phase = "live" /\ ~o.deleting
             \/ /\ api[r].phase = "live" /\ ~api[r].deleting
                /\ \/ o.phase = "live" /\ o.deleting
                   \/ o = Gone /\ ~api[r].finalizer
    <3>1. CASE \E spec \in Specs : Apply(r, spec)
      BY <1>1, <3>1, UserEffect DEF TypeOK, Lives
    <3>2. CASE RequestDeletion(r)
      BY <1>1, <3>2, UserEffect DEF TypeOK, Lives
    <3>3. QED
      BY <1>3, <3>1, <3>2
  <2>3. /\ api'[r] = o /\ \A q \in Resources : q # r => api'[q] = api[q]
    BY <1>1, <2>2, StoreEffect DEF TypeOK
  <2>4. \A q \in Resources : q # r => Wish(q)' = Wish(q)
    BY <2>3, SameWish
  <2>5. \/ Wish(r) = "new" /\ Wish(r)' = "live"
        \/ Wish(r) = "live" /\ Wish(r)' = "deleting"
        \/ /\ Wish(r) = "live" /\ Wish(r)' = "gone"
           /\ ~api[r].finalizer /\ api[r].phase = "live"
    BY <2>2, <2>3 DEF Wish, Gone, Blank
  <2>6. ~api[r].finalizer /\ api[r].phase = "live" => Owned(r) = {}
    BY <1>1 DEF Stored
  <2>7. QED
    BY <2>1, <2>4, <2>5, <2>6, AbstractStep
<1>4. ASSUME NEW r \in Resources, NEW spec \in Specs, Edit(r, spec)
      PROVE  [External!Next]_(External!vars)
  <2> DEFINE o == [api[r] EXCEPT !.spec = spec]
  <2>1. /\ api[r].phase = "live" /\ Store(r, o) /\ mishaps' = mishaps + 1
        /\ \A q \in Resources : Owned(q)' = Owned(q)
    BY <1>2, <1>4, MishapCounts DEF Edit
  <2>2. api[r] \in Lives
    BY <1>1, <2>1, LivePhase DEF TypeOK, Lives
  <2>3. o.phase = api[r].phase /\ o.deleting = api[r].deleting
    BY <2>2 DEF Lives, LiveObjects
  <2> HIDE DEF o
  <2>4. \A q \in Resources : api'[q] = IF q = r THEN o ELSE api[q]
    BY <1>1, <2>1, StoreEffect DEF TypeOK
  <2>5. \A q \in Resources : Wish(q)' = Wish(q)
    BY <2>3, <2>4, SameWish
  <2>6. QED
    BY <2>1, <2>5, AbstractStep
<1>5. ASSUME NEW u \in UserIDs, RemovedOutOfBand(u) \/ \E key : KeysReplaced(u, key)
      PROVE  [External!Next]_(External!vars)
  <2>1. Mishap /\ api' = api
    BY <1>5 DEF RemovedOutOfBand, KeysReplaced
  <2>2. \/ \A q \in Resources : Owned(q)' = Owned(q)
        \/ \A q \in Resources : Owned(q)' = Owned(q) \ {u}
    BY <1>1, <1>5, UserKept DEF RemovedOutOfBand, KeysReplaced
  <2>3. CASE \A q \in Resources : Owned(q)' = Owned(q)
    BY <2>1, <2>3, SameAbstract
  <2>4. ASSUME NEW r \in Resources, u \in Owned(r),
               \A q \in Resources : Owned(q)' = Owned(q) \ {u}
        PROVE  [External!Next]_(External!vars)
    <3>1. Owned(r)' = {}
      BY <1>1, <2>4 DEF Stored
    <3>2. \A q \in Resources : q # r => Owned(q)' = Owned(q)
      BY <2>4 DEF Owned
    <3>3. \A q \in Resources : Wish(q)' = Wish(q)
      BY <2>1, SameWish
    <3>4. QED
      BY <2>1, <3>1, <3>2, <3>3, MishapCounts, AbstractStep
  <2>5. QED
    BY <2>2, <2>3, <2>4
<1>6. ASSUME NEW r \in Resources, SecretRemoved(r) \/ CollectSecret(r)
      PROVE  [External!Next]_(External!vars)
  BY <1>2, <1>6, SameAbstract DEF SecretRemoved, CollectSecret
<1>7. QED
  BY <1>3, <1>4, <1>5, <1>6 DEF Environment

LEMMA NextAbstract ==
    ASSUME Provided, [Next]_vars
    PROVE  [External!Next]_(External!vars)
<1>1. ASSUME NEW w \in Workers, NEW r \in Resources,
             (Sync(w, r) \/ Begin(w, r)) /\ UNCHANGED <<cloud, secret, lost>>
      PROVE  [External!Next]_(External!vars)
  BY <1>1, OperatorAbstract
<1>2. ASSUME NEW w \in Workers, NEW r \in Resources,
             \/ Connect(w, r) \/ ObserveMissing(w, r) \/ ObserveFound(w, r)
             \/ ObserveFails(w, r) \/ Publish(w, r) \/ PublishRefused(w, r)
      PROVE  [External!Next]_(External!vars)
  <2>1. /\ \E u : Goto(w, r, u)
        /\ UNCHANGED <<cloud, lost>>
        /\ UNCHANGED mishaps \/ Mishap
    BY <1>2 DEF Connect, ObserveMissing, ObserveFound, ObserveFails, Publish,
                PublishRefused, Observed
  <2>2. QED
    BY <2>1, GotoAbstract DEF Provided
<1>3. ASSUME NEW w \in Workers, NEW r \in Resources, Progress(w, r)
      PROVE  [External!Next]_(External!vars)
  BY <1>2, <1>3, OperatorAbstract, CreateAbstract, UpdateAbstract DEF Progress
<1>4. ASSUME NEW w \in Workers, NEW r \in Resources, Failure(w, r)
      PROVE  [External!Next]_(External!vars)
  BY <1>2, <1>4, OperatorAbstract, CreateAbstract, UpdateAbstract DEF Failure
<1>5. CASE UNCHANGED vars
  <2>1. api' = api /\ UNCHANGED mishaps /\ \A q \in Resources : Owned(q)' = Owned(q)
    BY <1>5 DEF vars, Owned, Live
  <2>2. QED
    BY <2>1, SameAbstract
<1>6. QED
  BY <1>1, <1>3, <1>4, <1>5, EnvironmentAbstract DEF Next

------------------------------------------------------------------------------
(* For a system that the controller is a part of. *)

\* Nothing is running, the copies are current, and the stored objects account for the
\* users that there are.
LEMMA ProvidedAtRest ==
    ASSUME TypeOK, lost = {},
           \A r \in Resources :
             /\ Stored(r, api[r], Owned(r)) /\ Named(api[r], Made(r))
             /\ \A w \in Workers : cache[w][r].obj = api[r] /\ task[w][r] = Idle
    PROVE  Provided
<1>1. /\ Idle.pc = "idle" /\ Idle.cur = FALSE /\ Idle.obj.creation = "none"
      /\ Idle.obj.status = None /\ Idle.obj.note = None /\ ~Idle.obj.deleting
  BY DEF Idle, Blank
<1>2. Exclusion
  BY <1>1 DEF Exclusion, CreateIsExclusive, CachesAgree, TasksAgree, CreationAnnounced,
              CreationChecked, CreateSteps, BeforeCreate
<1>3. ASSUME NEW r \in Resources, NEW w \in Workers
      PROVE  /\ Sound(r, task[w][r]) /\ Known(r, task[w][r], api[r])
             /\ Seen(task[w][r], Owned(r))
  <2>1. Sound(r, Idle) /\ Known(r, Idle, api[r]) /\ Seen(Idle, Owned(r))
    BY <1>1 DEF Sound, Known, Seen, CreateSteps
  <2>2. QED
    BY <2>1
<1>4. Ownership
  BY <1>3 DEF Ownership
<1>5. ASSUME NEW r \in Resources, NEW w \in Workers
      PROVE  Entitled(r, Made(r), api[r], cache[w][r].obj, task[w][r])
  <2>1. Entitled(r, Made(r), api[r], api[r], Idle)
    BY <1>1 DEF Entitled, Named, Asked, Directed, DeleteSteps
  <2>2. QED
    BY <2>1
<1>6. Mandate
  BY <1>5 DEF Mandate
<1>7. QED
  BY <1>2, <1>4, <1>6 DEF Provided

LEMMA ProvidedStep ==
    ASSUME Provided, [Next]_vars
    PROVE  Provided' /\ [External!Next]_(External!vars)
<1>1. Provided'
  BY TypeStep, ExclusionStep, OwnershipStep, MandateStep DEF Provided
<1>2. QED
  BY <1>1, NextAbstract

\* Whoever writes a Secret leaves one behind: it is only removed or collected.
LEMMA SecretGoes ==
    ASSUME TypeOK, Next, NEW r \in Resources, secret[r] # NoSecret, secret'[r] = NoSecret
    PROVE  SecretRemoved(r) \/ CollectSecret(r)
<1>1. ASSUME NEW q \in Resources, NEW writer \in {"publisher", "controller"}, NEW key,
             PutSecret(q, writer, key)
      PROVE  FALSE
  <2>1. r = q
    BY <1>1 DEF PutSecret, TypeOK
  <2>2. secret[r].origin # "none"
    BY DEF TypeOK, Secrets, NoSecret
  <2>3. secret'[r].origin # "none"
    BY <1>1, <2>1, <2>2 DEF PutSecret, TypeOK
  <2>4. QED
    BY <2>3 DEF NoSecret
<1>2. ASSUME NEW w \in Workers, NEW q \in Resources,
             Publish(w, q) \/ EnsureCredentialsSecret(w, q) \/ UpdateSecret(w, q)
      PROVE  FALSE
  <2>1. task[w][q].pc # "idle"
    BY <1>2 DEF Publish, EnsureCredentialsSecret, UpdateSecret
  <2>2. task[w][q].ctx \in Keys \cup {None}
    BY <2>1, TaskTypes DEF Running
  <2>3. secret' # secret
    OBVIOUS
  <2>4. \E writer \in {"publisher", "controller"}, key \in Keys \cup {None} :
          PutSecret(q, writer, key)
    BY <1>2, <2>2, <2>3
       DEF Publish, EnsureCredentialsSecret, UpdateSecret, ToConnectionDetails
  <2>5. QED
    BY <1>1, <2>4
<1>3. ASSUME NEW w \in Workers, NEW q \in Resources, Progress(w, q) \/ Failure(w, q)
      PROVE  FALSE
  BY <1>2, <1>3
     DEF Progress, Failure, Connect, ObserveMissing, ObserveFound, CreateSkipped,
         CreateUser, UpdateName, UpdateTags, UserNotFound, DeleteUser, ObserveFails,
         CreateFails, CreateAnswerLost, DeleteAnswerLost, PublishRefused
<1>4. ASSUME NEW q \in Resources, SecretRemoved(q) \/ CollectSecret(q)
      PROVE  q = r
  BY <1>4 DEF SecretRemoved, CollectSecret, TypeOK
<1>5. CASE Environment
  BY <1>4, <1>5 DEF Environment, Edit, RemovedOutOfBand, KeysReplaced
<1>6. QED
  BY <1>3, <1>5 DEF Next

\* Mishaps elsewhere count, too.
LEMMA ProvidedAside ==
    ASSUME Provided, UNCHANGED <<api, cache, task, cloud, secret, lost>>,
           mishaps' \in {mishaps, mishaps + 1}, mishaps' \in 0..MaxMishaps
    PROVE  Provided' /\ [External!Next]_(External!vars)
<1>1. TypeOK'
  BY DEF Provided, TypeOK, ReconcilerType
<1>2. Exclusion'
  BY DEF Provided, Exclusion, CreateIsExclusive, CachesAgree, TasksAgree,
         CreationAnnounced, CreationChecked
<1>3. Ownership'
  BY DEF Provided, Ownership, Owned, Live, Stored, Sound, Known, Seen
<1>4. Mandate'
  BY DEF Provided, Mandate, Made, Entitled, Named, Asked, Directed
<1>5. [External!Next]_(External!vars)
  <2>1. \A q \in Resources : Wish(q)' = Wish(q) /\ Owned(q)' = Owned(q)
    BY DEF Wish, Owned, Live
  <2>2. QED
    BY <2>1, AbstractStep
<1>6. QED
  BY <1>1, <1>2, <1>3, <1>4, <1>5 DEF Provided

\* A delete call that is refused is an error, and all that it changes is the reconcile.
LEMMA RefusedDelete ==
    ASSUME Provided, NEW w \in Workers, NEW r \in Resources, task[w][r].pc = "delete",
           Goto(w, r, OnError(task[w][r])), UNCHANGED <<mishaps, cloud, secret, lost>>
    PROVE  Provided' /\ [External!Next]_(External!vars)
<1> DEFINE t == task[w][r]
           u == OnError(t)
<1>1. TypeOK /\ t \in Running(Steps, Lives, Keys)
  BY TaskTypes DEF Provided
<1>2. u \in Running(Steps, Lives, Keys)
  BY <1>1, StepsType, ControlTypes DEF Lives
<1>3. /\ u.pc = "status" /\ u.seen = "unknown" /\ u.cur = t.cur
      /\ u.obj.creation = t.obj.creation /\ u.obj.status = t.obj.status
      /\ u.obj.note = t.obj.note /\ u.obj.deleting = t.obj.deleting
  BY <1>1, ControlEffect DEF Lives
<1> HIDE DEF u
<1>4. TypeOK'
  <2>1. ReconcilerType(Steps, Lives, Keys)'
    BY <1>1, <1>2, GotoKeepsTypes DEF u
  <2>2. QED
    BY <1>1, <2>1 DEF TypeOK
<1>5. Exclusion'
  BY <1>1, ClosedExclusion DEF Provided
<1>6. Ownership'
  <2>1. \A q \in Resources : Owned(q)' \subseteq Owned(q)
    BY NoNewUsers
  <2>2. t.pc \notin CreateSteps
    BY DEF CreateSteps
  <2>3. QED
    BY <1>1, <1>3, <2>1, <2>2, LaterOwnership DEF Provided, u
<1>7. Mandate'
  <2>1. MadeStays
    BY NobodyMade DEF Provided
  <2>2. Directed(r, u)
    BY <1>3 DEF Directed, DeleteSteps
  <2>3. QED
    BY <1>1, <1>3, <2>1, <2>2, OnwardMandate DEF Provided, u
<1>8. [External!Next]_(External!vars)
  BY <1>1, GotoAbstract
<1>9. QED
  BY <1>4, <1>5, <1>6, <1>7, <1>8 DEF Provided

\* The controller implements the life cycle that ExternalResource promises: stale
\* caches, conflicts, crashes, lost answers and users removed at cloudscale.ch do not
\* make it create a second user for a resource, delete one that it was not asked to,
\* or let a resource go before its user.
THEOREM Implements == Spec => ImplementsExternalResource
<1>1. Init => External!Init
  <2> SUFFICES ASSUME Init PROVE External!Init
    OBVIOUS
  <2>1. \A q \in Resources : Wish(q) = "new" /\ Owned(q) = {}
    BY DEF Init, ReconcilerInit, Blank, Wish, Owned, Live, NoUser
  <2>2. QED
    BY <2>1 DEF External!Init, Init, ReconcilerInit
<1>2. Provided /\ [Next]_vars => [External!Next]_(External!vars)
  BY NextAbstract
<1>3. TypeOK /\ Exclusion /\ Ownership /\ Mandate => Provided
  BY DEF Provided
<1>4. QED
  BY <1>1, <1>2, <1>3, OwnershipHolds, MandateAlways, PTL
     DEF Spec, External!Spec, ImplementsExternalResource

================================================================================
