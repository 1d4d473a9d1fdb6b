----------------------------- MODULE ProviderConfig -----------------------------
(***************************************************************************)
(* ProviderConfigs and their use.  An ObjectsUser needs the API token that *)
(* its ProviderConfig points to, for its deletion too.  So Connect of the  *)
(* ObjectsUser controller leaves a ProviderConfigUsage behind              *)
(* (operator/objectsusercontroller/connector.go), and the controller that  *)
(* operator/configcontroller sets up, with the reconciler of               *)
(* crossplane-runtime, counts the usages and keeps a finalizer on the      *)
(* ProviderConfig while there are any.                                     *)
(*                                                                         *)
(* Of an ObjectsUser only what needs the token is here: once connected, a  *)
(* reconcile makes its external user, deletes it, or removes the           *)
(* finalizer, in one step (module ObjectsUser has the rest).  As in        *)
(* ManagedReconciler, a copy of a ProviderConfig carries a flag cur: no    *)
(* write changed the stored object since the copy was read.                *)
(***************************************************************************)
EXTENDS Naturals, FiniteSets

CONSTANTS
    Configs,        \* names of ProviderConfigs
    Users,          \* ObjectsUsers; each element is one lifetime (UID)
    Workers,        \* operator instances
    None,           \* the absent value
    MaxMishaps      \* bound on failed calls, crashes and outside interventions

ASSUME ProviderConfigAssumption ==
    MaxMishaps \in Nat /\ IsFiniteSet(Users) /\ None \notin Configs

VARIABLES
    config,         \* config[c]: the ProviderConfig as stored
    token,          \* token[c]: the Secret it references holds an API token
    user,           \* user[u]: the ObjectsUser as stored, and its external user
    usage,          \* usage[u]: the config in the ProviderConfigUsage of u
    configCache,    \* configCache[w][c]: the copy in the informer cache of w
    usageCache,     \* usageCache[w][u]: likewise for usages
    queue,          \* queue[w]: ProviderConfigs that w is to reconcile
    count,          \* count[w]: the reconcile of a ProviderConfig by w
    task,           \* task[w][u]: how far w is with connecting u
    settled,        \* ghost: settled[c]: the users that the deletion has to await
    mishaps

configVars == <<config, configCache, queue, count, settled>>
userVars == <<token, user, usage, task>>
vars == <<configVars, userVars, usageCache, mishaps>>

------------------------------------------------------------------------------
(* Types *)

\* Before it is applied and after it is removed.
NewConfig == [phase |-> "new", deleting |-> FALSE, finalizer |-> FALSE, users |-> 0]

GoneConfig == [NewConfig EXCEPT !.phase = "gone"]

ProviderConfigs == {NewConfig, GoneConfig} \cup
    [phase: {"live"}, deleting: BOOLEAN, finalizer: BOOLEAN,
     users: 0..Cardinality(Users)]      \* status.users

Absent == [phase |-> "new", deleting |-> FALSE, finalizer |-> FALSE,
           ref |-> None, made |-> FALSE]

Released == [Absent EXCEPT !.phase = "gone"]

\* made: the external user exists.
ObjectsUsers == {Absent, Released} \cup
    [phase: {"live"}, deleting: BOOLEAN, finalizer: BOOLEAN, ref: Configs,
     made: BOOLEAN]

Idle == [pc |-> "idle", ref |-> None]

Connecting == [pc: {"config", "token", "connected"}, ref: Configs]

\* Of a copy in a cache only this decides anything.
Copy(o) == [phase |-> o.phase, deleting |-> o.deleting, cur |-> TRUE]

Copies == [phase: {"new", "live", "gone"}, deleting: BOOLEAN, cur: BOOLEAN]

NotCounting == [pc |-> "idle", config |-> None, deleting |-> FALSE, cur |-> FALSE,
                users |-> 0]

Counting ==
    [pc: {"list", "addFinalizer", "finalize", "status"}, config: Configs,
     deleting: BOOLEAN, cur: BOOLEAN, users: 0..Cardinality(Users)]

TypeOK ==
    /\ config \in [Configs -> ProviderConfigs]
    /\ token \in [Configs -> BOOLEAN]
    /\ user \in [Users -> ObjectsUsers]
    /\ usage \in [Users -> Configs \cup {None}]
    /\ configCache \in [Workers -> [Configs -> Copies]]
    /\ usageCache \in [Workers -> [Users -> Configs \cup {None}]]
    /\ queue \in [Workers -> SUBSET Configs]
    /\ count \in [Workers -> {NotCounting} \cup Counting]
    /\ task \in [Workers -> [Users -> {Idle} \cup Connecting]]
    /\ settled \in [Configs -> SUBSET Users]
    /\ mishaps \in 0..MaxMishaps

Init ==
    /\ config = [c \in Configs |-> NewConfig]
    /\ token = [c \in Configs |-> TRUE]
    /\ user = [u \in Users |-> Absent]
    /\ usage = [u \in Users |-> None]
    /\ configCache = [w \in Workers |-> [c \in Configs |-> Copy(NewConfig)]]
    /\ usageCache = [w \in Workers |-> [u \in Users |-> None]]
    /\ queue = [w \in Workers |-> {}]
    /\ count = [w \in Workers |-> NotCounting]
    /\ task = [w \in Workers |-> [u \in Users |-> Idle]]
    /\ settled = [c \in Configs |-> {}]
    /\ mishaps = 0

Mishap == mishaps < MaxMishaps /\ mishaps' = mishaps + 1

UsersOf(c) == {u \in Users : usage[u] = c}

------------------------------------------------------------------------------
(* Writing to the API server. *)

\* The copies of c are outdated unless o is what is stored.
Outdated(c, o) == [w \in Workers |-> [configCache[w] EXCEPT ![c].cur = @ /\ o = config[c]]]

\* A write from outside the controller.
Store(c, o) ==
    /\ config' = [config EXCEPT ![c] = o]
    /\ configCache' = Outdated(c, o)
    /\ count' = [w \in Workers |-> IF count[w].config = c
                    THEN [count[w] EXCEPT !.cur = @ /\ o = config[c]] ELSE count[w]]

\* The controller of w writes o and goes on as t.
Save(w, o, t) ==
    LET c == count[w].config
    IN  /\ count[w].cur /\ config[c].phase = "live"
        /\ config' = [config EXCEPT ![c] = o]
        /\ configCache' = Outdated(c, o)
        /\ count' = [v \in Workers |->
              IF v = w THEN t
              ELSE IF count[v].config = c
                   THEN [count[v] EXCEPT !.cur = @ /\ o = config[c]] ELSE count[v]]

------------------------------------------------------------------------------
(* Connect of an ObjectsUser, step by step.  An error in a step ends the   *)
(* reconcile.                                                              *)

GoOn(w, u, t) == task' = [task EXCEPT ![w][u] = t]

\* The usage is created, or it follows the reference.  Whether there is such a
\* ProviderConfig is not looked at.
TrackProviderConfig(w, u) ==
    /\ task[w][u] = Idle /\ user[u].phase = "live"
    /\ usage' = [usage EXCEPT ![u] = user[u].ref]
    /\ settled' = [c \in Configs |-> IF c = user[u].ref THEN settled[c] ELSE settled[c] \ {u}]
    /\ GoOn(w, u, [pc |-> "config", ref |-> user[u].ref])
    /\ UNCHANGED <<config, configCache, queue, count, token, user, usageCache, mishaps>>

\* Mutant: a ProviderConfig that is being deleted does not do.
FetchProviderConfig_Refuses(w, u) ==
    LET t == task[w][u]
        copy == configCache[w][t.ref]
    IN  /\ t.pc = "config"
        /\ GoOn(w, u, IF copy.phase = "live" /\ ~copy.deleting
                      THEN [t EXCEPT !.pc = "token"] ELSE Idle)
        /\ UNCHANGED <<configVars, token, user, usage, usageCache, mishaps>>

\* The ProviderConfig comes from the cache; one that is being deleted will do.
FetchProviderConfig(w, u) ==
    LET t == task[w][u]
    IN  /\ t.pc = "config"
        /\ GoOn(w, u, IF configCache[w][t.ref].phase = "live"
                      THEN [t EXCEPT !.pc = "token"] ELSE Idle)
        /\ UNCHANGED <<configVars, token, user, usage, usageCache, mishaps>>

\* The Secret is fetched and the token is read from it.
ReadApiToken(w, u) ==
    LET t == task[w][u]
    IN  /\ t.pc = "token"
        /\ GoOn(w, u, IF token[t.ref] THEN [t EXCEPT !.pc = "connected"] ELSE Idle)
        /\ UNCHANGED <<configVars, token, user, usage, usageCache, mishaps>>

\* The rest of the reconcile.  The external user is made, or it is deleted, or
\* it is found to be missing and the ObjectsUser is let go.
Manage(w, u) ==
    LET o == user[u]
    IN  /\ task[w][u].pc = "connected"
        /\ user' = [user EXCEPT ![u] =
                      IF o.phase # "live" THEN o
                      ELSE IF o.deleting /\ ~o.made THEN Released
                      ELSE [o EXCEPT !.finalizer = TRUE, !.made = ~o.deleting]]
        /\ GoOn(w, u, Idle)
        /\ UNCHANGED <<configVars, token, usage, usageCache, mishaps>>

\* A call of the reconcile fails.
ReconcileFails(w, u) ==
    /\ task[w][u] # Idle
    /\ Mishap
    /\ GoOn(w, u, Idle)
    /\ UNCHANGED <<configVars, token, user, usage, usageCache>>

------------------------------------------------------------------------------
(* The ProviderConfig controller. *)

\* Mutant: usages are not watched.
EnqueueRequestForProviderConfig_Not(w, cs) == UNCHANGED queue

\* Mutant: a usage that is new has no old config.
EnqueueRequestForProviderConfig_Raw(w, cs) == queue' = [queue EXCEPT ![w] = @ \cup cs]

\* Watches(ProviderConfigUsage): both the old and the new config are enqueued.
EnqueueRequestForProviderConfig(w, cs) ==
    queue' = [queue EXCEPT ![w] = @ \cup (cs \ {None})]

SyncUsage(w, u) ==
    /\ usageCache[w][u] # usage[u]
    /\ usageCache' = [usageCache EXCEPT ![w][u] = usage[u]]
    /\ EnqueueRequestForProviderConfig(w, {usageCache[w][u], usage[u]})
    /\ UNCHANGED <<config, configCache, count, settled, userVars, mishaps>>

\* For(ProviderConfig)
SyncConfig(w, c) ==
    /\ ~configCache[w][c].cur
    /\ configCache' = [configCache EXCEPT ![w][c] = Copy(config[c])]
    /\ queue' = [queue EXCEPT ![w] = @ \cup {c}]
    /\ UNCHANGED <<config, count, settled, userVars, usageCache, mishaps>>

\* Reconcile gets the ProviderConfig; one that is not found is dropped.
Begin(w, c) ==
    LET copy == configCache[w][c]
    IN  /\ count[w] = NotCounting /\ c \in queue[w]
        /\ queue' = [queue EXCEPT ![w] = @ \ {c}]
        /\ count' = [count EXCEPT ![w] =
              IF copy.phase = "live"
              THEN [pc |-> "list", config |-> c, deleting |-> copy.deleting,
                    cur |-> copy.cur, users |-> 0]
              ELSE NotCounting]
        /\ UNCHANGED <<config, configCache, settled, userVars, usageCache, mishaps>>

\* Mutant: a deleted ProviderConfig is finalized whatever its usages.
AfterList_Finalizes(deleting, users) ==
    IF ~deleting THEN "addFinalizer" ELSE "finalize"

\* Mutant: one usage does not count.
AfterList_OffByOne(deleting, users) ==
    IF ~deleting THEN "addFinalizer"
    ELSE IF users > 1 THEN "status" ELSE "finalize"

\* While usages exist the deletion is blocked and only the status is written.
AfterList(deleting, users) ==
    IF ~deleting THEN "addFinalizer"
    ELSE IF users > 0 THEN "status" ELSE "finalize"

ListUsages(w) ==
    LET t == count[w]
        users == Cardinality({u \in Users : usageCache[w][u] = t.config})
    IN  /\ t.pc = "list"
        /\ count' = [count EXCEPT ![w].users = users, ![w].pc = AfterList(t.deleting, users)]
        /\ UNCHANGED <<config, configCache, queue, settled, userVars, usageCache, mishaps>>

AddFinalizer(w) ==
    LET t == count[w]
        o == [config[t.config] EXCEPT !.finalizer = TRUE]
    IN  /\ t.pc = "addFinalizer"
        /\ Save(w, o, [t EXCEPT !.pc = "status"])
        /\ UNCHANGED <<queue, settled, userVars, usageCache, mishaps>>

RemoveFinalizer(w) ==
    /\ count[w].pc = "finalize"
    /\ Save(w, GoneConfig, NotCounting)
    /\ UNCHANGED <<queue, settled, userVars, usageCache, mishaps>>

\* Mutant: the users are not written.
UpdateStatus_NoUsers(w) ==
    /\ count[w].pc = "status"
    /\ Save(w, config[count[w].config], NotCounting)
    /\ UNCHANGED <<queue, settled, userVars, usageCache, mishaps>>

UpdateStatus(w) ==
    LET t == count[w]
    IN  /\ t.pc = "status"
        /\ Save(w, [config[t.config] EXCEPT !.users = t.users], NotCounting)
        /\ UNCHANGED <<queue, settled, userVars, usageCache, mishaps>>

\* A write from an outdated copy is refused; the ProviderConfig is requeued.
Conflict(w) ==
    LET t == count[w]
    IN  /\ t.pc \in {"addFinalizer", "finalize", "status"}
        /\ ~t.cur \/ config[t.config].phase # "live"
        /\ queue' = [queue EXCEPT ![w] = @ \cup {t.config}]
        /\ count' = [count EXCEPT ![w] = NotCounting]
        /\ UNCHANGED <<config, configCache, settled, userVars, usageCache, mishaps>>

\* So it is when listing or a write fails.
CountFails(w) ==
    /\ count[w] # NotCounting
    /\ Mishap
    /\ queue' = [queue EXCEPT ![w] = @ \cup {count[w].config}]
    /\ count' = [count EXCEPT ![w] = NotCounting]
    /\ UNCHANGED <<config, configCache, settled, userVars, usageCache>>

------------------------------------------------------------------------------
(* Crash and restart: the caches are filled anew and everything is enqueued. *)

Restart(w) ==
    /\ Mishap
    /\ configCache' = [configCache EXCEPT ![w] = [c \in Configs |-> Copy(config[c])]]
    /\ usageCache' = [usageCache EXCEPT ![w] = usage]
    /\ queue' = [queue EXCEPT ![w] = Configs]
    /\ count' = [count EXCEPT ![w] = NotCounting]
    /\ task' = [task EXCEPT ![w] = [u \in Users |-> Idle]]
    /\ UNCHANGED <<config, settled, token, user, usage>>

------------------------------------------------------------------------------
(* Outside the operator. *)

\* It may be applied again after it is gone.
ApplyConfig(c) ==
    /\ \/ config[c] = NewConfig /\ UNCHANGED mishaps
       \/ config[c] = GoneConfig /\ Mishap
    /\ Store(c, [NewConfig EXCEPT !.phase = "live"])
    /\ UNCHANGED <<queue, settled, userVars, usageCache>>

\* What the deletion has to wait for: the users whose usage every instance knew.
DeleteConfig(c) ==
    /\ config[c].phase = "live" /\ ~config[c].deleting
    /\ IF config[c].finalizer
       THEN /\ Store(c, [config[c] EXCEPT !.deleting = TRUE])
            /\ settled' = [settled EXCEPT ![c] =
                  {u \in UsersOf(c) : \A w \in Workers : usageCache[w][u] = c}]
       ELSE Store(c, GoneConfig) /\ UNCHANGED settled
    /\ UNCHANGED <<queue, userVars, usageCache, mishaps>>

\* The token is removed from its Secret, or put there again.
ChangeToken(c) ==
    /\ Mishap
    /\ token' = [token EXCEPT ![c] = ~@]
    /\ UNCHANGED <<configVars, user, usage, task, usageCache>>

ApplyUser(u, c) ==
    /\ user[u].phase = "new"
    /\ user' = [user EXCEPT ![u] = [Absent EXCEPT !.phase = "live", !.ref = c]]
    /\ UNCHANGED <<configVars, token, usage, task, usageCache, mishaps>>

\* spec.providerConfigRef is changed.
EditUser(u, c) ==
    /\ user[u].phase = "live" /\ user[u].ref # c
    /\ Mishap
    /\ user' = [user EXCEPT ![u].ref = c]
    /\ UNCHANGED <<configVars, token, usage, task, usageCache>>

DeleteUser(u) ==
    /\ user[u].phase = "live" /\ ~user[u].deleting
    /\ user' = [user EXCEPT ![u] =
                  IF @.finalizer THEN [@ EXCEPT !.deleting = TRUE] ELSE Released]
    /\ UNCHANGED <<configVars, token, usage, task, usageCache, mishaps>>

\* The usage is owned by the ObjectsUser and is collected after it.
CollectUsage(u) ==
    /\ user[u].phase = "gone" /\ usage[u] # None
    /\ usage' = [usage EXCEPT ![u] = None]
    /\ settled' = [c \in Configs |-> settled[c] \ {u}]
    /\ UNCHANGED <<config, configCache, queue, count, token, user, task, usageCache, mishaps>>

------------------------------------------------------------------------------

Sync(w) == (\E u \in Users : SyncUsage(w, u)) \/ (\E c \in Configs : SyncConfig(w, c))

Account(w) ==
    \/ \E c \in Configs : Begin(w, c)
    \/ ListUsages(w) \/ AddFinalizer(w) \/ RemoveFinalizer(w) \/ UpdateStatus(w)
    \/ Conflict(w)

Reconcile(w, u) ==
    \/ TrackProviderConfig(w, u) \/ FetchProviderConfig(w, u) \/ ReadApiToken(w, u)
    \/ Manage(w, u)

Environment ==
    \/ \E c \in Configs : ApplyConfig(c) \/ DeleteConfig(c) \/ ChangeToken(c)
    \/ \E u \in Users, c \in Configs : ApplyUser(u, c) \/ EditUser(u, c)
    \/ \E u \in Users : DeleteUser(u)

Next ==
    \/ \E w \in Workers :
          \/ Sync(w) \/ Account(w) \/ CountFails(w) \/ Restart(w)
          \/ \E u \in Users : Reconcile(w, u) \/ ReconcileFails(w, u)
    \/ \E u \in Users : CollectUsage(u)
    \/ Environment

Spec == Init /\ [][Next]_vars

\* Informers deliver, work queues are served, resources are polled, and the
\* garbage collector runs.
Fairness ==
    /\ \A w \in Workers :
          /\ \A u \in Users : WF_vars(SyncUsage(w, u)) /\ WF_vars(Reconcile(w, u))
          /\ \A c \in Configs : WF_vars(SyncConfig(w, c))
          /\ WF_vars(Account(w))
    /\ \A u \in Users : WF_vars(CollectUsage(u))

FairSpec == Spec /\ Fairness

------------------------------------------------------------------------------
(* Safety *)

\* A ProviderConfig whose deletion is requested stays until every ObjectsUser
\* has stopped using it whose usage the operator knew at that time, though
\* usages are counted from one cache, the finalizer is removed from another,
\* and more than one instance does so.  (Without a finalizer, nothing makes it stay:
\* its deletion then settles nobody.)
SettledUsersKeepConfig ==
    \A c \in Configs : settled[c] # {} => config[c].phase = "live" /\ config[c].deleting

(* What makes it inductive. *)

\* A copy that no write has outdated says what is stored.
CopiesAgree ==
    \A w \in Workers, c \in Configs :
        configCache[w][c].cur => /\ configCache[w][c].phase = config[c].phase
                                 /\ configCache[w][c].deleting = config[c].deleting

\* So does the reconcile of a ProviderConfig.  One that is about to finalize it
\* has read the deletion request and, while its copy is current, has missed no
\* settled user: it counted in a cache that knew them all.
CountsAgree ==
    \A w \in Workers : LET t == count[w] IN t # NotCounting =>
        /\ t.cur => /\ config[t.config].phase = "live"
                    /\ config[t.config].deleting = t.deleting
        /\ t.pc = "finalize" => t.deleting
        /\ t.pc = "finalize" /\ t.cur => settled[t.config] = {}

\* The usage of a settled user is known to every instance, restarted ones included.
SettledKnown ==
    \A c \in Configs : \A u \in settled[c] :
        usage[u] = c /\ \A w \in Workers : usageCache[w][u] = c

Accounting ==
    CopiesAgree /\ CountsAgree /\ SettledKnown /\ SettledUsersKeepConfig

------------------------------------------------------------------------------
(* Liveness *)

\* In the end a ProviderConfig that is being deleted is gone, unless one of its
\* ObjectsUsers is still there: nothing polls, so the events must suffice.
DeletionCompletes ==
    <>[](\A c \in Configs : config[c].deleting => \E u \in UsersOf(c) : user[u].phase = "live")

\* In the end an ObjectsUser that is being deleted is gone, unless its token is:
\* the two deletions do not wait for each other.
UsersDeleted ==
    <>[](\A u \in Users :
            user[u].deleting => config[user[u].ref].phase # "live" \/ ~token[user[u].ref])

\* In the end the status of every ProviderConfig says how many use it, whatever
\* conflicts and whichever order usages and ProviderConfigs are delivered in.
UsersCounted ==
    <>[](\A c \in Configs :
            config[c].phase = "live" => config[c].users = Cardinality(UsersOf(c)))

------------------------------------------------------------------------------
(* What a comment says and the code does not keep. *)

\* trackProviderConfig: the ProviderConfig is not deleted until all ObjectsUsers
\* stop using it.  An ObjectsUser that connects between the count of usages and
\* the removal of the finalizer loses it with its external user in place.
OutlivesUsers ==
    [][\A w \in Workers :
          RemoveFinalizer(w) =>
              \A u \in UsersOf(count[w].config) : ~user[u].made]_vars

==============================================================================
