-------------------------- MODULE ProviderConfigProofs --------------------------
(***************************************************************************)
(* That a ProviderConfig waits for the ObjectsUsers that were known to use *)
(* it when its deletion was requested, for every number of ProviderConfigs,*)
(* users, operator instances and mishaps.                                  *)
(*                                                                         *)
(* The reconcile that removes the finalizer counts usages in one cache and *)
(* has its ProviderConfig from another; only the write is checked, and the *)
(* check does not look at usages.  What makes it safe is Accounting: every *)
(* cache knows the usage of a settled user, and a reconcile that counted   *)
(* none has, if its write is going to be accepted, read the deletion       *)
(* request, so that it counted after the users settled.                    *)
(***************************************************************************)
EXTENDS ProviderConfig, FiniteSetTheorems, TLAPS

------------------------------------------------------------------------------
(* Types *)

LEMMA Counted ==
    ASSUME NEW S \in SUBSET Users
    PROVE  Cardinality(S) \in 0..Cardinality(Users)
<1>1. IsFiniteSet(Users)
  BY ProviderConfigAssumption
<1>2. Cardinality(Users) \in Nat
  BY <1>1, FS_CardinalityType
<1>3. IsFiniteSet(S) /\ Cardinality(S) <= Cardinality(Users)
  BY <1>1, FS_Subset
<1>4. Cardinality(S) \in Nat
  BY <1>3, FS_CardinalityType
<1>5. QED
  BY <1>2, <1>3, <1>4

\* NotCounting is about no ProviderConfig.
LEMMA CountTypes ==
    ASSUME TypeOK, NEW w \in Workers
    PROVE  /\ count[w] = NotCounting => count[w].config \notin Configs
           /\ count[w] # NotCounting => count[w] \in Counting
           /\ count[w].pc = "idle" <=> count[w] = NotCounting
           /\ count[w].cur \in BOOLEAN
<1>1. count[w] \in {NotCounting} \cup Counting
  BY DEF TypeOK
<1>2. NotCounting.config \notin Configs /\ NotCounting.pc = "idle" /\ NotCounting.cur \in BOOLEAN
  BY ProviderConfigAssumption DEF NotCounting
<1>3. \A t \in Counting : t.pc # "idle" /\ t.cur \in BOOLEAN
  BY DEF Counting
<1>4. QED
  BY <1>1, <1>2, <1>3

LEMMA CopyTypes ==
    ASSUME NEW o \in ProviderConfigs
    PROVE  /\ Copy(o) \in Copies /\ Copy(o).phase = o.phase
           /\ Copy(o).deleting = o.deleting
           /\ o.phase \in {"new", "live", "gone"} /\ o.deleting \in BOOLEAN
<1>1. o.phase \in {"new", "live", "gone"} /\ o.deleting \in BOOLEAN
  <2>1. CASE o \in {NewConfig, GoneConfig}
    <3>1. NewConfig.phase = "new" /\ GoneConfig.phase = "gone"
      BY DEF NewConfig, GoneConfig
    <3>2. NewConfig.deleting = FALSE /\ GoneConfig.deleting = FALSE
      BY DEF NewConfig, GoneConfig
    <3>3. QED
      BY <2>1, <3>1, <3>2
  <2>2. CASE o \in [phase: {"live"}, deleting: BOOLEAN, finalizer: BOOLEAN,
                    users: 0..Cardinality(Users)]
    BY <2>2
  <2>3. QED
    BY <2>1, <2>2 DEF ProviderConfigs
<1>2. Copy(o).phase = o.phase
  BY DEF Copy
<1>3. Copy(o).deleting = o.deleting
  BY Zenon DEF Copy
<1>4. Copy(o) \in Copies
  BY <1>1 DEF Copy, Copies
<1>5. QED
  BY <1>1, <1>2, <1>3, <1>4

LEMMA ConfigTypes ==
    /\ NewConfig \in ProviderConfigs /\ GoneConfig \in ProviderConfigs
    /\ ~NewConfig.deleting /\ ~GoneConfig.deleting
    /\ NewConfig.phase = "new" /\ GoneConfig.phase = "gone"
BY DEF ProviderConfigs, NewConfig, GoneConfig

\* A stored ProviderConfig that is there, with one field written.
LEMMA WrittenTypes ==
    ASSUME NEW o \in ProviderConfigs, o.phase = "live", NEW n \in 0..Cardinality(Users)
    PROVE  /\ [o EXCEPT !.finalizer = TRUE] \in ProviderConfigs
           /\ [o EXCEPT !.finalizer = TRUE].phase = "live"
           /\ [o EXCEPT !.finalizer = TRUE].deleting = o.deleting
           /\ [o EXCEPT !.deleting = TRUE] \in ProviderConfigs
           /\ [o EXCEPT !.deleting = TRUE].phase = "live"
           /\ [o EXCEPT !.deleting = TRUE].deleting = TRUE
           /\ [o EXCEPT !.users = n] \in ProviderConfigs
           /\ [o EXCEPT !.users = n].phase = "live"
           /\ [o EXCEPT !.users = n].deleting = o.deleting
<1>1. o \in [phase: {"live"}, deleting: BOOLEAN, finalizer: BOOLEAN,
             users: 0..Cardinality(Users)]
  BY DEF ProviderConfigs, NewConfig, GoneConfig
<1>2. QED
  BY <1>1 DEF ProviderConfigs

LEMMA NewlyApplied ==
    /\ [NewConfig EXCEPT !.phase = "live"] \in ProviderConfigs
    /\ ~[NewConfig EXCEPT !.phase = "live"].deleting
<1>1. 0 \in 0..Cardinality(Users)
  BY ProviderConfigAssumption, FS_CardinalityType
<1>2. QED
  BY <1>1 DEF ProviderConfigs, NewConfig

------------------------------------------------------------------------------
(* What a write does to the copies. *)

LEMMA OutdatedEffect ==
    ASSUME TypeOK, NEW c \in Configs, NEW o
    PROVE  /\ Outdated(c, o) \in [Workers -> [Configs -> Copies]]
           /\ \A w \in Workers, d \in Configs :
                /\ Outdated(c, o)[w][d].phase = configCache[w][d].phase
                /\ Outdated(c, o)[w][d].deleting = configCache[w][d].deleting
                /\ Outdated(c, o)[w][d].cur => configCache[w][d].cur
                /\ Outdated(c, o)[w][d].cur /\ d = c => o = config[c]
<1> DEFINE new(w, d) == IF d = c THEN [configCache[w][d] EXCEPT !.cur = @ /\ o = config[c]]
                                 ELSE configCache[w][d]
<1>1. configCache \in [Workers -> [Configs -> Copies]]
  BY DEF TypeOK
<1>2. Outdated(c, o) = [w \in Workers |-> [d \in Configs |-> new(w, d)]]
  BY <1>1 DEF Outdated
<1>3. ASSUME NEW w \in Workers, NEW d \in Configs
      PROVE  /\ new(w, d) \in Copies
             /\ new(w, d).phase = configCache[w][d].phase
             /\ new(w, d).deleting = configCache[w][d].deleting
             /\ new(w, d).cur => configCache[w][d].cur
             /\ new(w, d).cur /\ d = c => o = config[c]
  <2> DEFINE copy == configCache[w][d]
             stale == [copy EXCEPT !.cur = @ /\ o = config[c]]
  <2>1. copy \in Copies
    BY <1>1
  <2>2. stale \in Copies /\ stale.phase = copy.phase /\ stale.deleting = copy.deleting
    BY <2>1 DEF Copies
  <2>3. stale.cur = (copy.cur /\ o = config[c])
    BY <2>1 DEF Copies
  <2>4. new(w, d) = IF d = c THEN stale ELSE copy
    OBVIOUS
  <2> HIDE DEF stale, copy, new
  <2>5. CASE d = c
    <3>1. new(w, d) = stale
      BY <2>4, <2>5
    <3>2. QED
      BY <2>2, <2>3, <3>1 DEF copy
  <2>6. CASE d # c
    <3>1. new(w, d) = copy
      BY <2>4, <2>6
    <3>2. QED
      BY <2>1, <2>6, <3>1 DEF copy
  <2>7. QED
    BY <2>5, <2>6
<1> HIDE DEF new
<1>4. QED
  BY <1>2, <1>3

\* The reconcile t, of the ProviderConfig c or not, after o was written to c.
Stale(t, c, o) == IF t.config = c THEN [t EXCEPT !.cur = @ /\ o = config[c]] ELSE t

LEMMA StaleEffect ==
    ASSUME NEW t \in {NotCounting} \cup Counting, NEW c \in Configs, NEW o
    PROVE  /\ Stale(t, c, o) \in {NotCounting} \cup Counting
           /\ Stale(t, c, o) = NotCounting <=> t = NotCounting
           /\ Stale(t, c, o).pc = t.pc /\ Stale(t, c, o).config = t.config
           /\ Stale(t, c, o).deleting = t.deleting
           /\ Stale(t, c, o).cur => t.cur
           /\ Stale(t, c, o).cur /\ t.config = c => o = config[c]
<1>1. CASE t = NotCounting
  <2>1. Stale(t, c, o) = t
    BY <1>1, ProviderConfigAssumption DEF NotCounting, Stale
  <2>2. t.config # c
    BY <1>1, ProviderConfigAssumption DEF NotCounting
  <2>3. QED
    BY <2>1, <2>2
<1>2. CASE t \in Counting
  <2> DEFINE u == [t EXCEPT !.cur = @ /\ o = config[c]]
  <2>1. u \in Counting /\ u.pc = t.pc /\ u.config = t.config /\ u.deleting = t.deleting
    BY <1>2 DEF Counting
  <2>2. u.cur = (t.cur /\ o = config[c])
    BY <1>2 DEF Counting
  <2>3. u.pc # "idle" /\ t.pc # "idle" /\ NotCounting.pc = "idle"
    BY <1>2, <2>1 DEF Counting, NotCounting
  <2>4. Stale(t, c, o) = IF t.config = c THEN u ELSE t
    BY DEF Stale
  <2> HIDE DEF u
  <2>5. CASE t.config = c
    <3>1. Stale(t, c, o) = u
      BY <2>4, <2>5
    <3>2. QED
      BY <2>1, <2>2, <2>3, <3>1
  <2>6. CASE t.config # c
    <3>1. Stale(t, c, o) = t
      BY <2>4, <2>6
    <3>2. QED
      BY <1>2, <2>6, <3>1
  <2>7. QED
    BY <2>5, <2>6
<1>3. QED
  BY <1>1, <1>2

LEMMA StoreEffect ==
    ASSUME TypeOK, NEW c \in Configs, NEW o \in ProviderConfigs, Store(c, o)
    PROVE  /\ config' \in [Configs -> ProviderConfigs]
           /\ configCache' \in [Workers -> [Configs -> Copies]]
           /\ count' \in [Workers -> {NotCounting} \cup Counting]
           /\ config'[c] = o
           /\ \A d \in Configs : d # c => config'[d] = config[d]
           /\ configCache' = Outdated(c, o)
           /\ \A w \in Workers :
                /\ count'[w] = NotCounting <=> count[w] = NotCounting
                /\ count'[w].pc = count[w].pc /\ count'[w].config = count[w].config
                /\ count'[w].deleting = count[w].deleting
                /\ count'[w].cur => count[w].cur
                /\ count'[w].cur /\ count[w].config = c => o = config[c]
<1>1. /\ config \in [Configs -> ProviderConfigs]
      /\ count \in [Workers -> {NotCounting} \cup Counting]
  BY DEF TypeOK
<1>2. /\ config' = [config EXCEPT ![c] = o] /\ configCache' = Outdated(c, o)
      /\ count' = [w \in Workers |-> IF count[w].config = c
                     THEN [count[w] EXCEPT !.cur = @ /\ o = config[c]] ELSE count[w]]
  BY DEF Store
<1>3. ASSUME NEW w \in Workers
      PROVE  /\ count'[w] \in {NotCounting} \cup Counting
             /\ count'[w] = NotCounting <=> count[w] = NotCounting
             /\ count'[w].pc = count[w].pc /\ count'[w].config = count[w].config
             /\ count'[w].deleting = count[w].deleting
             /\ count'[w].cur => count[w].cur
             /\ count'[w].cur /\ count[w].config = c => o = config[c]
  <2>1. count'[w] = Stale(count[w], c, o)
    BY <1>2 DEF Stale
  <2>2. count[w] \in {NotCounting} \cup Counting
    BY <1>1
  <2>3. QED
    BY <2>1, <2>2, StaleEffect
<1>4. count' \in [Workers -> {NotCounting} \cup Counting]
  <2>1. DOMAIN count' = Workers /\ count' = [w \in Workers |-> count'[w]]
    BY <1>2
  <2>2. QED
    BY <1>3, <2>1
<1>5. config' \in [Configs -> ProviderConfigs] /\ config'[c] = o
      /\ \A d \in Configs : d # c => config'[d] = config[d]
  BY <1>1, <1>2
<1>6. configCache' \in [Workers -> [Configs -> Copies]]
  BY <1>2, OutdatedEffect
<1>7. QED
  BY <1>2, <1>3, <1>4, <1>5, <1>6

LEMMA SaveEffect ==
    ASSUME TypeOK, NEW w \in Workers, count[w] # NotCounting, NEW o \in ProviderConfigs,
           NEW t \in {NotCounting} \cup Counting, Save(w, o, t)
    PROVE  /\ config' \in [Configs -> ProviderConfigs]
           /\ configCache' \in [Workers -> [Configs -> Copies]]
           /\ count' \in [Workers -> {NotCounting} \cup Counting]
           /\ count[w].config \in Configs /\ count[w].cur
           /\ config[count[w].config].phase = "live"
           /\ config'[count[w].config] = o
           /\ \A d \in Configs : d # count[w].config => config'[d] = config[d]
           /\ configCache' = Outdated(count[w].config, o)
           /\ count'[w] = t
           /\ \A v \in Workers : v # w =>
                /\ count'[v] = NotCounting <=> count[v] = NotCounting
                /\ count'[v].pc = count[v].pc /\ count'[v].config = count[v].config
                /\ count'[v].deleting = count[v].deleting
                /\ count'[v].cur => count[v].cur
                /\ count'[v].cur /\ count[v].config = count[w].config
                      => o = config[count[w].config]
<1> DEFINE c == count[w].config
<1>1. /\ config \in [Configs -> ProviderConfigs]
      /\ count \in [Workers -> {NotCounting} \cup Counting]
  BY DEF TypeOK
<1>2. /\ count[w].cur /\ config[c].phase = "live"
      /\ config' = [config EXCEPT ![c] = o] /\ configCache' = Outdated(c, o)
      /\ count' = [v \in Workers |->
            IF v = w THEN t
            ELSE IF count[v].config = c
                 THEN [count[v] EXCEPT !.cur = @ /\ o = config[c]] ELSE count[v]]
  BY DEF Save
<1>3. c \in Configs
  BY CountTypes DEF Counting
<1> HIDE DEF c
<1>4. ASSUME NEW v \in Workers, v # w
      PROVE  /\ count'[v] \in {NotCounting} \cup Counting
             /\ count'[v] = NotCounting <=> count[v] = NotCounting
             /\ count'[v].pc = count[v].pc /\ count'[v].config = count[v].config
             /\ count'[v].deleting = count[v].deleting
             /\ count'[v].cur => count[v].cur
             /\ count'[v].cur /\ count[v].config = c => o = config[c]
  <2>1. count'[v] = Stale(count[v], c, o)
    BY <1>2, <1>4 DEF Stale
  <2>2. count[v] \in {NotCounting} \cup Counting
    BY <1>1
  <2>3. QED
    BY <1>3, <2>1, <2>2, StaleEffect
<1>5. count'[w] = t
  BY <1>2
<1>6. count' \in [Workers -> {NotCounting} \cup Counting]
  <2>1. DOMAIN count' = Workers /\ count' = [v \in Workers |-> count'[v]]
    BY <1>2
  <2>2. QED
    BY <1>4, <1>5, <2>1
<1>7. config' \in [Configs -> ProviderConfigs] /\ config'[c] = o
      /\ \A d \in Configs : d # c => config'[d] = config[d]
  BY <1>1, <1>2, <1>3
<1>8. configCache' \in [Workers -> [Configs -> Copies]]
  BY <1>2, <1>3, OutdatedEffect
<1>9. QED
  BY <1>2, <1>3, <1>4, <1>5, <1>6, <1>7, <1>8 DEF c

------------------------------------------------------------------------------
(* Type correctness, action by action. *)

LEMMA UserTypes ==
    ASSUME NEW o \in ObjectsUsers, o.phase = "live"
    PROVE  /\ o.ref \in Configs /\ o.deleting \in BOOLEAN
           /\ \A made \in BOOLEAN :
                [o EXCEPT !.finalizer = TRUE, !.made = made] \in ObjectsUsers
           /\ [o EXCEPT !.deleting = TRUE] \in ObjectsUsers
           /\ \A c \in Configs : [o EXCEPT !.ref = c] \in ObjectsUsers
<1>1. o \in [phase: {"live"}, deleting: BOOLEAN, finalizer: BOOLEAN, ref: Configs,
             made: BOOLEAN]
  BY DEF ObjectsUsers, Absent, Released
<1>2. QED
  BY <1>1 DEF ObjectsUsers

LEMMA NewUserTypes ==
    ASSUME NEW c \in Configs
    PROVE  /\ Released \in ObjectsUsers
           /\ [Absent EXCEPT !.phase = "live", !.ref = c] \in ObjectsUsers
BY DEF ObjectsUsers, Absent, Released

\* The reconcile of an ObjectsUser, and its Connect.
LEMMA ReconcileTypes ==
    ASSUME TypeOK, NEW w \in Workers, NEW u \in Users,
           Reconcile(w, u) \/ ReconcileFails(w, u)
    PROVE  TypeOK'
<1>1. /\ user \in [Users -> ObjectsUsers] /\ usage \in [Users -> Configs \cup {None}]
      /\ task \in [Workers -> [Users -> {Idle} \cup Connecting]]
      /\ settled \in [Configs -> SUBSET Users] /\ mishaps \in 0..MaxMishaps
      /\ MaxMishaps \in Nat
  BY ProviderConfigAssumption DEF TypeOK
<1>2. ASSUME NEW t \in {Idle} \cup Connecting, GoOn(w, u, t)
      PROVE  task' \in [Workers -> [Users -> {Idle} \cup Connecting]]
  BY <1>1, <1>2 DEF GoOn
<1>3. task[w][u].pc # "idle" => task[w][u] \in Connecting
  BY <1>1 DEF Idle
<1>4. Idle \in {Idle} \cup Connecting
  OBVIOUS
<1>5. CASE TrackProviderConfig(w, u)
  <2>1. user[u].ref \in Configs
    BY <1>1, <1>5, UserTypes DEF TrackProviderConfig
  <2>2. [pc |-> "config", ref |-> user[u].ref] \in Connecting
    BY <2>1 DEF Connecting
  <2>3. task' \in [Workers -> [Users -> {Idle} \cup Connecting]]
    BY <1>2, <1>5, <2>2 DEF TrackProviderConfig
  <2>4. usage' \in [Users -> Configs \cup {None}]
    BY <1>1, <1>5, <2>1 DEF TrackProviderConfig
  <2>5. settled' \in [Configs -> SUBSET Users]
    BY <1>1, <1>5 DEF TrackProviderConfig
  <2>6. QED
    BY <1>5, <2>3, <2>4, <2>5 DEF TrackProviderConfig, TypeOK
<1>6. CASE FetchProviderConfig(w, u) \/ ReadApiToken(w, u)
  <2>1. task[w][u] \in Connecting
    BY <1>3, <1>6 DEF FetchProviderConfig, ReadApiToken
  <2>2. /\ [task[w][u] EXCEPT !.pc = "token"] \in Connecting
        /\ [task[w][u] EXCEPT !.pc = "connected"] \in Connecting
    BY <2>1 DEF Connecting
  <2>3. task' \in [Workers -> [Users -> {Idle} \cup Connecting]]
    <3>1. \E t \in {Idle} \cup Connecting : GoOn(w, u, t)
      BY <1>6, <2>2 DEF FetchProviderConfig, ReadApiToken
    <3>2. QED
      BY <1>2, <3>1
  <2>4. UNCHANGED <<configVars, token, user, usage, usageCache, mishaps>>
    BY <1>6 DEF FetchProviderConfig, ReadApiToken
  <2>5. QED
    BY <2>3, <2>4 DEF TypeOK, configVars
<1>7. CASE Manage(w, u)
  <2> DEFINE o == user[u]
             p == IF o.phase # "live" THEN o
                  ELSE IF o.deleting /\ ~o.made THEN Released
                  ELSE [o EXCEPT !.finalizer = TRUE, !.made = ~o.deleting]
  <2>1. o \in ObjectsUsers
    BY <1>1
  <2>2. p \in ObjectsUsers
    <3>1. CASE o.phase # "live"
      BY <2>1, <3>1
    <3>2. CASE o.phase = "live"
      <4>1. Released \in ObjectsUsers
        BY DEF ObjectsUsers
      <4>2. (~o.deleting) \in BOOLEAN
        OBVIOUS
      <4>3. [o EXCEPT !.finalizer = TRUE, !.made = ~o.deleting] \in ObjectsUsers
        BY <2>1, <3>2, <4>2, UserTypes
      <4>4. QED
        BY <3>2, <4>1, <4>3
    <3>3. QED
      BY <3>1, <3>2
  <2>3. user' = [user EXCEPT ![u] = p]
    BY <1>7 DEF Manage
  <2> HIDE DEF p
  <2>4. user' \in [Users -> ObjectsUsers]
    BY <1>1, <2>2, <2>3
  <2>5. task' \in [Workers -> [Users -> {Idle} \cup Connecting]]
    BY <1>2, <1>7 DEF Manage
  <2>6. QED
    BY <1>7, <2>4, <2>5 DEF Manage, TypeOK, configVars
<1>8. CASE ReconcileFails(w, u)
  <2>1. mishaps' \in 0..MaxMishaps
    BY <1>1, <1>8 DEF ReconcileFails, Mishap
  <2>2. task' \in [Workers -> [Users -> {Idle} \cup Connecting]]
    BY <1>2, <1>8 DEF ReconcileFails
  <2>3. QED
    BY <1>8, <2>1, <2>2 DEF ReconcileFails, TypeOK, configVars
<1>9. QED
  BY <1>5, <1>6, <1>7, <1>8 DEF Reconcile

\* The ProviderConfig controller: its informers, a count and what follows it.
LEMMA AccountTypes ==
    ASSUME TypeOK, NEW w \in Workers, Sync(w) \/ Account(w) \/ CountFails(w)
    PROVE  TypeOK'
<1>1. /\ config \in [Configs -> ProviderConfigs] /\ usage \in [Users -> Configs \cup {None}]
      /\ configCache \in [Workers -> [Configs -> Copies]]
      /\ usageCache \in [Workers -> [Users -> Configs \cup {None}]]
      /\ queue \in [Workers -> SUBSET Configs]
      /\ count \in [Workers -> {NotCounting} \cup Counting]
      /\ mishaps \in 0..MaxMishaps /\ MaxMishaps \in Nat
  BY ProviderConfigAssumption DEF TypeOK
<1>2. ASSUME NEW u \in Users, SyncUsage(w, u)
      PROVE  TypeOK'
  <2>1. usageCache' \in [Workers -> [Users -> Configs \cup {None}]]
    BY <1>1, <1>2 DEF SyncUsage
  <2>2. queue' \in [Workers -> SUBSET Configs]
    <3>1. {usageCache[w][u], usage[u]} \ {None} \subseteq Configs
      BY <1>1
    <3>2. queue' = [queue EXCEPT ![w] = @ \cup ({usageCache[w][u], usage[u]} \ {None})]
      BY <1>2 DEF SyncUsage, EnqueueRequestForProviderConfig
    <3>3. QED
      BY <1>1, <3>1, <3>2
  <2>3. QED
    BY <1>2, <2>1, <2>2 DEF SyncUsage, TypeOK, userVars
<1>3. ASSUME NEW c \in Configs, SyncConfig(w, c)
      PROVE  TypeOK'
  <2>1. configCache' \in [Workers -> [Configs -> Copies]]
    <3>1. Copy(config[c]) \in Copies
      BY <1>1, CopyTypes
    <3>2. QED
      BY <1>1, <1>3, <3>1 DEF SyncConfig
  <2>2. queue' \in [Workers -> SUBSET Configs]
    BY <1>1, <1>3 DEF SyncConfig
  <2>3. QED
    BY <1>3, <2>1, <2>2 DEF SyncConfig, TypeOK, userVars
<1>4. ASSUME NEW c \in Configs, Begin(w, c)
      PROVE  TypeOK'
  <2> DEFINE copy == configCache[w][c]
             t == [pc |-> "list", config |-> c, deleting |-> copy.deleting,
                   cur |-> copy.cur, users |-> 0]
  <2>1. t \in Counting
    <3>1. copy \in Copies
      BY <1>1
    <3>2. 0 \in 0..Cardinality(Users)
      BY ProviderConfigAssumption, FS_CardinalityType
    <3>3. QED
      BY <3>1, <3>2 DEF Copies, Counting
  <2>2. count' = [count EXCEPT ![w] = IF copy.phase = "live" THEN t ELSE NotCounting]
    BY <1>4 DEF Begin
  <2> HIDE DEF t
  <2>3. count' \in [Workers -> {NotCounting} \cup Counting]
    BY <1>1, <2>1, <2>2
  <2>4. queue' \in [Workers -> SUBSET Configs]
    BY <1>1, <1>4 DEF Begin
  <2>5. QED
    BY <1>4, <2>3, <2>4 DEF Begin, TypeOK, userVars
<1>5. CASE ListUsages(w)
  <2> DEFINE t == count[w]
             n == Cardinality({u \in Users : usageCache[w][u] = t.config})
  <2>1. n \in 0..Cardinality(Users)
    BY Counted
  <2>2. t \in Counting
    BY <1>5, CountTypes DEF ListUsages
  <2>3. AfterList(t.deleting, n) \in {"addFinalizer", "finalize", "status"}
    BY DEF AfterList
  <2>4. count' = [count EXCEPT ![w] = [t EXCEPT !.users = n,
                                                !.pc = AfterList(t.deleting, n)]]
    BY <1>1, <1>5 DEF ListUsages
  <2> HIDE DEF n
  <2>5. [t EXCEPT !.users = n, !.pc = AfterList(t.deleting, n)] \in Counting
    BY <2>1, <2>2, <2>3 DEF Counting
  <2>6. count' \in [Workers -> {NotCounting} \cup Counting]
    BY <1>1, <2>4, <2>5
  <2>7. QED
    BY <1>5, <2>6 DEF ListUsages, TypeOK, userVars
<1>6. ASSUME NEW o \in ProviderConfigs, NEW t \in {NotCounting} \cup Counting,
             count[w] # NotCounting, Save(w, o, t),
             UNCHANGED <<queue, settled, userVars, usageCache, mishaps>>
      PROVE  TypeOK'
  <2>1. /\ config' \in [Configs -> ProviderConfigs]
        /\ configCache' \in [Workers -> [Configs -> Copies]]
        /\ count' \in [Workers -> {NotCounting} \cup Counting]
    BY <1>6, SaveEffect
  <2>2. QED
    BY <1>6, <2>1 DEF TypeOK, userVars
<1>7. CASE AddFinalizer(w)
  <2>1. count[w] \in Counting /\ count[w] # NotCounting
    BY <1>7, CountTypes DEF AddFinalizer, NotCounting
  <2>2. [count[w] EXCEPT !.pc = "status"] \in Counting
    BY <2>1 DEF Counting
  <2>3. config[count[w].config] \in ProviderConfigs /\ config[count[w].config].phase = "live"
    BY <1>1, <1>7, <2>1 DEF AddFinalizer, Save, Counting
  <2>4. [config[count[w].config] EXCEPT !.finalizer = TRUE] \in ProviderConfigs
    BY <2>3, Counted, WrittenTypes
  <2>5. QED
    BY <1>6, <1>7, <2>1, <2>2, <2>4 DEF AddFinalizer
<1>8. CASE RemoveFinalizer(w)
  <2>1. count[w] # NotCounting
    BY <1>8, CountTypes DEF RemoveFinalizer
  <2>2. QED
    BY <1>6, <1>8, <2>1, ConfigTypes DEF RemoveFinalizer
<1>9. CASE UpdateStatus(w)
  <2>1. count[w] \in Counting /\ count[w] # NotCounting
    BY <1>9, CountTypes DEF UpdateStatus, NotCounting
  <2>2. config[count[w].config] \in ProviderConfigs /\ config[count[w].config].phase = "live"
    BY <1>1, <1>9, <2>1 DEF UpdateStatus, Save, Counting
  <2>3. count[w].users \in 0..Cardinality(Users)
    BY <2>1 DEF Counting
  <2>4. [config[count[w].config] EXCEPT !.users = count[w].users] \in ProviderConfigs
    BY <2>2, <2>3, WrittenTypes
  <2>5. QED
    BY <1>6, <1>9, <2>1, <2>4 DEF UpdateStatus
<1>10. CASE Conflict(w) \/ CountFails(w)
  <2>1. count[w] \in Counting
    BY <1>10, CountTypes DEF Conflict, CountFails
  <2>2. count[w].config \in Configs
    BY <2>1 DEF Counting
  <2>3. /\ queue' = [queue EXCEPT ![w] = @ \cup {count[w].config}]
        /\ count' = [count EXCEPT ![w] = NotCounting]
        /\ UNCHANGED <<config, configCache, settled, userVars, usageCache>>
        /\ UNCHANGED mishaps \/ Mishap
    BY <1>10 DEF Conflict, CountFails
  <2>4. /\ queue' \in [Workers -> SUBSET Configs]
        /\ count' \in [Workers -> {NotCounting} \cup Counting]
    BY <1>1, <2>2, <2>3
  <2>5. mishaps' \in 0..MaxMishaps
    BY <1>1, <2>3 DEF Mishap
  <2>6. QED
    BY <2>3, <2>4, <2>5 DEF TypeOK, userVars
<1>11. QED
  BY <1>2, <1>3, <1>4, <1>5, <1>7, <1>8, <1>9, <1>10 DEF Sync, Account

LEMMA RestartTypes ==
    ASSUME TypeOK, NEW w \in Workers, Restart(w)
    PROVE  TypeOK'
<1>1. /\ config \in [Configs -> ProviderConfigs] /\ usage \in [Users -> Configs \cup {None}]
      /\ configCache \in [Workers -> [Configs -> Copies]]
      /\ usageCache \in [Workers -> [Users -> Configs \cup {None}]]
      /\ queue \in [Workers -> SUBSET Configs]
      /\ count \in [Workers -> {NotCounting} \cup Counting]
      /\ task \in [Workers -> [Users -> {Idle} \cup Connecting]]
      /\ mishaps \in 0..MaxMishaps /\ MaxMishaps \in Nat
  BY ProviderConfigAssumption DEF TypeOK
<1>2. [c \in Configs |-> Copy(config[c])] \in [Configs -> Copies]
  BY <1>1, CopyTypes
<1>3. configCache' \in [Workers -> [Configs -> Copies]]
  BY <1>1, <1>2 DEF Restart
<1>4. /\ usageCache' \in [Workers -> [Users -> Configs \cup {None}]]
      /\ queue' \in [Workers -> SUBSET Configs]
      /\ count' \in [Workers -> {NotCounting} \cup Counting]
      /\ mishaps' \in 0..MaxMishaps
  BY <1>1 DEF Restart, Mishap
<1>5. task' \in [Workers -> [Users -> {Idle} \cup Connecting]]
  BY <1>1 DEF Restart
<1>6. QED
  BY <1>3, <1>4, <1>5 DEF Restart, TypeOK

\* Outside the operator.
LEMMA EnvironmentTypes ==
    ASSUME TypeOK, Environment \/ \E u \in Users : CollectUsage(u)
    PROVE  TypeOK'
<1>1. /\ config \in [Configs -> ProviderConfigs] /\ usage \in [Users -> Configs \cup {None}]
      /\ user \in [Users -> ObjectsUsers] /\ token \in [Configs -> BOOLEAN]
      /\ settled \in [Configs -> SUBSET Users]
      /\ mishaps \in 0..MaxMishaps /\ MaxMishaps \in Nat
  BY ProviderConfigAssumption DEF TypeOK
<1>2. ASSUME Mishap PROVE mishaps' \in 0..MaxMishaps
  BY <1>1, <1>2 DEF Mishap
<1>3. ASSUME NEW c \in Configs, ApplyConfig(c)
      PROVE  TypeOK'
  <2>1. /\ Store(c, [NewConfig EXCEPT !.phase = "live"])
        /\ UNCHANGED mishaps \/ Mishap
        /\ UNCHANGED <<queue, settled, userVars, usageCache>>
    BY <1>3 DEF ApplyConfig
  <2>2. /\ config' \in [Configs -> ProviderConfigs]
        /\ configCache' \in [Workers -> [Configs -> Copies]]
        /\ count' \in [Workers -> {NotCounting} \cup Counting]
    BY <2>1, NewlyApplied, StoreEffect
  <2>3. QED
    BY <1>1, <1>2, <2>1, <2>2 DEF TypeOK, userVars
<1>4. ASSUME NEW c \in Configs, DeleteConfig(c)
      PROVE  TypeOK'
  <2>1. config[c] \in ProviderConfigs /\ config[c].phase = "live"
    BY <1>1, <1>4 DEF DeleteConfig
  <2>2. \E o \in ProviderConfigs : Store(c, o)
    <3>1. [config[c] EXCEPT !.deleting = TRUE] \in ProviderConfigs
      BY <2>1, Counted, WrittenTypes
    <3>2. QED
      BY <1>4, <3>1, ConfigTypes DEF DeleteConfig
  <2>3. /\ config' \in [Configs -> ProviderConfigs]
        /\ configCache' \in [Workers -> [Configs -> Copies]]
        /\ count' \in [Workers -> {NotCounting} \cup Counting]
    BY <2>2, StoreEffect
  <2>4. settled' \in [Configs -> SUBSET Users]
    <3>1. {u \in UsersOf(c) : \A w \in Workers : usageCache[w][u] = c} \subseteq Users
      BY DEF UsersOf
    <3>2. QED
      BY <1>1, <1>4, <3>1 DEF DeleteConfig
  <2>5. QED
    BY <1>4, <2>3, <2>4 DEF DeleteConfig, TypeOK, userVars
<1>5. ASSUME NEW c \in Configs, ChangeToken(c)
      PROVE  TypeOK'
  <2>1. token' \in [Configs -> BOOLEAN]
    BY <1>1, <1>5 DEF ChangeToken
  <2>2. QED
    BY <1>2, <1>5, <2>1 DEF ChangeToken, TypeOK, configVars
<1>6. ASSUME NEW u \in Users, NEW c \in Configs, ApplyUser(u, c) \/ EditUser(u, c)
      PROVE  TypeOK'
  <2>1. user' \in [Users -> ObjectsUsers]
    <3>1. CASE ApplyUser(u, c)
      BY <1>1, <3>1, NewUserTypes DEF ApplyUser
    <3>2. CASE EditUser(u, c)
      <4>1. [user[u] EXCEPT !.ref = c] \in ObjectsUsers
        BY <1>1, <3>2, UserTypes DEF EditUser
      <4>2. user' = [user EXCEPT ![u] = [user[u] EXCEPT !.ref = c]]
        BY <3>2 DEF EditUser
      <4>3. QED
        BY <1>1, <4>1, <4>2
    <3>3. QED
      BY <1>6, <3>1, <3>2
  <2>2. /\ UNCHANGED mishaps \/ Mishap
        /\ UNCHANGED <<configVars, token, usage, task, usageCache>>
    BY <1>6 DEF ApplyUser, EditUser
  <2>3. QED
    BY <1>1, <1>2, <2>1, <2>2 DEF TypeOK, configVars
<1>7. ASSUME NEW u \in Users, DeleteUser(u)
      PROVE  TypeOK'
  <2>1. PICK o \in ObjectsUsers : user' = [user EXCEPT ![u] = o]
    <3>1. user[u] \in ObjectsUsers /\ user[u].phase = "live"
      BY <1>1, <1>7 DEF DeleteUser
    <3>2. [user[u] EXCEPT !.deleting = TRUE] \in ObjectsUsers
      BY <3>1, UserTypes
    <3>3. QED
      BY <1>7, <3>2 DEF DeleteUser, ObjectsUsers
  <2>2. user' \in [Users -> ObjectsUsers]
    BY <1>1, <2>1
  <2>3. QED
    BY <1>7, <2>2 DEF DeleteUser, TypeOK, configVars
<1>8. ASSUME NEW u \in Users, CollectUsage(u)
      PROVE  TypeOK'
  <2>1. /\ usage' \in [Users -> Configs \cup {None}]
        /\ settled' \in [Configs -> SUBSET Users]
    BY <1>1, <1>8 DEF CollectUsage
  <2>2. QED
    BY <1>8, <2>1 DEF CollectUsage, TypeOK
<1>9. QED
  BY <1>3, <1>4, <1>5, <1>6, <1>7, <1>8 DEF Environment

LEMMA TypeStep ==
    ASSUME TypeOK, [Next]_vars
    PROVE  TypeOK'
<1>1. CASE UNCHANGED vars
  BY <1>1 DEF vars, configVars, userVars, TypeOK
<1>2. CASE Next
  BY <1>2, ReconcileTypes, AccountTypes, RestartTypes, EnvironmentTypes DEF Next
<1>3. QED
  BY <1>1, <1>2

\* Every variable keeps its type.
THEOREM TypeCorrect == Spec => []TypeOK
<1>1. Init => TypeOK
  <2> SUFFICES ASSUME Init PROVE TypeOK
    OBVIOUS
  <2>1. Copy(NewConfig) \in Copies
    BY ConfigTypes, CopyTypes
  <2>2. configCache \in [Workers -> [Configs -> Copies]]
    BY <2>1 DEF Init
  <2>3. 0 \in 0..MaxMishaps
    BY ProviderConfigAssumption
  <2>4. config \in [Configs -> ProviderConfigs] /\ user \in [Users -> ObjectsUsers]
    BY DEF Init, ProviderConfigs, ObjectsUsers
  <2>5. QED
    BY <2>2, <2>3, <2>4 DEF Init, TypeOK
<1>2. TypeOK /\ [Next]_vars => TypeOK'
  BY TypeStep
<1>3. QED
  BY <1>1, <1>2, PTL DEF Spec

------------------------------------------------------------------------------
(* Accounting, action by action. *)

\* What the controller and the users of a ProviderConfig do not touch.
accountVars == <<config, configCache, count, settled, usage, usageCache>>

LEMMA SameAccounting ==
    ASSUME Accounting, UNCHANGED accountVars
    PROVE  Accounting'
BY DEF accountVars, Accounting, CopiesAgree, CountsAgree, SettledKnown, SettledUsersKeepConfig

\* A user settles or leaves: only fewer users are settled, and what the caches
\* know of them stays.
LEMMA FewerSettled ==
    ASSUME TypeOK, Accounting, UNCHANGED <<config, configCache, count, usageCache>>,
           \A c \in Configs : settled'[c] \subseteq settled[c],
           \A c \in Configs : \A u \in settled'[c] : usage'[u] = usage[u] \/ usage'[u] = c
    PROVE  Accounting'
<1>1. CopiesAgree'
  BY DEF Accounting, CopiesAgree
<1>2. CountsAgree'
  <2> SUFFICES ASSUME NEW w \in Workers, count[w] # NotCounting
               PROVE  LET t == count[w] IN
                        /\ t.cur => /\ config[t.config].phase = "live"
                                    /\ config[t.config].deleting = t.deleting
                        /\ t.pc = "finalize" => t.deleting
                        /\ t.pc = "finalize" /\ t.cur => settled'[t.config] = {}
    BY DEF CountsAgree
  <2>1. count[w].config \in Configs
    BY CountTypes DEF Counting
  <2>2. settled'[count[w].config] \subseteq settled[count[w].config]
    BY <2>1
  <2>3. QED
    BY <2>2 DEF Accounting, CountsAgree
<1>3. SettledKnown'
  BY DEF Accounting, SettledKnown
<1>4. SettledUsersKeepConfig'
  <2>1. \A c \in Configs : settled'[c] # {} => settled[c] # {}
    OBVIOUS
  <2>2. QED
    BY <2>1 DEF Accounting, SettledUsersKeepConfig
<1>5. QED
  BY <1>1, <1>2, <1>3, <1>4 DEF Accounting

\* A usage is tracked, or collected.
LEMMA UsageAccounting ==
    ASSUME TypeOK, Accounting, NEW u \in Users,
           (\E w \in Workers : TrackProviderConfig(w, u)) \/ CollectUsage(u)
    PROVE  Accounting'
<1>1. usage \in [Users -> Configs \cup {None}] /\ settled \in [Configs -> SUBSET Users]
  BY DEF TypeOK
<1>2. CASE \E w \in Workers : TrackProviderConfig(w, u)
  <2> DEFINE ref == user[u].ref
  <2>1. /\ usage' = [usage EXCEPT ![u] = ref]
        /\ settled' = [c \in Configs |-> IF c = ref THEN settled[c] ELSE settled[c] \ {u}]
        /\ UNCHANGED <<config, configCache, count, usageCache>>
    BY <1>2 DEF TrackProviderConfig
  <2> HIDE DEF ref
  <2>2. \A c \in Configs : settled'[c] \subseteq settled[c]
    BY <2>1
  <2>3. \A c \in Configs : \A v \in settled'[c] : usage'[v] = usage[v] \/ usage'[v] = c
    BY <1>1, <2>1
  <2>4. QED
    BY <2>1, <2>2, <2>3, FewerSettled
<1>3. CASE CollectUsage(u)
  <2>1. /\ usage' = [usage EXCEPT ![u] = None]
        /\ settled' = [c \in Configs |-> settled[c] \ {u}]
        /\ UNCHANGED <<config, configCache, count, usageCache>>
    BY <1>3 DEF CollectUsage
  <2>2. \A c \in Configs : settled'[c] \subseteq settled[c]
    BY <2>1
  <2>3. \A c \in Configs : \A v \in settled'[c] : usage'[v] = usage[v] \/ usage'[v] = c
    BY <1>1, <2>1
  <2>4. QED
    BY <2>1, <2>2, <2>3, FewerSettled
<1>4. QED
  BY <1>2, <1>3

\* Informers deliver what is stored; a restart delivers everything.
LEMMA CacheAccounting ==
    ASSUME TypeOK, Accounting, NEW w \in Workers, Sync(w) \/ Restart(w)
    PROVE  Accounting'
<1>1. /\ configCache \in [Workers -> [Configs -> Copies]]
      /\ config \in [Configs -> ProviderConfigs]
      /\ usageCache \in [Workers -> [Users -> Configs \cup {None}]]
      /\ count \in [Workers -> {NotCounting} \cup Counting]
      /\ settled \in [Configs -> SUBSET Users]
  BY DEF TypeOK
<1>2. /\ UNCHANGED <<config, settled, usage>>
      /\ \A v \in Workers : count'[v] = count[v] \/ count'[v] = NotCounting
  BY <1>1 DEF Sync, SyncUsage, SyncConfig, Restart, userVars
<1>3. \A v \in Workers, c \in Configs :
         configCache'[v][c] = configCache[v][c] \/ configCache'[v][c] = Copy(config[c])
  <2>1. CASE \E u \in Users : SyncUsage(w, u)
    BY <2>1 DEF SyncUsage
  <2>2. ASSUME NEW c \in Configs, SyncConfig(w, c)
        PROVE  \A v \in Workers, d \in Configs :
                  configCache'[v][d] = IF v = w /\ d = c THEN Copy(config[c])
                                                        ELSE configCache[v][d]
    BY <1>1, <2>2 DEF SyncConfig
  <2>3. CASE Restart(w)
    BY <1>1, <2>3 DEF Restart
  <2>4. QED
    BY <2>1, <2>2, <2>3 DEF Sync
<1>4. \A v \in Workers, u \in Users :
         usageCache'[v][u] = usageCache[v][u] \/ usageCache'[v][u] = usage[u]
  <2>1. ASSUME NEW u \in Users, SyncUsage(w, u)
        PROVE  \A v \in Workers, x \in Users :
                  usageCache'[v][x] = IF v = w /\ x = u THEN usage[u] ELSE usageCache[v][x]
    BY <1>1, <2>1 DEF SyncUsage
  <2>2. CASE \E c \in Configs : SyncConfig(w, c)
    BY <2>2 DEF SyncConfig
  <2>3. CASE Restart(w)
    BY <1>1, <2>3 DEF Restart
  <2>4. QED
    BY <2>1, <2>2, <2>3 DEF Sync
<1>5. CopiesAgree'
  <2>1. \A c \in Configs : Copy(config[c]).phase = config[c].phase
                           /\ Copy(config[c]).deleting = config[c].deleting
    BY <1>1, CopyTypes
  <2>2. QED
    BY <1>2, <1>3, <2>1 DEF Accounting, CopiesAgree
<1>6. CountsAgree'
  BY <1>2 DEF Accounting, CountsAgree
<1>7. SettledKnown'
  <2> SUFFICES ASSUME NEW c \in Configs, NEW u \in settled[c]
               PROVE  usage[u] = c /\ \A v \in Workers : usageCache'[v][u] = c
    BY <1>2 DEF SettledKnown
  <2>1. usage[u] = c /\ \A v \in Workers : usageCache[v][u] = c
    BY DEF Accounting, SettledKnown
  <2>2. u \in Users
    BY <1>1
  <2>3. QED
    BY <1>4, <2>1, <2>2
<1>8. SettledUsersKeepConfig'
  BY <1>2 DEF Accounting, SettledUsersKeepConfig
<1>9. QED
  BY <1>5, <1>6, <1>7, <1>8 DEF Accounting

\* A reconcile of a ProviderConfig begins, counts, or ends without a write.  It
\* counts no usage only when no user is settled.
LEMMA CountAccounting ==
    ASSUME TypeOK, Accounting, NEW w \in Workers,
           \/ \E c \in Configs : Begin(w, c)
           \/ ListUsages(w) \/ Conflict(w) \/ CountFails(w)
    PROVE  Accounting'
<1> DEFINE Agrees(t) ==
             t # NotCounting =>
               /\ t.cur => /\ config[t.config].phase = "live"
                           /\ config[t.config].deleting = t.deleting
               /\ t.pc = "finalize" => t.deleting
               /\ t.pc = "finalize" /\ t.cur => settled[t.config] = {}
<1>1. /\ count \in [Workers -> {NotCounting} \cup Counting]
      /\ UNCHANGED <<config, configCache, settled, usage, usageCache>>
  BY DEF TypeOK, Begin, ListUsages, Conflict, CountFails, userVars
<1>2. ASSUME NEW t, Agrees(t), count' = [count EXCEPT ![w] = t]
      PROVE  Accounting'
  <2>1. \A v \in Workers : Agrees(count[v])
    BY DEF Accounting, CountsAgree
  <2>2. \A v \in Workers : Agrees(count'[v])
    BY <1>1, <1>2, <2>1
  <2>3. CountsAgree'
    BY <1>1, <2>2 DEF CountsAgree
  <2>4. QED
    BY <1>1, <2>3 DEF Accounting, CopiesAgree, SettledKnown, SettledUsersKeepConfig
<1>3. ASSUME NEW c \in Configs, Begin(w, c)
      PROVE  Accounting'
  <2> DEFINE copy == configCache[w][c]
             t == [pc |-> "list", config |-> c, deleting |-> copy.deleting,
                   cur |-> copy.cur, users |-> 0]
  <2>1. count' = [count EXCEPT ![w] = IF copy.phase = "live" THEN t ELSE NotCounting]
    BY <1>3 DEF Begin
  <2>2. t.pc = "list" /\ t.config = c /\ t.cur = copy.cur /\ t.deleting = copy.deleting
    OBVIOUS
  <2>3. copy.cur => copy.phase = config[c].phase /\ copy.deleting = config[c].deleting
    BY DEF Accounting, CopiesAgree
  <2> HIDE DEF t, copy
  <2>4. Agrees(IF copy.phase = "live" THEN t ELSE NotCounting)
    BY <2>2, <2>3
  <2>5. QED
    BY <1>2, <2>1, <2>4
<1>4. CASE ListUsages(w)
  <2> DEFINE t == count[w]
             known == {u \in Users : usageCache[w][u] = t.config}
             n == Cardinality(known)
             next == [t EXCEPT !.users = n, !.pc = AfterList(t.deleting, n)]
  <2>1. t # NotCounting /\ t \in Counting
    BY <1>4, CountTypes DEF ListUsages, NotCounting
  <2>2. t.config \in Configs
    BY <2>1 DEF Counting
  <2>3. /\ next.pc = AfterList(t.deleting, n) /\ next.config = t.config
        /\ next.deleting = t.deleting /\ next.cur = t.cur
    BY <2>1 DEF Counting
  <2>4. next.pc = "finalize" => t.deleting /\ ~(n > 0)
    BY <2>3 DEF AfterList
  <2>5. n \in Nat /\ (n = 0 => known = {})
    <3>1. IsFiniteSet(known)
      BY ProviderConfigAssumption, FS_Subset
    <3>2. QED
      BY <3>1, FS_CardinalityType, FS_EmptySet
  <2>6. settled[t.config] \subseteq known
    BY <2>2 DEF Accounting, SettledKnown, TypeOK
  <2>7. count' = [count EXCEPT ![w] = next]
    BY <1>1, <1>4 DEF ListUsages
  <2>8. Agrees(t)
    BY DEF Accounting, CountsAgree
  <2> HIDE DEF next, n, known, t
  <2>9. next.pc = "finalize" => settled[t.config] = {}
    BY <2>4, <2>5, <2>6
  <2>10. Agrees(next)
    BY <2>1, <2>3, <2>4, <2>8, <2>9
  <2>11. QED
    BY <1>2, <2>7, <2>10
<1>5. CASE Conflict(w) \/ CountFails(w)
  <2>1. count' = [count EXCEPT ![w] = NotCounting]
    BY <1>5 DEF Conflict, CountFails
  <2>2. QED
    BY <1>2, <2>1
<1>6. QED
  BY <1>3, <1>4, <1>5

\* The controller writes a ProviderConfig.
LEMMA SaveAccounting ==
    ASSUME TypeOK, Accounting, NEW w \in Workers, NEW o \in ProviderConfigs,
           NEW t \in {NotCounting} \cup Counting,
           count[w] # NotCounting, Save(w, o, t),
           UNCHANGED <<settled, usage, usageCache>>,
           \/ settled[count[w].config] = {}
           \/ o.phase = "live" /\ o.deleting = config[count[w].config].deleting,
           t # NotCounting => /\ t.config = count[w].config /\ t.deleting = o.deleting
                              /\ o.phase = "live" /\ t.pc # "finalize"
    PROVE  Accounting'
<1> DEFINE c == count[w].config
<1>1. /\ c \in Configs /\ config'[c] = o /\ count'[w] = t
      /\ configCache' = Outdated(c, o)
      /\ \A d \in Configs : d # c => config'[d] = config[d]
      /\ \A v \in Workers : v # w =>
           /\ count'[v] = NotCounting <=> count[v] = NotCounting
           /\ count'[v].pc = count[v].pc /\ count'[v].config = count[v].config
           /\ count'[v].deleting = count[v].deleting
           /\ count'[v].cur => count[v].cur
           /\ count'[v].cur /\ count[v].config = c => o = config[c]
  BY SaveEffect
<1> HIDE DEF c
<1>2. CopiesAgree'
  <2>1. ASSUME NEW v \in Workers, NEW d \in Configs, Outdated(c, o)[v][d].cur
        PROVE  /\ Outdated(c, o)[v][d].phase = config'[d].phase
               /\ Outdated(c, o)[v][d].deleting = config'[d].deleting
    <3>1. config'[d] = config[d]
      BY <1>1, <2>1, OutdatedEffect
    <3>2. /\ configCache[v][d].phase = config[d].phase
          /\ configCache[v][d].deleting = config[d].deleting
      BY <1>1, <2>1, OutdatedEffect DEF Accounting, CopiesAgree
    <3>3. QED
      BY <1>1, <3>1, <3>2, OutdatedEffect
  <2>2. QED
    BY <1>1, <2>1 DEF CopiesAgree
<1>3. CountsAgree'
  <2>1. ASSUME NEW v \in Workers, count'[v] # NotCounting, v # w
        PROVE  /\ count'[v].cur => /\ config'[count'[v].config].phase = "live"
                                   /\ config'[count'[v].config].deleting = count'[v].deleting
               /\ count'[v].pc = "finalize" => count'[v].deleting
               /\ count'[v].pc = "finalize" /\ count'[v].cur => settled[count'[v].config] = {}
    <3>1. count[v] # NotCounting
      BY <1>1, <2>1
    <3>2. count[v].config \in Configs
      BY <3>1, CountTypes DEF Counting
    <3>3. count'[v].cur => config'[count[v].config] = config[count[v].config]
      BY <1>1, <2>1, <3>2
    <3>4. /\ count[v].cur => /\ config[count[v].config].phase = "live"
                             /\ config[count[v].config].deleting = count[v].deleting
          /\ count[v].pc = "finalize" => count[v].deleting
          /\ count[v].pc = "finalize" /\ count[v].cur => settled[count[v].config] = {}
      BY <3>1 DEF Accounting, CountsAgree
    <3>5. QED
      BY <1>1, <2>1, <3>3, <3>4
  <2>2. ASSUME t # NotCounting
        PROVE  /\ config'[t.config].phase = "live" /\ config'[t.config].deleting = t.deleting
               /\ t.pc # "finalize"
    BY <1>1, <2>2 DEF c
  <2>3. QED
    BY <1>1, <2>1, <2>2 DEF CountsAgree
<1>4. SettledKnown'
  BY DEF Accounting, SettledKnown
<1>5. SettledUsersKeepConfig'
  BY <1>1 DEF Accounting, SettledUsersKeepConfig, c
<1>6. QED
  BY <1>2, <1>3, <1>4, <1>5 DEF Accounting

LEMMA WriteAccounting ==
    ASSUME TypeOK, Accounting, NEW w \in Workers,
           AddFinalizer(w) \/ RemoveFinalizer(w) \/ UpdateStatus(w)
    PROVE  Accounting'
<1> DEFINE t == count[w]
           stored == config[t.config]
<1>1. t \in Counting /\ t # NotCounting /\ t.config \in Configs
  <2>1. t \in Counting /\ t # NotCounting
    BY CountTypes DEF AddFinalizer, RemoveFinalizer, UpdateStatus, NotCounting
  <2>2. QED
    BY <2>1 DEF Counting
<1>2. /\ stored \in ProviderConfigs /\ stored.phase = "live" /\ t.cur
      /\ UNCHANGED <<settled, usage, usageCache>>
  BY <1>1 DEF TypeOK, AddFinalizer, RemoveFinalizer, UpdateStatus, Save, userVars
<1>3. /\ stored.deleting = t.deleting
      /\ t.pc = "finalize" => settled[t.config] = {}
  BY <1>1, <1>2 DEF Accounting, CountsAgree
<1>4. CASE AddFinalizer(w)
  <2> DEFINE o == [stored EXCEPT !.finalizer = TRUE]
             u == [t EXCEPT !.pc = "status"]
  <2>1. Save(w, o, u)
    BY <1>4 DEF AddFinalizer
  <2>2. u \in Counting /\ u.config = t.config /\ u.deleting = t.deleting /\ u.pc = "status"
    BY <1>1 DEF Counting
  <2>3. o \in ProviderConfigs /\ o.phase = "live" /\ o.deleting = stored.deleting
    BY <1>2, Counted, WrittenTypes
  <2> HIDE DEF o, u, t
  <2>4. QED
    BY <1>1, <1>2, <1>3, <2>1, <2>2, <2>3, SaveAccounting DEF t
<1>5. CASE RemoveFinalizer(w)
  <2>1. Save(w, GoneConfig, NotCounting) /\ settled[t.config] = {}
    BY <1>3, <1>5 DEF RemoveFinalizer
  <2>2. QED
    BY <1>1, <1>2, <2>1, ConfigTypes, SaveAccounting
<1>6. CASE UpdateStatus(w)
  <2> DEFINE o == [stored EXCEPT !.users = t.users]
  <2>1. Save(w, o, NotCounting)
    BY <1>6 DEF UpdateStatus
  <2>2. t.users \in 0..Cardinality(Users)
    BY <1>1 DEF Counting
  <2>3. o \in ProviderConfigs /\ o.phase = "live" /\ o.deleting = stored.deleting
    BY <1>2, <2>2, WrittenTypes
  <2> HIDE DEF o
  <2>4. QED
    BY <1>1, <1>2, <2>1, <2>3, SaveAccounting
<1>7. QED
  BY <1>4, <1>5, <1>6

\* A ProviderConfig is applied or its deletion is requested.  A reconcile that is
\* about to finalize it has not read this request, and loses its write.
LEMMA StoreAccounting ==
    ASSUME TypeOK, Accounting, NEW c \in Configs, ApplyConfig(c) \/ DeleteConfig(c)
    PROVE  Accounting'
<1>1. /\ config \in [Configs -> ProviderConfigs] /\ settled \in [Configs -> SUBSET Users]
      /\ UNCHANGED <<usage, usageCache>>
  BY DEF TypeOK, ApplyConfig, DeleteConfig, userVars
<1>2. settled[c] = {} /\ ~config[c].deleting
  <2>1. ~config[c].deleting
    BY ConfigTypes DEF ApplyConfig, DeleteConfig
  <2>2. QED
    BY <2>1 DEF Accounting, SettledUsersKeepConfig
<1>3. PICK o \in ProviderConfigs :
         /\ Store(c, o)
         /\ \A d \in Configs : d # c => settled'[d] = settled[d]
         /\ settled'[c] # {} => o.phase = "live" /\ o.deleting
         /\ \A u \in settled'[c] : usage[u] = c /\ \A w \in Workers : usageCache[w][u] = c
  <2>1. CASE ApplyConfig(c)
    BY <1>1, <1>2, <2>1, NewlyApplied DEF ApplyConfig
  <2>2. CASE DeleteConfig(c)
    <3>1. config[c] \in ProviderConfigs /\ config[c].phase = "live"
      BY <1>1, <2>2 DEF DeleteConfig
    <3>2. CASE config[c].finalizer
      <4> DEFINE o == [config[c] EXCEPT !.deleting = TRUE]
                 known == {u \in UsersOf(c) : \A w \in Workers : usageCache[w][u] = c}
      <4>1. o \in ProviderConfigs /\ o.phase = "live" /\ o.deleting
        BY <3>1, Counted, WrittenTypes
      <4>2. Store(c, o) /\ settled' = [settled EXCEPT ![c] = known]
        BY <2>2, <3>2 DEF DeleteConfig
      <4>3. \A u \in known : usage[u] = c /\ \A w \in Workers : usageCache[w][u] = c
        BY DEF UsersOf
      <4> HIDE DEF o, known
      <4>4. settled'[c] = known /\ \A d \in Configs : d # c => settled'[d] = settled[d]
        BY <1>1, <4>2
      <4>5. QED
        BY <4>1, <4>2, <4>3, <4>4
    <3>3. CASE ~config[c].finalizer
      BY <1>2, <2>2, <3>3, ConfigTypes DEF DeleteConfig
    <3>4. QED
      BY <3>2, <3>3
  <2>3. QED
    BY <2>1, <2>2
<1>4. /\ config'[c] = o /\ configCache' = Outdated(c, o)
      /\ \A d \in Configs : d # c => config'[d] = config[d]
      /\ \A w \in Workers :
           /\ count'[w] = NotCounting <=> count[w] = NotCounting
           /\ count'[w].pc = count[w].pc /\ count'[w].config = count[w].config
           /\ count'[w].deleting = count[w].deleting
           /\ count'[w].cur => count[w].cur
           /\ count'[w].cur /\ count[w].config = c => o = config[c]
  BY <1>3, StoreEffect
<1>5. CopiesAgree'
  <2>1. ASSUME NEW v \in Workers, NEW d \in Configs, Outdated(c, o)[v][d].cur
        PROVE  /\ Outdated(c, o)[v][d].phase = config'[d].phase
               /\ Outdated(c, o)[v][d].deleting = config'[d].deleting
    <3>1. config'[d] = config[d]
      BY <1>4, <2>1, OutdatedEffect
    <3>2. /\ configCache[v][d].phase = config[d].phase
          /\ configCache[v][d].deleting = config[d].deleting
      BY <2>1, OutdatedEffect DEF Accounting, CopiesAgree
    <3>3. QED
      BY <3>1, <3>2, OutdatedEffect
  <2>2. QED
    BY <1>4, <2>1 DEF CopiesAgree
<1>6. CountsAgree'
  <2>1. ASSUME NEW v \in Workers, count'[v] # NotCounting
        PROVE  /\ count'[v].cur => /\ config'[count'[v].config].phase = "live"
                                   /\ config'[count'[v].config].deleting = count'[v].deleting
               /\ count'[v].pc = "finalize" => count'[v].deleting
               /\ count'[v].pc = "finalize" /\ count'[v].cur => settled'[count'[v].config] = {}
    <3>1. count[v] # NotCounting
      BY <1>4, <2>1
    <3>2. count[v].config \in Configs
      BY <3>1, CountTypes DEF Counting
    <3>3. count'[v].cur => config'[count[v].config] = config[count[v].config]
      BY <1>4, <3>2
    <3>4. /\ count[v].cur => /\ config[count[v].config].phase = "live"
                             /\ config[count[v].config].deleting = count[v].deleting
          /\ count[v].pc = "finalize" => count[v].deleting
          /\ count[v].pc = "finalize" /\ count[v].cur => settled[count[v].config] = {}
      BY <3>1 DEF Accounting, CountsAgree
    <3>5. count[v].pc = "finalize" /\ count[v].cur => count[v].config # c
      BY <1>2, <3>4
    <3>6. QED
      BY <1>3, <1>4, <3>2, <3>3, <3>4, <3>5
  <2>2. QED
    BY <2>1 DEF CountsAgree
<1>7. SettledKnown'
  BY <1>1, <1>3 DEF Accounting, SettledKnown
<1>8. SettledUsersKeepConfig'
  BY <1>3, <1>4 DEF Accounting, SettledUsersKeepConfig
<1>9. QED
  BY <1>5, <1>6, <1>7, <1>8 DEF Accounting

LEMMA AccountingStep ==
    ASSUME TypeOK, Accounting, [Next]_vars
    PROVE  Accounting'
<1>1. CASE UNCHANGED vars
  BY <1>1, SameAccounting DEF vars, configVars, userVars, accountVars
<1>2. ASSUME NEW w \in Workers,
             Sync(w) \/ Account(w) \/ CountFails(w) \/ Restart(w)
      PROVE  Accounting'
  BY <1>2, CacheAccounting, CountAccounting, WriteAccounting DEF Account
<1>3. ASSUME NEW w \in Workers, NEW u \in Users, Reconcile(w, u) \/ ReconcileFails(w, u)
      PROVE  Accounting'
  <2>1. TrackProviderConfig(w, u) \/ UNCHANGED accountVars
    BY <1>3 DEF Reconcile, FetchProviderConfig, ReadApiToken, Manage, ReconcileFails,
                configVars, accountVars
  <2>2. QED
    BY <2>1, SameAccounting, UsageAccounting
<1>4. CASE \E u \in Users : CollectUsage(u)
  BY <1>4, UsageAccounting
<1>5. CASE Environment
  <2>1. \/ \E c \in Configs : ApplyConfig(c) \/ DeleteConfig(c)
        \/ UNCHANGED accountVars
    BY <1>5 DEF Environment, ChangeToken, ApplyUser, EditUser, DeleteUser, configVars,
                accountVars
  <2>2. QED
    BY <2>1, SameAccounting, StoreAccounting
<1>6. QED
  BY <1>1, <1>2, <1>3, <1>4, <1>5 DEF Next

\* The controller never finalizes a ProviderConfig by a count that missed a settled
\* user: what it has in memory and in its caches accounts for them all.
THEOREM AccountingAlways == Spec => []Accounting
<1>1. Init => Accounting
  <2> SUFFICES ASSUME Init PROVE Accounting
    OBVIOUS
  <2>1. /\ Copy(NewConfig).phase = NewConfig.phase
        /\ Copy(NewConfig).deleting = NewConfig.deleting
    BY ConfigTypes, CopyTypes
  <2>2. CopiesAgree
    BY <2>1 DEF Init, CopiesAgree
  <2>3. CountsAgree /\ SettledKnown /\ SettledUsersKeepConfig
    BY DEF Init, CountsAgree, SettledKnown, SettledUsersKeepConfig
  <2>4. QED
    BY <2>2, <2>3 DEF Accounting
<1>2. TypeOK /\ Accounting /\ [Next]_vars => Accounting'
  BY AccountingStep
<1>3. QED
  BY <1>1, <1>2, TypeCorrect, PTL DEF Spec

\* A ProviderConfig whose deletion is requested stays until every ObjectsUser whose
\* usage the operator knew at that time has stopped using it.
THEOREM SettledUsersKept == Spec => []SettledUsersKeepConfig
<1>1. Accounting => SettledUsersKeepConfig
  BY DEF Accounting
<1>2. QED
  BY <1>1, AccountingAlways, PTL

================================================================================
