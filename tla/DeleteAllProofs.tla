----------------------------- MODULE DeleteAllProofs ----------------------------
(***************************************************************************)
(* What deleteAllObjects promises when it returns nil, for any number of   *)
(* objects, any size of batch, and any uploads and failures meanwhile.     *)
(*                                                                         *)
(* The argument: as long as no error is on its way to deleteAllObjects,    *)
(* every object that was listed and is still in the bucket is in the hands *)
(* of the lister or in the batch of the remover; when the remover is done, *)
(* there are neither.                                                      *)
(***************************************************************************)
EXTENDS DeleteAll, FiniteSetTheorems, TLAPS

\* Nothing is in the hands of a party that is past it.
Handed ==
    /\ IsFiniteSet(run.batch)
    /\ ~Started => /\ run.seen = {} /\ run.start = {}
                   /\ run.lister = "listing" /\ run.remover = "gather"
    /\ run.remover = "gather" => ~run.last
    /\ run.lister = "sending" => run.offer \in run.seen
    /\ run.lister # "sending" => run.offer = None
    /\ run.remover = "report" => run.batch = {}
    /\ run.remover = "report" /\ run.last => run.lister = "done"
    /\ run.remover = "request" /\ run.last => run.lister = "done"
    /\ run.remover = "done" => run.lister = "done" /\ run.batch = {}
    /\ run.remover # "report" => run.errors = 0
    /\ run.seen \cup run.start \cup bucket \subseteq uploaded

\* What was listed and is still there, when no error says otherwise.
InHand ==
    run.caller \in {"waiting", "ok"} /\ run.buffered = 0 /\ run.errors = 0
        => run.seen \cap bucket \subseteq run.batch \cup {run.offer}

\* A listing that ended without an error has told of everything.
Listed ==
    run.lister = "done" /\ ~run.skipped => run.start \cap bucket \subseteq run.seen

Concluded == run.caller = "ok" => run.remover = "done" /\ run.buffered = 0

Removal == TypeOK /\ Handed /\ InHand /\ Listed /\ Concluded

\* The strengthening implies the property.
LEMMA RemovalImplies == Removal => NilMeansRemoved
  <1> SUFFICES ASSUME Removal, run.caller = "ok"
               PROVE  /\ run.seen \cap bucket = {}
                      /\ run.skipped \/ run.start \cap bucket = {}
    BY DEF NilMeansRemoved
  <1>1. run.remover = "done" /\ run.buffered = 0 /\ run.lister = "done"
        /\ run.batch = {} /\ run.errors = 0 /\ run.offer = None
    BY DEF Removal, Concluded, Handed
  <1>2. run.seen \cap bucket \subseteq {None}
    BY <1>1 DEF Removal, InHand
  <1>3. bucket \subseteq Objects
    BY DEF Removal, TypeOK
  <1>4. run.seen \cap bucket = {}
    BY <1>2, <1>3, DeleteAllAssumption
  <1> QED
    BY <1>1, <1>4 DEF Removal, Listed

\* It holds in the beginning.
LEMMA RemovalInit == Init => Removal
  <1> SUFFICES ASSUME Init PROVE Removal
    OBVIOUS
  <1> USE DEF Init, NotStarted, Started
  <1>1. run \in Runs
    BY DEF Runs
  <1>2. IsFiniteSet(run.batch)
    BY FS_EmptySet
  <1> QED
    BY <1>1, <1>2 DEF Removal, TypeOK, Handed, InHand, Listed, Concluded

\* It is kept by every step.
LEMMA RemovalNext == Removal /\ [Next]_vars => Removal'
  <1> SUFFICES ASSUME Removal, [Next]_vars PROVE Removal'
    OBVIOUS
  <1> USE DEF Removal, TypeOK, Handed, InHand, Listed, Concluded, Started
  <1>0. run \in Runs
    OBVIOUS
  <1>1. CASE Start
    <2>1. run' \in Runs
      BY <1>1 DEF Start, GoOn, Runs
    <2>2. UNCHANGED <<bucket, uploaded>>
      BY <1>1 DEF Start, GoOn
    <2>3. /\ run'.caller = "waiting" /\ run'.start = bucket
          /\ run'.ctx = run.ctx /\ run'.lister = run.lister
          /\ run'.offer = run.offer /\ run'.seen = run.seen
          /\ run'.skipped = run.skipped /\ run'.remover = run.remover
          /\ run'.batch = run.batch /\ run'.last = run.last
          /\ run'.errors = run.errors /\ run'.buffered = run.buffered
          /\ run'.failures = run.failures
      BY <1>1 DEF Start, GoOn, Runs
    <2> QED
      BY <2>1, <2>2, <2>3, <1>1 DEF Start, Runs
  <1>2. CASE ReturnError
    <2>1. run' \in Runs
      <3>1. 0 \in {0, 1} /\ "failed" \in {"idle", "waiting", "ok", "failed"}
        OBVIOUS
      <3> QED
        BY <3>1, <1>2 DEF ReturnError, GoOn, Runs
    <2>2. UNCHANGED <<bucket, uploaded>>
      BY <1>2 DEF ReturnError, GoOn
    <2>3. /\ run'.caller = "failed" /\ run'.buffered = 0 /\ run'.ctx = run.ctx
          /\ run'.lister = run.lister /\ run'.offer = run.offer
          /\ run'.seen = run.seen /\ run'.skipped = run.skipped
          /\ run'.remover = run.remover /\ run'.batch = run.batch
          /\ run'.last = run.last /\ run'.errors = run.errors
          /\ run'.start = run.start /\ run'.failures = run.failures
      BY <1>2 DEF ReturnError, GoOn, Runs
    <2> QED
      BY <2>1, <2>2, <2>3, <1>2 DEF ReturnError, Runs
  <1>3. CASE ReturnNil
    <2>1. run' \in Runs
      BY <1>3 DEF ReturnNil, GoOn, Runs
    <2>2. UNCHANGED <<bucket, uploaded>>
      BY <1>3 DEF ReturnNil, GoOn
    <2>3. /\ run'.caller = "ok" /\ run'.ctx = run.ctx
          /\ run'.lister = run.lister /\ run'.offer = run.offer
          /\ run'.seen = run.seen /\ run'.skipped = run.skipped
          /\ run'.remover = run.remover /\ run'.batch = run.batch
          /\ run'.last = run.last /\ run'.errors = run.errors
          /\ run'.buffered = run.buffered /\ run'.start = run.start
          /\ run'.failures = run.failures
      BY <1>3 DEF ReturnNil, GoOn, Runs
    <2> QED
      BY <2>1, <2>2, <2>3, <1>3 DEF ReturnNil, Runs
  <1>4. CASE List
    <2>1. PICK o \in bucket \ run.seen :
            GoOn([run EXCEPT !.lister = "sending", !.offer = o, !.seen = @ \cup {o}])
      BY <1>4 DEF List
    <2>2. run' \in Runs
      BY <2>1 DEF GoOn, Runs
    <2>3. UNCHANGED <<bucket, uploaded>>
      BY <1>4, <2>1 DEF List, GoOn
    <2>4. /\ run'.lister = "sending" /\ run'.offer = o
          /\ run'.seen = run.seen \cup {o} /\ run'.caller = run.caller
          /\ run'.ctx = run.ctx /\ run'.skipped = run.skipped
          /\ run'.remover = run.remover /\ run'.batch = run.batch
          /\ run'.last = run.last /\ run'.errors = run.errors
          /\ run'.buffered = run.buffered /\ run'.start = run.start
          /\ run'.failures = run.failures
      BY <2>1 DEF GoOn, Runs
    <2>5. run.offer = None
      BY <1>4 DEF List
    <2>6. o \in uploaded
      BY <2>1
    <2> QED
      BY <2>2, <2>3, <2>4, <2>5, <2>6, <1>4, DeleteAllAssumption DEF List, Runs
  <1>5. CASE ListingEnds
    <2>1. run' \in Runs
      BY <1>5 DEF ListingEnds, Close, GoOn, Runs
    <2>2. UNCHANGED <<bucket, uploaded>>
      BY <1>5 DEF ListingEnds, GoOn
    <2>3. /\ run'.lister = "done" /\ run'.caller = run.caller
          /\ run'.ctx = run.ctx /\ run'.offer = run.offer
          /\ run'.seen = run.seen /\ run'.skipped = run.skipped
          /\ run'.remover = run.remover /\ run'.batch = run.batch
          /\ run'.last = run.last /\ run'.errors = run.errors
          /\ run'.buffered = run.buffered /\ run'.start = run.start
          /\ run'.failures = run.failures
      BY <1>5 DEF ListingEnds, Close, GoOn, Runs
    <2> QED
      BY <2>1, <2>2, <2>3, <1>5 DEF ListingEnds, Runs
  <1>6. CASE ListingFails
    <2>1. run' \in Runs
      BY <1>6 DEF ListingFails, Close, GoOn, Runs
    <2>2. UNCHANGED <<bucket, uploaded>>
      BY <1>6 DEF ListingFails, GoOn
    <2>3. /\ run'.lister = "done" /\ run'.skipped = TRUE
          /\ run'.caller = run.caller /\ run'.ctx = run.ctx
          /\ run'.offer = run.offer /\ run'.seen = run.seen
          /\ run'.remover = run.remover /\ run'.batch = run.batch
          /\ run'.last = run.last /\ run'.errors = run.errors
          /\ run'.buffered = run.buffered /\ run'.start = run.start
          /\ run'.failures = run.failures
      BY <1>6 DEF ListingFails, Close, GoOn, Runs
    <2> QED
      BY <2>1, <2>2, <2>3, <1>6 DEF ListingFails, Runs
  <1>7. CASE Gather
    <2> DEFINE batch == run.batch \cup {run.offer}
    <2>1. PICK next \in {"request", run.remover} :
            GoOn([run EXCEPT !.lister = "listing", !.offer = None, !.batch = batch,
                             !.remover = next])
      BY <1>7 DEF Gather
    <2>2. batch \in SUBSET Objects /\ IsFiniteSet(batch)
      BY <1>7, FS_AddElement, DeleteAllAssumption DEF Gather, Runs
    <2>3. run' \in Runs
      BY <2>1, <2>2 DEF GoOn, Runs
    <2>4. UNCHANGED <<bucket, uploaded>>
      BY <1>7, <2>1 DEF Gather, GoOn
    <2>5. /\ run'.lister = "listing" /\ run'.offer = None /\ run'.batch = batch
          /\ run'.remover = next /\ run'.caller = run.caller
          /\ run'.ctx = run.ctx /\ run'.seen = run.seen
          /\ run'.skipped = run.skipped /\ run'.last = run.last
          /\ run'.errors = run.errors /\ run'.buffered = run.buffered
          /\ run'.start = run.start /\ run'.failures = run.failures
      BY <2>1 DEF GoOn, Runs
    <2> QED
      BY <2>2, <2>3, <2>4, <2>5, <1>7, DeleteAllAssumption DEF Gather, Runs
  <1>8. CASE GatherLast
    BY <1>8 DEF GatherLast, GoOn, Runs
  <1>9. CASE Request
    <2>1. PICK failed \in SUBSET run.batch, kept \in SUBSET run.batch :
            /\ kept \subseteq failed
            /\ bucket' = bucket \ (run.batch \ kept)
            /\ GoOn([run EXCEPT !.remover = "report", !.batch = {},
                                !.errors = Cardinality(failed),
                                !.failures = @ + Cardinality(failed)])
      BY <1>9 DEF Request
    <2>2. Cardinality(failed) \in Nat /\ (Cardinality(failed) = 0 => failed = {})
      BY FS_Subset, FS_CardinalityType, FS_EmptySet
    <2> DEFINE n == Cardinality(failed)
    <2>3. /\ run'.remover = "report" /\ run'.batch = {} /\ run'.errors = n
          /\ run'.failures = run.failures + n /\ run'.caller = run.caller
          /\ run'.ctx = run.ctx /\ run'.lister = run.lister
          /\ run'.offer = run.offer /\ run'.seen = run.seen
          /\ run'.skipped = run.skipped /\ run'.last = run.last
          /\ run'.buffered = run.buffered /\ run'.start = run.start
      BY <2>1 DEF GoOn, Runs
    <2>4. run.failures \in Nat /\ n \in Nat
      BY <2>2 DEF Runs
    <2> HIDE DEF n
    <2>5. run.failures + n \in Nat
      BY <2>4
    <2>6. run' \in Runs
      <3> DEFINE m == run.failures + n
      <3>1. run' = [run EXCEPT !.remover = "report", !.batch = {}, !.errors = n,
                               !.failures = m]
        BY <2>1 DEF GoOn, n
      <3> HIDE DEF m
      <3>2. m \in Nat
        BY <2>5 DEF m
      <3> QED
        BY <3>1, <3>2, <2>4 DEF Runs
    <2>7. n = 0 => kept = {}
      BY <2>1, <2>2 DEF n
    <2>8. bucket' \subseteq bucket /\ (bucket' \cap run.batch \subseteq kept) /\ uploaded' = uploaded
      BY <2>1 DEF GoOn
    <2>9. run.remover = "request" /\ IsFiniteSet({})
      BY <1>9, FS_EmptySet DEF Request
    <2> QED
      BY <2>3, <2>4, <2>6, <2>7, <2>8, <2>9 DEF Runs
  <1>10. CASE Report
    <2> DEFINE n == run.errors - 1
    <2>1. n \in Nat
      BY <1>10 DEF Report, Runs
    <2>2. run' = [run EXCEPT !.errors = n, !.buffered = 1]
      BY <1>10 DEF Report, GoOn
    <2> HIDE DEF n
    <2>3. run' \in Runs
      BY <2>1, <2>2 DEF Runs
    <2>4. UNCHANGED <<bucket, uploaded>>
      BY <1>10 DEF Report, GoOn
    <2>5. /\ run'.errors = n /\ run'.buffered = 1 /\ run'.caller = run.caller
          /\ run'.ctx = run.ctx /\ run'.lister = run.lister
          /\ run'.offer = run.offer /\ run'.seen = run.seen
          /\ run'.skipped = run.skipped /\ run'.remover = run.remover
          /\ run'.batch = run.batch /\ run'.last = run.last
          /\ run'.start = run.start /\ run'.failures = run.failures
      BY <2>2 DEF Runs
    <2> QED
      BY <2>3, <2>4, <2>5, <1>10 DEF Report, Runs
  <1>11. CASE Reported
    BY <1>11 DEF Reported, GoOn, Runs
  <1>12. CASE ContextEnds
    <2>1. run' \in Runs
      BY <1>12 DEF ContextEnds, GoOn, Runs
    <2>2. UNCHANGED <<bucket, uploaded>>
      BY <1>12 DEF ContextEnds, GoOn
    <2>3. /\ run'.ctx = FALSE /\ run'.caller = run.caller
          /\ run'.lister = run.lister /\ run'.offer = run.offer
          /\ run'.seen = run.seen /\ run'.skipped = run.skipped
          /\ run'.remover = run.remover /\ run'.batch = run.batch
          /\ run'.last = run.last /\ run'.errors = run.errors
          /\ run'.buffered = run.buffered /\ run'.start = run.start
          /\ run'.failures = run.failures
      BY <1>12 DEF ContextEnds, GoOn, Runs
    <2> QED
      BY <2>1, <2>2, <2>3, <1>12 DEF ContextEnds, Runs
  <1>13. CASE \E o \in Objects : Upload(o) \/ Remove(o)
    BY <1>13 DEF Upload, Remove
  <1>14. CASE UNCHANGED vars
    BY <1>14 DEF vars
  <1> QED
    BY <1>1, <1>2, <1>3, <1>4, <1>5, <1>6, <1>7, <1>8, <1>9, <1>10, <1>11, <1>12,
       <1>13, <1>14 DEF Next, Caller, Lister, Remover

\* The records, the sets and the counters stay well typed.
THEOREM TypeCorrect == Spec => []TypeOK
  <1>1. Removal => TypeOK
    BY DEF Removal
  <1> QED
    BY <1>1, RemovalInit, RemovalNext, PTL DEF Spec

\* When deleteAllObjects returns nil, nothing that it listed is there any more, and
\* nothing that was there when it began, unless the listing failed.
THEOREM RemovedWhenNil == Spec => []NilMeansRemoved
  BY RemovalInit, RemovalNext, RemovalImplies, PTL DEF Spec

==============================================================================
