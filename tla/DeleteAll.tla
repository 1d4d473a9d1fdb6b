-------------------------------- MODULE DeleteAll ------------------------------
(***************************************************************************)
(* Removing the objects of a bucket before the bucket itself:              *)
(* deleteAllObjects in operator/bucketcontroller/delete.go.  A goroutine   *)
(* lists the objects and sends them on an unbuffered channel to the        *)
(* remover, a goroutine of the minio client, that removes them in batches  *)
(* and sends what could not be removed on a channel with room for one.     *)
(* deleteAllObjects returns at the first thing it receives there, and      *)
(* nobody reads that channel any more.                                     *)
(*                                                                         *)
(* Module Bucket has all this in one step (RemoveObjects and its           *)
(* failures).  This is one attempt; what an earlier one has left running   *)
(* is, to this one, somebody else who removes objects.                     *)
(***************************************************************************)
EXTENDS Naturals, FiniteSets

CONSTANTS
    Objects,        \* objects there can be in the bucket
    BatchSize,      \* how many objects the remover puts into one request
    None

ASSUME DeleteAllAssumption == BatchSize \in Nat \ {0} /\ None \notin Objects

VARIABLES
    bucket,         \* the objects in the bucket
    uploaded,       \* the objects that have been there
    run             \* what the three parties are doing

vars == <<bucket, uploaded, run>>

------------------------------------------------------------------------------

Runs ==
    [caller: {"idle", "waiting", "ok", "failed"},   \* deleteAllObjects
     ctx: BOOLEAN,                      \* its context has not ended
     lister: {"listing", "sending", "done"},        \* done: objectsCh is closed
     offer: Objects \cup {None},        \* what the lister is sending
     seen: SUBSET Objects,              \* ghost: what it was told of
     skipped: BOOLEAN,                  \* ghost: the listing failed
     remover: {"gather", "request", "report", "done"},  \* done: the errors are closed
     batch: SUBSET Objects,
     last: BOOLEAN,                     \* there is no batch after this one
     errors: Nat,                       \* errors of this batch not sent yet
     buffered: {0, 1},                  \* errors sent and not received
     start: SUBSET Objects,             \* ghost: the bucket when the attempt began
     failures: Nat]                     \* ghost: errors in all

NotStarted == [caller |-> "idle", ctx |-> TRUE, lister |-> "listing", offer |-> None,
               seen |-> {}, skipped |-> FALSE, remover |-> "gather", batch |-> {},
               last |-> FALSE, errors |-> 0, buffered |-> 0, start |-> {},
               failures |-> 0]

TypeOK ==
    /\ bucket \in SUBSET Objects /\ uploaded \in SUBSET Objects
    /\ run \in Runs

Init ==
    /\ bucket \in SUBSET Objects
    /\ uploaded = bucket
    /\ run = NotStarted

Started == run.caller # "idle"

GoOn(t) == run' = t /\ UNCHANGED uploaded

------------------------------------------------------------------------------
(* deleteAllObjects *)

Start ==
    /\ ~Started
    /\ GoOn([run EXCEPT !.caller = "waiting", !.start = bucket])
    /\ UNCHANGED bucket

\* Mutant: an error is received and the next one is waited for.
ReturnError_Not ==
    /\ run.caller = "waiting" /\ run.buffered = 1
    /\ GoOn([run EXCEPT !.buffered = 0])
    /\ UNCHANGED bucket

\* The first error is returned, the others are not received.
ReturnError ==
    /\ run.caller = "waiting" /\ run.buffered = 1
    /\ GoOn([run EXCEPT !.caller = "failed", !.buffered = 0])
    /\ UNCHANGED bucket

ReturnNil ==
    /\ run.caller = "waiting" /\ run.buffered = 0 /\ run.remover = "done"
    /\ GoOn([run EXCEPT !.caller = "ok"])
    /\ UNCHANGED bucket

------------------------------------------------------------------------------
(* The lister.  Objects uploaded meanwhile may be listed or not. *)

List ==
    /\ Started /\ run.lister = "listing"
    /\ \E o \in bucket \ run.seen :
          GoOn([run EXCEPT !.lister = "sending", !.offer = o, !.seen = @ \cup {o}])
    /\ UNCHANGED bucket

\* Mutant: the channel is not closed.
Close_Not(t) == [t EXCEPT !.lister = "returned"]

Close(t) == [t EXCEPT !.lister = "done"]

ListingEnds ==
    /\ Started /\ run.lister = "listing"
    /\ run.start \cap bucket \subseteq run.seen
    /\ GoOn(Close(run))
    /\ UNCHANGED bucket

\* The error in the listing is logged; the listing ends with it.
ListingFails ==
    /\ Started /\ run.lister = "listing"
    /\ GoOn([Close(run) EXCEPT !.skipped = TRUE])
    /\ UNCHANGED bucket

------------------------------------------------------------------------------
(* The remover *)

\* The lister hands over an object: nothing else takes it off its hands.
Gather ==
    LET batch == run.batch \cup {run.offer}
    IN  /\ run.lister = "sending" /\ run.remover = "gather"
        /\ GoOn([run EXCEPT
              !.lister = "listing", !.offer = None, !.batch = batch,
              !.remover = IF Cardinality(batch) = BatchSize THEN "request" ELSE @])
        /\ UNCHANGED bucket

\* There are no more objects: the last request, unless it were empty.
GatherLast ==
    /\ run.lister = "done" /\ run.remover = "gather"
    /\ GoOn(IF run.batch = {} THEN [run EXCEPT !.remover = "done"]
            ELSE [run EXCEPT !.remover = "request", !.last = TRUE])
    /\ UNCHANGED bucket

\* Each object is removed or there is an error for it; when the answer is lost
\* there is an error for one that was removed.  No request without a context.
Request ==
    /\ run.remover = "request"
    /\ \E failed, kept \in SUBSET run.batch :
          /\ kept \subseteq failed
          /\ ~run.ctx => kept = run.batch
          /\ bucket' = bucket \ (run.batch \ kept)
          /\ GoOn([run EXCEPT !.remover = "report", !.batch = {},
                              !.errors = Cardinality(failed),
                              !.failures = @ + Cardinality(failed)])

\* Mutant: the channel takes any number of errors.
Report_Unbounded ==
    /\ run.remover = "report" /\ run.errors > 0
    /\ GoOn([run EXCEPT !.errors = @ - 1, !.buffered = @ + 1])
    /\ UNCHANGED bucket

Report ==
    /\ run.remover = "report" /\ run.errors > 0 /\ run.buffered = 0
    /\ GoOn([run EXCEPT !.errors = @ - 1, !.buffered = 1])
    /\ UNCHANGED bucket

Reported ==
    /\ run.remover = "report" /\ run.errors = 0
    /\ GoOn([run EXCEPT !.remover = IF run.last THEN "done" ELSE "gather"])
    /\ UNCHANGED bucket

------------------------------------------------------------------------------

\* The reconcile is over, or its time is.
ContextEnds ==
    /\ Started /\ run.ctx
    /\ GoOn([run EXCEPT !.ctx = FALSE])
    /\ UNCHANGED bucket

\* Somebody else puts an object into the bucket or removes one.
Upload(o) ==
    /\ o \notin uploaded
    /\ bucket' = bucket \cup {o} /\ uploaded' = uploaded \cup {o}
    /\ UNCHANGED run

Remove(o) ==
    /\ o \in bucket
    /\ bucket' = bucket \ {o}
    /\ UNCHANGED <<uploaded, run>>

Caller == ReturnError \/ ReturnNil
Lister == List \/ ListingEnds \/ ListingFails
Remover == Gather \/ GatherLast \/ Request \/ Report \/ Reported

Next ==
    \/ Start \/ Caller \/ Lister \/ Remover \/ ContextEnds
    \/ \E o \in Objects : Upload(o) \/ Remove(o)

Spec == Init /\ [][Next]_vars

\* A goroutine that can run does.
Fairness == WF_vars(Caller) /\ WF_vars(Lister) /\ WF_vars(Remover)

FairSpec == Spec /\ Fairness

------------------------------------------------------------------------------

\* When nil is returned, the objects that were there in the beginning are gone,
\* unless the listing failed, and those it was told of are gone in any case.
NilMeansRemoved ==
    run.caller = "ok" =>
        /\ run.seen \cap bucket = {}
        /\ run.skipped \/ run.start \cap bucket = {}

\* deleteAllObjects returns: the three parties never wait for each other before.
CallReturns == Started ~> run.caller \in {"ok", "failed"}

\* Nothing is left running, unless more than two objects could not be removed: one
\* error is returned, one fits into the channel, the third blocks the remover
\* and with it the lister, for good.
NothingLeftRunning ==
    Started ~> \/ run.lister = "done" /\ run.remover = "done"
               \/ run.failures > 2

==============================================================================
