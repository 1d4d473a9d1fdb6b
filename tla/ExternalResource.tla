---------------------------- MODULE ExternalResource ----------------------------
(***************************************************************************)
(* What a controller of this provider promises about a managed resource,   *)
(* without caches, annotations, retries or crashes: one external resource  *)
(* (an objects user, a bucket) is made for it while it is wanted, removed  *)
(* only when its deletion is requested, and the managed resource goes when *)
(* the external one is gone.  ObjectsUser and Bucket implement it.         *)
(*                                                                         *)
(* External resources that the operator cannot know about, since the call  *)
(* that made them did not answer, do not count.                            *)
(***************************************************************************)
EXTENDS Naturals

CONSTANTS
    Resources,
    Externals,      \* the external resources there can be
    Orphans         \* resources whose external resource is to be left behind

VARIABLES
    wish,           \* wish[r]: the managed resource
    external,       \* external[r]: the external resources there are for r
    faults          \* failed calls, crashes and interventions so far

vars == <<wish, external, faults>>

Init ==
    /\ wish = [r \in Resources |-> "new"]
    /\ external = [r \in Resources |-> {}]
    /\ faults = 0

Ask(r) ==
    /\ wish[r] = "new"
    /\ wish' = [wish EXCEPT ![r] = "live"]
    /\ UNCHANGED <<external, faults>>

Withdraw(r) ==
    /\ wish[r] = "live"
    /\ wish' = [wish EXCEPT ![r] = "deleting"]
    /\ UNCHANGED <<external, faults>>

\* One external resource is made where there was none, for a resource that is
\* still there, or for one that may leave it behind.
Provision(r) ==
    /\ external[r] = {}
    /\ \/ wish[r] \in {"live", "deleting"}
       \/ wish[r] = "gone" /\ r \in Orphans
    /\ \E x \in Externals : external' = [external EXCEPT ![r] = {x}]
    /\ UNCHANGED <<wish, faults>>

Deprovision(r) ==
    /\ wish[r] = "deleting" /\ r \notin Orphans
    /\ external' = [external EXCEPT ![r] = {}]
    /\ UNCHANGED <<wish, faults>>

\* The managed resource goes; before anything was made for it, at once.
Release(r) ==
    /\ wish[r] \in {"live", "deleting"}
    /\ \/ external[r] = {}
       \/ wish[r] = "deleting" /\ r \in Orphans
    /\ wish' = [wish EXCEPT ![r] = "gone"]
    /\ UNCHANGED <<external, faults>>

\* Something goes wrong, or somebody else removes the external resource.
Fault ==
    /\ faults' = faults + 1
    /\ \/ UNCHANGED external
       \/ \E r \in Resources : external' = [external EXCEPT ![r] = {}]
    /\ UNCHANGED wish

Next ==
    \/ \E r \in Resources :
          Ask(r) \/ Withdraw(r) \/ Provision(r) \/ Deprovision(r) \/ Release(r)
    \/ Fault

Spec == Init /\ [][Next]_vars

==============================================================================
