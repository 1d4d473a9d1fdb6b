-------------------------------- MODULE MCBucket -------------------------------
(* Small instances of Bucket for TLC. *)
EXTENDS Bucket, TLC

DeleteIfEmptyOnly == {"DeleteIfEmpty"}
DeleteAllOnly == {"DeleteAll"}
BothPolicies == {"DeleteIfEmpty", "DeleteAll"}

Interchangeable == Permutations(Workers) \cup Permutations(Resources)

==============================================================================
