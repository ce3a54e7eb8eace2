------------------------------ MODULE MCBucket ------------------------------
(* Instances of Bucket for TLC. *)
EXTENDS BucketInv, TLC

\* Resources and names are interchangeable, workers too.
Symmetry == Permutations(Workers) \cup Permutations(Resources) \cup Permutations(Names)
=============================================================================
