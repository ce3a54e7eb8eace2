----------------------------- MODULE Lifecycle ------------------------------
(***************************************************************************)
(* What every controller promises about a resource and the thing in        *)
(* Exoscale it stands for (a key, a bucket, a database service), without   *)
(* reconciles, copies, annotations and faults.  IAMKey, Bucket and DBaaS   *)
(* implement it, each with a mapping of its own.                           *)
(***************************************************************************)

VARIABLES
    claim,   \* the resource: "declared", "deleting" or "gone"
    thing,   \* what it stands for: "none", "held", or "untracked" where the
             \* controller has given up its promise
    ready    \* the resource says that the thing can be used

vars == <<claim, thing, ready>>

Init ==
    /\ claim = "declared"
    /\ thing \in {"none", "untracked"}
    /\ ready = FALSE

\* A thing is made for a resource that exists.
Provision ==
    /\ claim # "gone"
    /\ thing = "none"
    /\ thing' = "held"
    /\ UNCHANGED <<claim, ready>>

\* A thing is only taken away, or lost sight of, while its resource is deleted.
Release ==
    /\ claim = "deleting"
    /\ thing = "held"
    /\ thing' \in {"none", "untracked"}
    /\ UNCHANGED <<claim, ready>>

\* A resource that is not being deleted is called ready when its thing is there.
Report ==
    /\ claim # "gone"
    /\ claim = "declared" => thing = "held"
    /\ ready' = TRUE
    /\ UNCHANGED <<claim, thing>>

Withdraw ==
    /\ ready' = FALSE
    /\ UNCHANGED <<claim, thing>>

RequestDeletion ==
    /\ claim = "declared"
    /\ claim' = "deleting"
    /\ UNCHANGED <<thing, ready>>

\* A resource goes for good, and never before its thing.
Forget ==
    /\ claim # "gone"
    /\ thing # "held"
    /\ claim' = "gone"
    /\ ready' = FALSE
    /\ UNCHANGED thing

Next == Provision \/ Release \/ Report \/ Withdraw \/ RequestDeletion \/ Forget

Spec == Init /\ [][Next]_vars
=============================================================================
