---------------------------- MODULE IAMKeyGrants ----------------------------
(***************************************************************************)
(* What the key of an IAMKey resource opens: the roles of module IAMKey    *)
(* with the policies of module IAMPolicy.                                  *)
(***************************************************************************)
EXTENDS IAMKeyInv, IAMPolicy

CONSTANT Buckets    \* buckets of the account

ASSUME ListsAssumption == BucketLists \subseteq Seq(Buckets) /\ NoBuckets = <<>>

\* Buckets on which a key of the role may do something.
Opens(role) ==
    {b \in Buckets : \E op \in Operations : Permits(createRole(policy[role]), op, b)}

\* A key of the role may ask for all buckets of the account.
Lists(role) ==
    \E op \in Listing, b \in Buckets : Permits(createRole(policy[role]), op, b)

Listed == {cr.buckets[i] : i \in DOMAIN cr.buckets}

\* A resource in use with a key of this release, not edited since it was made.
InUse == cr.ready = "Available" /\ ~cr.deleting /\ ~Legacy /\ edits = 0

\* The role of the key that a user of the resource holds exists, opens no bucket
\* but those of the spec, opens the one bucket of a spec that names one, and
\* does not let the user list the buckets of others.
KeyOpensListed ==
    InUse =>
        LET role == roleOf[cr.keySt]
        IN /\ role \in roles
           /\ Opens(role) \subseteq Listed
           /\ Len(cr.buckets) = 1 => Opens(role) = Listed
           /\ ~Lists(role)

(* What the documentation says and the code does not do.                   *)

\* iam_types.go: "Buckets is a list of buckets to which IAMKey has access to."
EveryListedOpens == InUse => Listed \subseteq Opens(roleOf[cr.keySt])
=============================================================================
