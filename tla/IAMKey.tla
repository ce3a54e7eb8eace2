------------------------------- MODULE IAMKey -------------------------------
(***************************************************************************)
(* The life of one IAMKey resource: operator/iamkeycontroller driven by    *)
(* the managed reconciler of crossplane-runtime, against the Kubernetes    *)
(* API and the Exoscale IAM API.                                           *)
(*                                                                         *)
(* A worker is one operator process.  Leader election is off by default    *)
(* (flags.go), so during a rolling update two of them reconcile the same   *)
(* resource; each has its own informer cache.  Every call that leaves the  *)
(* process (a Kubernetes read, write or an Exoscale request) is one step,  *)
(* and a worker may die between any two of them.                           *)
(*                                                                         *)
(* A resource is a record.  "create" stands for the external-create-*      *)
(* annotations of crossplane-runtime, "keyAnn" and "roleAnn" for the two   *)
(* annotations the controller writes itself, "keySt", "roleSt", "stBuckets"*)
(* and "ready" for status.atProvider and the Ready condition.  Instead of  *)
(* resource versions the model keeps, for every copy of the resource,      *)
(* whether the stored one has changed since the copy was taken: an Update  *)
(* with an outdated copy is the API server's conflict error.               *)
(***************************************************************************)
EXTENDS Naturals

CONSTANTS
    Workers,      \* operator processes
    Keys,         \* IDs of API keys Exoscale may issue
    Roles,        \* IDs of IAM roles Exoscale may issue
    BucketLists,  \* values a user gives to spec.forProvider.services.sos.buckets
    NoBuckets,    \* the empty one of them
    None,         \* an ID that is not set
    Issue(_),     \* IDs Exoscale may issue next, out of the unused ones
    MaxTries,     \* attempts at CreateAPIKey, 10 in the code
    MaxFaults,    \* failed or lost calls and process deaths in a behaviour
    MaxEdits      \* edits by users in a behaviour

ASSUME IDsAssumption ==
    /\ None \notin Keys
    /\ None \notin Roles
    /\ {"none", "empty", "other"} \cap Keys = {}

ASSUME IssueAssumption ==
    \A S \in (SUBSET Keys) \cup (SUBSET Roles) : Issue(S) \subseteq S

ASSUME BoundsAssumption ==
    /\ MaxTries \in Nat \ {0}
    /\ MaxFaults \in Nat
    /\ MaxEdits \in Nat

ASSUME BucketsAssumption == NoBuckets \in BucketLists

VARIABLES
    cr,       \* the IAMKey as the API server stores it
    secret,   \* the Secret writeConnectionSecretToRef names: missing, without
              \* data, with data of someone else, or the credentials of a key
    keys,     \* API keys that exist at Exoscale
    roles,    \* IAM roles that exist at Exoscale
    roleOf,   \* the role each key was created with
    policy,   \* the bucket list each role was created with
    issued,   \* history: keys whose creation Exoscale confirmed to a worker
    blind,    \* history: a GetAPIKey failed for an existing key of a resource
              \* that was being deleted
    pc,       \* what each worker does next
    mem,      \* each worker's copy of the resource in this reconcile
    fresh,    \* the stored resource has not changed since mem was read
    cache,    \* each worker's informer cache
    synced,   \* the stored resource has not changed since it was cached
    obs,      \* what Observe found
    newRole,  \* the role CreateIAMRole returned in this reconcile
    tries,    \* failed attempts at CreateAPIKey in this reconcile
    faults,   \* faults so far
    edits     \* edits so far

cloud == <<keys, roles, roleOf, policy, issued, blind>>
local == <<obs, newRole, tries>>
vars == <<cr, secret, cloud, pc, mem, fresh, cache, synced, local, faults, edits>>

Steps == {"idle", "connect", "observe", "checkSecret", "publish", "finalizer",
          "pending", "create", "createKey", "writeSecret", "critical",
          "publishCreated", "update", "deleteKey", "deleteRole",
          "removeFinalizer", "status"}

Resource == [exists: BOOLEAN, deleting: BOOLEAN, fin: BOOLEAN,
             create: {"none", "pending", "succeeded", "failed"},
             keyAnn: Keys \cup {None}, roleAnn: Roles \cup {None},
             keySt: Keys \cup {None}, roleSt: Roles \cup {None},
             ready: {"none", "Creating", "Available", "Updating", "Deleting"},
             buckets: BucketLists, stBuckets: BucketLists \cup {None}]

\* Every variable has its type: the IDs that Observe moves from annotations to
\* the status stay IDs of keys and of roles, and attempts stay within their limit.
TypeOK ==
    /\ cr \in Resource
    /\ secret \in {"none", "empty", "other"} \cup Keys
    /\ keys \subseteq Keys
    /\ roles \subseteq Roles
    /\ roleOf \in [Keys -> Roles \cup {None}]
    /\ policy \in [Roles -> BucketLists \cup {None}]
    /\ issued \subseteq Keys
    /\ blind \in BOOLEAN
    /\ pc \in [Workers -> Steps]
    /\ mem \in [Workers -> Resource]
    /\ fresh \in [Workers -> BOOLEAN]
    /\ cache \in [Workers -> Resource]
    /\ synced \in [Workers -> BOOLEAN]
    /\ obs \in [Workers -> {"none", "absent", "gone", "stale", "current"}]
    /\ newRole \in [Workers -> Roles \cup {None}]
    /\ tries \in [Workers -> 0 .. MaxTries]
    /\ faults \in 0 .. MaxFaults
    /\ edits \in 0 .. MaxEdits

-----------------------------------------------------------------------------
(* Admission (webhook.go).                                                 *)

\* ValidateCreate asks for at least one bucket.  The references it asks for
\* as well (secret, provider config) are set in every resource of the model.
ValidateCreate(b) == b # NoBuckets

\* Mutant: the parameters may always be changed.
ValidateUpdateNothing(old, b) == TRUE

\* ValidateUpdate freezes the parameters once the status holds a key ID, and
\* does not look at the number of buckets.
ValidateUpdate(old, b) == old.keySt # None => b = old.buckets

-----------------------------------------------------------------------------
(* The initial resource: admitted, named, and not yet reconciled; or a     *)
(* resource of an older release, whose key has no role.                    *)

NewResource(b) ==
    [exists |-> TRUE, deleting |-> FALSE, fin |-> FALSE, create |-> "none",
     keyAnn |-> None, roleAnn |-> None, keySt |-> None, roleSt |-> None,
     ready |-> "none", buckets |-> b, stBuckets |-> None]

LegacyResource(b, k) ==
    [NewResource(b) EXCEPT !.fin = TRUE, !.create = "succeeded", !.keySt = k,
                           !.ready = "Available", !.stBuckets = b]

InitNew ==
    /\ \E b \in BucketLists : ValidateCreate(b) /\ cr = NewResource(b)
    /\ secret = "none"
    /\ keys = {}
    /\ issued = {}

InitLegacy ==
    \E b \in BucketLists, k \in Issue(Keys) :
        /\ ValidateCreate(b)
        /\ cr = LegacyResource(b, k)
        /\ secret = k
        /\ keys = {k}
        /\ issued = {k}

Init ==
    /\ InitNew \/ InitLegacy
    /\ roles = {}
    /\ roleOf = [k \in Keys |-> None]
    /\ policy = [r \in Roles |-> None]
    /\ blind = FALSE
    /\ pc = [w \in Workers |-> "idle"]
    /\ mem = [w \in Workers |-> NewResource(NoBuckets)]
    /\ fresh = [w \in Workers |-> TRUE]
    /\ cache = [w \in Workers |-> cr]
    /\ synced = [w \in Workers |-> TRUE]
    /\ obs = [w \in Workers |-> "none"]
    /\ newRole = [w \in Workers |-> None]
    /\ tries = [w \in Workers |-> 0]
    /\ faults = 0
    /\ edits = 0

-----------------------------------------------------------------------------
(* Kubernetes API semantics and faults.                                    *)

Goto(w, step) == pc' = [pc EXCEPT ![w] = step]

\* The reconcile is over and its copy and results are dropped.
End(w) ==
    /\ pc' = [pc EXCEPT ![w] = "idle"]
    /\ mem' = [mem EXCEPT ![w] = NewResource(NoBuckets)]
    /\ obs' = [obs EXCEPT ![w] = "none"]
    /\ newRole' = [newRole EXCEPT ![w] = None]
    /\ tries' = [tries EXCEPT ![w] = 0]

Fault == faults < MaxFaults /\ faults' = faults + 1

\* Worker w stores a new version, and w's copy is that version.  Writing what
\* is stored already makes no new version.
Store(w, new) ==
    /\ cr' = new
    /\ IF new = cr
       THEN UNCHANGED <<fresh, synced>>
       ELSE /\ fresh' = [v \in Workers |-> v = w]
            /\ synced' = [v \in Workers |-> FALSE]

\* What client.Update stores: metadata from the copy, status from the server.
Merged(m) == [cr EXCEPT !.fin = m.fin, !.create = m.create,
                        !.keyAnn = m.keyAnn, !.roleAnn = m.roleAnn]

\* What client.Status().Update stores: the status, and no metadata.
MergedStatus(m) == [cr EXCEPT !.keySt = m.keySt, !.roleSt = m.roleSt,
                              !.ready = m.ready, !.stBuckets = m.stBuckets]

\* Mutant: the update is sent without the version it is based on.
UpdateResourceForced(w, m, next) ==
    /\ Store(w, Merged(m))
    /\ mem' = [mem EXCEPT ![w] = Merged(m)]
    /\ Goto(w, next)

\* Update by w with copy m; on a conflict the reconciler records the error.
UpdateResource(w, m, next) ==
    \/ /\ fresh[w]
       /\ Store(w, Merged(m))
       /\ mem' = [mem EXCEPT ![w] = Merged(m)]
       /\ Goto(w, next)
    \/ /\ ~fresh[w]
       /\ Goto(w, "status")
       /\ UNCHANGED <<cr, fresh, synced, mem>>

-----------------------------------------------------------------------------
(* One reconcile.                                                          *)

\* The reconciler reads the resource from the cache.  When the last attempt to
\* create never reported back it refuses to go on.
StartReconcile(w) ==
    /\ pc[w] = "idle"
    /\ cache[w].exists
    /\ fresh' = [fresh EXCEPT ![w] = synced[w]]
    /\ IF cache[w].create = "pending"
       THEN /\ mem' = [mem EXCEPT ![w] = [cache[w] EXCEPT !.ready = "Creating"]]
            /\ Goto(w, "status")
       ELSE /\ mem' = [mem EXCEPT ![w] = cache[w]]
            /\ Goto(w, "connect")
    /\ UNCHANGED <<cr, secret, cloud, cache, synced, local, faults, edits>>

\* connector.Connect: the Exoscale client from the provider config.
Connect(w) ==
    /\ pc[w] = "connect"
    /\ Goto(w, "observe")
    /\ UNCHANGED <<cr, secret, cloud, mem, fresh, cache, synced, local, faults, edits>>

\* Mutant: the key annotation is read for the role.
ResolveRoleFromKey(m) ==
    IF m.roleSt = None /\ m.keyAnn # None
    THEN [m EXCEPT !.roleSt = m.keyAnn, !.roleAnn = None]
    ELSE m

\* The IDs Observe works with: the status, else the annotations Create left
\* there; the key is only looked at when the role is known.
ResolveRole(m) ==
    IF m.roleSt = None /\ m.roleAnn # None
    THEN [m EXCEPT !.roleSt = m.roleAnn, !.roleAnn = None]
    ELSE m

\* Mutant: the key annotation is not read.
ResolveKeyUnread(m) == m

ResolveKey(m) ==
    IF m.roleSt # None /\ m.keySt = None /\ m.keyAnn # None
    THEN [m EXCEPT !.keySt = m.keyAnn, !.keyAnn = None]
    ELSE m

Resolved(m) == ResolveKey(ResolveRole(m))

IDsKnown(m) == m.roleSt # None /\ m.keySt # None

\* Observe without an ID to look for: nothing exists.
ObserveAbsent(w) ==
    /\ pc[w] = "observe"
    /\ ~IDsKnown(Resolved(mem[w]))
    /\ mem' = [mem EXCEPT ![w] = Resolved(mem[w])]
    /\ obs' = [obs EXCEPT ![w] = "absent"]
    /\ Goto(w, IF mem[w].deleting THEN "removeFinalizer" ELSE "publish")
    /\ UNCHANGED <<cr, secret, cloud, fresh, cache, synced, newRole, tries, faults, edits>>

\* Observe's GetAPIKey finds the key.
ObserveKey(w) ==
    /\ pc[w] = "observe"
    /\ IDsKnown(Resolved(mem[w]))
    /\ Resolved(mem[w]).keySt \in keys
    /\ mem' = [mem EXCEPT ![w] = Resolved(mem[w])]
    /\ Goto(w, "checkSecret")
    /\ UNCHANGED <<cr, secret, cloud, fresh, cache, synced, local, faults, edits>>

\* Mutant: an error of GetAPIKey is returned for every resource.
GetAPIKeyFailedAlways(w) ==
    /\ mem' = [mem EXCEPT ![w] = Resolved(mem[w])]
    /\ obs' = obs
    /\ Goto(w, "status")

\* Any error of GetAPIKey means "gone" for a resource that is being deleted,
\* and is returned for every other.
GetAPIKeyFailed(w) ==
    /\ mem' = [mem EXCEPT ![w] = Resolved(mem[w])]
    /\ IF mem[w].deleting
       THEN /\ obs' = [obs EXCEPT ![w] = "gone"]
            /\ Goto(w, "removeFinalizer")
       ELSE /\ obs' = obs
            /\ Goto(w, "status")

ObserveKeyError(w) ==
    /\ pc[w] = "observe"
    /\ IDsKnown(Resolved(mem[w]))
    /\ GetAPIKeyFailed(w)
    /\ \/ /\ Resolved(mem[w]).keySt \notin keys
          /\ UNCHANGED <<blind, faults>>
       \/ /\ Resolved(mem[w]).keySt \in keys
          /\ Fault
          /\ blind' = (blind \/ mem[w].deleting)
    /\ UNCHANGED <<cr, secret, keys, roles, roleOf, policy, issued,
                   fresh, cache, synced, newRole, tries, edits>>

\* Mutants: a key whose credentials are missing is deleted, to be made again;
\* the conditions are not set.
CheckSecretRecreating(w) ==
    /\ pc[w] = "checkSecret"
    /\ obs' = [obs EXCEPT ![w] = IF secret \in Keys THEN "current" ELSE "stale"]
    /\ Goto(w, IF mem[w].deleting \/ secret \notin Keys THEN "deleteKey" ELSE "publish")
    /\ mem' = [mem EXCEPT ![w].ready = "Available", ![w].stBuckets = mem[w].buckets]
    /\ UNCHANGED <<cr, secret, cloud, fresh, cache, synced, newRole, tries, faults, edits>>

CheckSecretSilent(w) ==
    /\ pc[w] = "checkSecret"
    /\ obs' = [obs EXCEPT ![w] = IF secret \in Keys THEN "current" ELSE "stale"]
    /\ Goto(w, IF mem[w].deleting THEN "deleteKey" ELSE "publish")
    /\ UNCHANGED <<cr, secret, cloud, mem, fresh, cache, synced, newRole, tries, faults, edits>>

\* The rest of Observe.  Only the presence of data in the secret is checked;
\* isRoleUptodate returns at once because nothing sets the annotation
\* "newKeyType" it asks for.
CheckSecret(w) ==
    /\ pc[w] = "checkSecret"
    /\ LET found(o) == /\ obs' = [obs EXCEPT ![w] = o]
                       /\ Goto(w, IF mem[w].deleting THEN "deleteKey" ELSE "publish")
       IN \/ /\ secret \in {"none", "empty"}
             /\ found("stale")
             /\ UNCHANGED <<mem, faults>>
          \/ /\ Fault                         \* the secret cannot be read
             /\ found("stale")
             /\ UNCHANGED mem
          \/ /\ secret = "other"              \* toConnectionDetails fails
             /\ mem' = [mem EXCEPT ![w].stBuckets = mem[w].buckets]
             /\ Goto(w, "status")
             /\ UNCHANGED <<obs, faults>>
          \/ /\ secret \in Keys
             /\ found("current")
             /\ mem' = [mem EXCEPT ![w].ready = "Available",
                                   ![w].stBuckets = mem[w].buckets]
             /\ UNCHANGED faults
    /\ UNCHANGED <<cr, secret, cloud, fresh, cache, synced, newRole, tries, edits>>

\* PublishConnection with the details of the observation.  Without details the
\* publisher makes sure that the secret exists and leaves its data alone; the
\* data of an immutable secret stays as it is.
Publish(w) ==
    /\ pc[w] = "publish"
    /\ secret' = CASE obs[w] = "current" /\ secret \notin Keys -> mem[w].keySt
                   [] obs[w] # "current" /\ secret = "none" -> "empty"
                   [] OTHER -> secret
    /\ Goto(w, "finalizer")
    /\ UNCHANGED <<cr, cloud, mem, fresh, cache, synced, local, faults, edits>>

\* What the reconciler does with the observation.
AfterFinalizer(w) == CASE obs[w] = "absent" -> "pending"
                       [] obs[w] = "stale" -> "update"
                       [] OTHER -> "status"

AddFinalizer(w) ==
    /\ pc[w] = "finalizer"
    /\ \/ /\ mem[w].fin
          /\ Goto(w, AfterFinalizer(w))
          /\ UNCHANGED <<cr, fresh, synced, mem>>
       \/ /\ ~mem[w].fin
          /\ UpdateResource(w, [mem[w] EXCEPT !.fin = TRUE], AfterFinalizer(w))
    /\ UNCHANGED <<secret, cloud, cache, local, faults, edits>>

\* The external-create-pending annotation is stored before Create is called.
SetPending(w) ==
    /\ pc[w] = "pending"
    /\ UpdateResource(w, [mem[w] EXCEPT !.create = "pending"], "create")
    /\ UNCHANGED <<secret, cloud, cache, local, faults, edits>>

-----------------------------------------------------------------------------
(* Create.                                                                 *)

\* Create returned: its outcome goes to the annotations.
CreateReturns(w, outcome) ==
    /\ mem' = [mem EXCEPT ![w].ready = "Creating", ![w].create = outcome]
    /\ Goto(w, "critical")

\* A nil pointer is dereferenced in createCredentialsSecret after createIAMKey
\* returned no key and no error.  The panic is recovered into an error of the
\* reconcile, which ends without a further write.
Panic(w) == End(w)

\* The IDs Exoscale may give to the role or the key of the next request: none
\* that it gave out before, confirmed or not.
NextRoles == Issue({x \in Roles : policy[x] = None})

NextKeys == Issue({x \in Keys \ issued : roleOf[x] = None})

\* Create finds a key ID in the status and has nothing to do.
CreateNoop(w) ==
    /\ pc[w] = "create"
    /\ mem[w].keySt # None
    /\ CreateReturns(w, "succeeded")
    /\ UNCHANGED <<cr, secret, cloud, fresh, cache, synced, local, faults, edits>>

\* Mutant: the key ID of the status is not looked at.
CreateRoleAgain(w) ==
    /\ pc[w] = "create"
    /\ \E r \in NextRoles :
        /\ roles' = roles \cup {r}
        /\ policy' = [policy EXCEPT ![r] = mem[w].buckets]
        /\ newRole' = [newRole EXCEPT ![w] = r]
    /\ tries' = [tries EXCEPT ![w] = 0]
    /\ mem' = [mem EXCEPT ![w].ready = "Creating"]
    /\ Goto(w, "createKey")
    /\ UNCHANGED <<cr, secret, keys, roleOf, issued, blind, fresh, cache, synced,
                   obs, faults, edits>>

\* createIAMKey: the role comes first, with the policy for the bucket list of
\* this reconcile's copy.
CreateRole(w) ==
    /\ pc[w] = "create"
    /\ mem[w].keySt = None
    /\ \E r \in NextRoles :
        /\ roles' = roles \cup {r}
        /\ policy' = [policy EXCEPT ![r] = mem[w].buckets]
        /\ newRole' = [newRole EXCEPT ![w] = r]
    /\ tries' = [tries EXCEPT ![w] = 0]
    /\ mem' = [mem EXCEPT ![w].ready = "Creating"]
    /\ Goto(w, "createKey")
    /\ UNCHANGED <<cr, secret, keys, roleOf, issued, blind, fresh, cache, synced,
                   obs, faults, edits>>

\* CreateIAMRole fails, before or after the role was made; or the operation is
\* not in state "success" and createIAMKey returns no error.
CreateRoleFails(w) ==
    /\ pc[w] = "create"
    /\ mem[w].keySt = None
    /\ Fault
    /\ \/ UNCHANGED <<roles, policy>>
       \/ \E r \in NextRoles :
            /\ roles' = roles \cup {r}
            /\ policy' = [policy EXCEPT ![r] = mem[w].buckets]
    /\ \/ CreateReturns(w, "failed") /\ UNCHANGED local
       \/ Panic(w)
    /\ UNCHANGED <<cr, secret, keys, roleOf, issued, blind, fresh, cache, synced, edits>>

\* Mutants: the IDs are not put into the annotations; the key is asked for
\* without its role.
CreateKeyUnrecorded(w) ==
    /\ pc[w] = "createKey"
    /\ \E k \in NextKeys :
        /\ keys' = keys \cup {k}
        /\ issued' = issued \cup {k}
        /\ roleOf' = [roleOf EXCEPT ![k] = newRole[w]]
    /\ Goto(w, "writeSecret")
    /\ UNCHANGED <<cr, secret, roles, policy, blind, mem, fresh, cache, synced, local,
                   faults, edits>>

CreateKeyWithoutRole(w) ==
    /\ pc[w] = "createKey"
    /\ \E k \in NextKeys :
        /\ keys' = keys \cup {k}
        /\ issued' = issued \cup {k}
        /\ mem' = [mem EXCEPT ![w].keyAnn = k, ![w].roleAnn = newRole[w]]
    /\ Goto(w, "writeSecret")
    /\ UNCHANGED <<cr, secret, roles, roleOf, policy, blind, fresh, cache, synced, local,
                   faults, edits>>

\* CreateAPIKey succeeds: both IDs go to the annotations of the copy before
\* anything else can fail.
CreateKey(w) ==
    /\ pc[w] = "createKey"
    /\ \E k \in NextKeys :
        /\ keys' = keys \cup {k}
        /\ issued' = issued \cup {k}
        /\ roleOf' = [roleOf EXCEPT ![k] = newRole[w]]
        /\ mem' = [mem EXCEPT ![w].keyAnn = k, ![w].roleAnn = newRole[w]]
    /\ Goto(w, "writeSecret")
    /\ UNCHANGED <<cr, secret, roles, policy, blind, fresh, cache, synced, local,
                   faults, edits>>

\* CreateAPIKey fails, before or after the key was made; the loop sends the
\* request again until the attempts are used up.  An answer without a key is
\* no error to createIAMKey.
CreateKeyFails(w) ==
    /\ pc[w] = "createKey"
    /\ Fault
    /\ \/ UNCHANGED <<keys, roleOf>>
       \/ \E k \in NextKeys :
            /\ keys' = keys \cup {k}
            /\ roleOf' = [roleOf EXCEPT ![k] = newRole[w]]
    /\ \/ /\ tries' = [tries EXCEPT ![w] = tries[w] + 1]
          /\ IF tries[w] + 1 < MaxTries
             THEN UNCHANGED <<pc, mem>>
             ELSE CreateReturns(w, "failed")
          /\ UNCHANGED <<obs, newRole>>
       \/ Panic(w)
    /\ UNCHANGED <<cr, secret, roles, policy, issued, blind, fresh, cache, synced, edits>>

\* createCredentialsSecret writes the credentials and makes the secret
\* immutable; one that is immutable already refuses other data.
CreateSecret(w) ==
    /\ pc[w] = "writeSecret"
    /\ \/ /\ secret \notin Keys \/ secret = mem[w].keyAnn
          /\ secret' = mem[w].keyAnn
          /\ CreateReturns(w, "succeeded")
       \/ /\ secret \in Keys \ {mem[w].keyAnn}
          /\ UNCHANGED secret
          /\ CreateReturns(w, "failed")
    /\ UNCHANGED <<cr, cloud, fresh, cache, synced, local, faults, edits>>

CreateSecretFails(w) ==
    /\ pc[w] = "writeSecret"
    /\ Fault
    /\ CreateReturns(w, "failed")
    /\ UNCHANGED <<cr, secret, cloud, fresh, cache, synced, local, edits>>

\* UpdateCriticalAnnotations stores the annotations of the copy, over a newer
\* version of the resource if need be.
CriticalAnnotations(w) ==
    /\ pc[w] = "critical"
    /\ cr.exists
    /\ LET new == Merged([mem[w] EXCEPT !.fin = cr.fin])
       IN /\ Store(w, new)
          /\ mem' = [mem EXCEPT ![w] = [new EXCEPT !.ready = "Creating"]]
    /\ Goto(w, IF mem[w].create = "succeeded" THEN "publishCreated" ELSE "status")
    /\ UNCHANGED <<secret, cloud, cache, local, faults, edits>>

\* All its attempts fail: the annotations of the copy are lost.
CriticalAnnotationsFail(w) ==
    /\ pc[w] = "critical"
    /\ Fault
    /\ Goto(w, "status")
    /\ UNCHANGED <<cr, secret, cloud, mem, fresh, cache, synced, local, edits>>

\* PublishConnection with the details Create returned, which are empty when it
\* had nothing to do.
PublishCreated(w) ==
    /\ pc[w] = "publishCreated"
    /\ secret' = CASE newRole[w] # None /\ secret \notin Keys -> mem[w].keyAnn
                   [] newRole[w] = None /\ secret = "none" -> "empty"
                   [] OTHER -> secret
    /\ Goto(w, "status")
    /\ UNCHANGED <<cr, cloud, mem, fresh, cache, synced, local, faults, edits>>

-----------------------------------------------------------------------------
(* Update and Delete.                                                      *)

\* Update sends the role without a policy: whether or not the request succeeds
\* the bucket list of the role stays what it was.
UpdateRole(w) ==
    /\ pc[w] = "update"
    /\ mem' = [mem EXCEPT ![w].ready = "Updating"]
    /\ Goto(w, "status")
    /\ UNCHANGED <<cr, secret, cloud, fresh, cache, synced, local, faults, edits>>

\* deleteIAMKey: first the key, then the role; the first failure ends it, with
\* or without an error.  The key ID is the one of the status.
DeleteKey(w) ==
    /\ pc[w] = "deleteKey"
    /\ mem' = [mem EXCEPT ![w].ready = "Deleting"]
    /\ keys' = keys \ {mem[w].keySt}
    /\ Goto(w, IF mem[w].keySt \in keys THEN "deleteRole" ELSE "status")
    /\ UNCHANGED <<cr, secret, roles, roleOf, policy, issued, blind, fresh, cache,
                   synced, local, faults, edits>>

\* DeleteAPIKey fails or is not successful yet, before or after the key went.
DeleteKeyFails(w) ==
    /\ pc[w] = "deleteKey"
    /\ Fault
    /\ mem' = [mem EXCEPT ![w].ready = "Deleting"]
    /\ keys' \in {keys, keys \ {mem[w].keySt}}
    /\ Goto(w, "status")
    /\ UNCHANGED <<cr, secret, roles, roleOf, policy, issued, blind, fresh, cache,
                   synced, local, edits>>

DeleteRole(w) ==
    /\ pc[w] = "deleteRole"
    /\ \/ /\ roles' = roles \ {mem[w].roleSt}
          /\ UNCHANGED faults
       \/ Fault /\ UNCHANGED roles
    /\ Goto(w, "status")
    /\ UNCHANGED <<cr, secret, keys, roleOf, policy, issued, blind, mem, fresh,
                   cache, synced, local, edits>>

\* The resource goes when its last finalizer does.
RemoveFinalizer(w) ==
    /\ pc[w] = "removeFinalizer"
    /\ \/ /\ fresh[w]
          /\ cr' = [cr EXCEPT !.exists = FALSE, !.fin = FALSE]
          /\ fresh' = [v \in Workers |-> FALSE]
          /\ synced' = [v \in Workers |-> FALSE]
          /\ End(w)
       \/ /\ ~fresh[w]
          /\ Goto(w, "status")
          /\ UNCHANGED <<cr, fresh, synced, mem, local>>
    /\ UNCHANGED <<secret, cloud, cache, faults, edits>>

\* A reconcile ends with client.Status().Update; a conflict is put down to the
\* next one.
WriteStatus(w) ==
    /\ pc[w] = "status"
    /\ IF fresh[w] THEN Store(w, MergedStatus(mem[w]))
                   ELSE UNCHANGED <<cr, fresh, synced>>
    /\ End(w)
    /\ UNCHANGED <<secret, cloud, cache, faults, edits>>

-----------------------------------------------------------------------------
(* Faults of the cluster, the informer, and the users.                     *)

\* Connect, a publisher or an update of the resource fails: the reconcile ends
\* with the error in the status.
CallFails(w) ==
    /\ pc[w] \in {"connect", "publish", "finalizer", "pending", "publishCreated",
                  "removeFinalizer"}
    /\ Fault
    /\ Goto(w, "status")
    /\ UNCHANGED <<cr, secret, cloud, mem, fresh, cache, synced, local, edits>>

\* The process dies, or a call outlives the reconcile's deadline.
Crash(w) ==
    /\ pc[w] # "idle"
    /\ Fault
    /\ End(w)
    /\ UNCHANGED <<cr, secret, cloud, fresh, cache, synced, edits>>

\* The watch delivers the stored version to the cache of w.
CacheSync(w) ==
    /\ ~synced[w]
    /\ cache' = [cache EXCEPT ![w] = cr]
    /\ synced' = [synced EXCEPT ![w] = TRUE]
    /\ UNCHANGED <<cr, secret, cloud, pc, mem, fresh, local, faults, edits>>

\* A version stored by someone who is not a worker.
StoreByUser(new) ==
    /\ cr' = new
    /\ fresh' = [v \in Workers |-> FALSE]
    /\ synced' = [v \in Workers |-> FALSE]
    /\ UNCHANGED <<cloud, pc, mem, cache, local, faults>>

UserDelete ==
    /\ cr.exists
    /\ ~cr.deleting
    /\ StoreByUser(IF cr.fin THEN [cr EXCEPT !.deleting = TRUE]
                             ELSE [cr EXCEPT !.exists = FALSE])
    /\ UNCHANGED <<secret, edits>>

Edit == edits < MaxEdits /\ edits' = edits + 1

UserEdit ==
    /\ cr.exists
    /\ Edit
    /\ \E b \in BucketLists \ {cr.buckets} :
        /\ ValidateUpdate(cr, b)
        /\ StoreByUser([cr EXCEPT !.buckets = b])
    /\ UNCHANGED secret

\* Someone deletes the secret, or writes to it while it is not immutable.
UserSecret ==
    /\ Edit
    /\ \/ secret # "none" /\ secret' = "none"
       \/ secret = "empty" /\ secret' = "other"
    /\ UNCHANGED <<cr, cloud, pc, mem, fresh, cache, synced, local, faults>>

-----------------------------------------------------------------------------

Reconcile(w) ==
    \/ StartReconcile(w) \/ Connect(w)
    \/ ObserveAbsent(w) \/ ObserveKey(w) \/ ObserveKeyError(w) \/ CheckSecret(w)
    \/ Publish(w) \/ AddFinalizer(w) \/ SetPending(w)
    \/ CreateNoop(w) \/ CreateRole(w) \/ CreateRoleFails(w)
    \/ CreateKey(w) \/ CreateKeyFails(w) \/ CreateSecret(w) \/ CreateSecretFails(w)
    \/ CriticalAnnotations(w) \/ CriticalAnnotationsFail(w) \/ PublishCreated(w)
    \/ UpdateRole(w) \/ DeleteKey(w) \/ DeleteKeyFails(w) \/ DeleteRole(w)
    \/ RemoveFinalizer(w) \/ WriteStatus(w) \/ CallFails(w)

Next ==
    \/ \E w \in Workers : Reconcile(w) \/ Crash(w) \/ CacheSync(w)
    \/ UserDelete \/ UserEdit \/ UserSecret

Spec == Init /\ [][Next]_vars

\* A queued resource is reconciled (watch events, requeues and the poll
\* interval), calls return, and the watch delivers what was stored.
Fairness == \A w \in Workers : WF_vars(Reconcile(w)) /\ WF_vars(CacheSync(w))

FairSpec == Spec /\ Fairness

-----------------------------------------------------------------------------
(* Properties.                                                             *)

Legacy == cr.keySt # None /\ cr.roleSt = None /\ cr.roleAnn = None

\* A step of creation between the pending annotation and the stored outcome.
InCreation(w) == pc[w] \in {"create", "createKey", "writeSecret", "critical"}

\* However two workers interleave, crash and retry, Exoscale confirms at most
\* one key for a resource: Create is not run again for a resource that has one.
OneKey == \A j, k \in issued : j = k

\* No confirmed key is forgotten while its resource exists: it is named by an
\* annotation or the status, or the resource is marked as being created, in
\* which case no worker will create another.
KeyRecorded ==
    cr.exists => \A k \in issued : k \in {cr.keyAnn, cr.keySt} \/ cr.create = "pending"

\* The role Delete will remove is the role of the key it removes, also after
\* attempts that made roles nobody recorded.
RoleOfKeyRecorded ==
    cr.keySt # None /\ cr.roleSt # None => roleOf[cr.keySt] = cr.roleSt

\* Credentials in the secret are those of the key the status names.
SecretOfKey == secret \in Keys /\ cr.keySt # None => secret = cr.keySt

\* A resource with a role disappears only after its key has, unless GetAPIKey
\* failed for a key that existed.
DeletedMeansReleased ==
    ~cr.exists /\ ~Legacy /\ ~blind => issued \cap keys = {}

\* Nobody's outdated copy makes a worker delete the key of a resource that is
\* not being deleted: a Ready resource has its key.
ReadyMeansUsable ==
    /\ ~cr.deleting => issued \subseteq keys
    /\ cr.ready = "Available" => cr.keySt \in issued

\* The buckets of the status are those of the spec, which the webhook freezes in
\* time; and those the role was made for, unless a user edited the spec between
\* Create and the first status, which the webhook admits.
BucketsGranted ==
    cr.stBuckets # None =>
        /\ cr.stBuckets = cr.buckets
        /\ edits = 0 /\ cr.roleSt # None => policy[cr.roleSt] = cr.stBuckets

\* An attempt to create is started only from a stored outcome, and by one
\* worker at a time.
OneCreator == \A v, w \in Workers : InCreation(v) /\ InCreation(w) => v = w

\* An attempt to create ended without storing its outcome: the reconciler
\* refuses to touch the resource from then on.
Stuck == cr.create = "pending" /\ \A w \in Workers : ~InCreation(w)

\* The key exists, but its credentials are not in the secret and cannot be
\* read again from Exoscale.
CredentialsLost == {cr.keyAnn, cr.keySt} # {None} /\ secret \notin Keys

\* A deleted resource goes away, unless an attempt to create it never reported
\* back or its secret holds data without credentials.
DeletionEnds == cr.deleting ~> (~cr.exists \/ Stuck \/ secret = "other")

\* A resource becomes Ready, unless it is deleted, an attempt to create it
\* never reported back, its credentials are lost, or its key has no role.
ProvisioningEnds ==
    cr.exists ~> \/ cr.ready = "Available" \/ cr.deleting \/ ~cr.exists
                 \/ Stuck \/ CredentialsLost \/ Legacy

(* What an IAMKey promises.                                                *)

\* The stored resource as module Lifecycle sees it.
Claim == IF cr.exists THEN IF cr.deleting THEN "deleting" ELSE "declared" ELSE "gone"

\* A confirmed key; a key without a role and one that GetAPIKey failed for in a
\* deletion are no longer tracked.
Thing == IF Legacy \/ blind THEN "untracked"
         ELSE IF issued \cap keys # {} THEN "held" ELSE "none"

LC == INSTANCE Lifecycle
        WITH claim <- Claim, thing <- Thing,
             ready <- cr.exists /\ ~Legacy /\ cr.ready = "Available"

\* Between any number of processes that die, retry and work on outdated copies
\* an IAMKey keeps the promise of a resource: its key is made while it exists,
\* taken away only in its deletion, and gone before it is.
ImplementsLifecycle == LC!Spec

(* What the documentation says and the code does not do.                   *)

\* iamkey-reconciliation.adoc: "If the iam key cannot be deleted in
\* exoscale.com API, the resource remains in a "deletion pending" state."
RemainsUntilKeyGone == ~cr.exists /\ ~Legacy => issued \cap keys = {}

=============================================================================
