----------------------------- MODULE IAMKeyInv ------------------------------
(***************************************************************************)
(* The inductive invariants of module IAMKey: IInv, behind OneKey,         *)
(* KeyRecorded, RoleOfKeyRecorded and OneCreator, and GrantInv, behind     *)
(* what a resource says about its key, secret, role and buckets.           *)
(***************************************************************************)
EXTENDS IAMKey

\* Steps at which the copy of a worker has not been marked by SetPending.
BeforePending == {"connect", "observe", "checkSecret", "publish", "finalizer",
                  "pending", "update", "deleteKey", "deleteRole", "removeFinalizer"}

\* The IDs of a copy are the stored ones, or the annotations moved to the
\* status by Observe.
SameIDs(m) ==
    /\ m.keySt = cr.keySt \/ (cr.keySt = None /\ m.keySt = cr.keyAnn)
    /\ m.roleSt = cr.roleSt \/ (cr.roleSt = None /\ m.roleSt = cr.roleAnn)

\* The stored resource.  Annotations come in pairs and stay, the status repeats
\* them, and a resource without a finalizer has never got that far.
StoredInv ==
    /\ cr.keyAnn = None <=> cr.roleAnn = None
    /\ cr.roleSt # None => cr.roleSt = cr.roleAnn
    /\ cr.keySt # None => cr.keySt = cr.keyAnn \/ cr.keyAnn = None
    /\ cr.keyAnn # None => cr.keyAnn \in issued /\ roleOf[cr.keyAnn] = cr.roleAnn
    /\ cr.exists /\ ~cr.fin =>
          /\ cr.keyAnn = None
          /\ cr.keySt = None
          /\ cr.roleSt = None
          /\ cr.create # "pending"

CacheInv == \A w \in Workers : synced[w] => cache[w] = cr

\* Copies of a worker whose next Update will not be refused.
FreshInv(w) ==
    fresh[w] /\ pc[w] # "idle" =>
        /\ cr.exists
        /\ mem[w].fin = cr.fin
        /\ SameIDs(mem[w])
        /\ pc[w] \in {"connect", "observe"} => mem[w] = cr
        /\ pc[w] \in BeforePending => mem[w].create = cr.create
        /\ obs[w] = "absent" /\ pc[w] \in BeforePending =>
              /\ cr.keyAnn = None
              /\ mem[w].keyAnn = None
              /\ mem[w].roleAnn = None

\* What a worker knows at each step, whatever happened to the resource.
StepInv(w) ==
    /\ pc[w] \in BeforePending => mem[w].create # "pending"
    /\ pc[w] \in {"idle", "connect", "observe", "checkSecret"} => obs[w] = "none"
    /\ pc[w] = "checkSecret" => IDsKnown(mem[w])
    /\ pc[w] \in {"publish", "finalizer"} => obs[w] = "absent" \/ IDsKnown(mem[w])
    /\ pc[w] = "pending" => obs[w] = "absent" /\ mem[w].fin
    /\ pc[w] \in BeforePending \cup {"idle", "create"} => newRole[w] = None
    /\ pc[w] = "createKey" => tries[w] < MaxTries
    /\ pc[w] = "publishCreated" /\ newRole[w] # None => mem[w].keyAnn # None

\* A worker between the pending annotation and the stored outcome has the
\* resource for itself, and holds the only key that may have been issued.
CreationInv(w) ==
    /\ InCreation(w) =>
          /\ cr.exists
          /\ cr.fin
          /\ cr.create = "pending"
          /\ cr.keyAnn = None
          /\ mem[w].keySt = cr.keySt
          /\ mem[w].keyAnn = None <=> mem[w].roleAnn = None
          /\ issued \subseteq {mem[w].keyAnn, cr.keySt}
          /\ mem[w].keyAnn # None => /\ cr.keySt = None
                                     /\ mem[w].keyAnn \in issued
                                     /\ roleOf[mem[w].keyAnn] = mem[w].roleAnn
    /\ pc[w] \in {"create", "createKey"} => mem[w].keyAnn = None
    /\ pc[w] \in {"createKey", "writeSecret"} => newRole[w] # None /\ cr.keySt = None
    /\ pc[w] = "writeSecret" => mem[w].keyAnn # None
    /\ pc[w] = "critical" =>
          /\ mem[w].create # "pending"
          /\ mem[w].create = "succeeded" /\ newRole[w] # None => mem[w].keyAnn # None

\* The inductive invariant: what is stored, what each copy knows of it, and who
\* may be creating, at every step of every reconcile.
IInv ==
    /\ TypeOK
    /\ StoredInv
    /\ CacheInv
    /\ \A w \in Workers : FreshInv(w) /\ StepInv(w) /\ CreationInv(w)
    /\ OneCreator
    /\ KeyRecorded
    /\ OneKey

-----------------------------------------------------------------------------

\* What a version of the resource says is true, however old the version is: its
\* keys were issued, its conditions have a key, its roles exist until the resource
\* is deleted and were made for the buckets of the spec unless someone edited it.
Truthful(x) ==
    /\ {x.keyAnn, x.keySt} \subseteq issued \cup {None}
    /\ x.ready = "Available" => x.keySt # None
    /\ x.stBuckets # None => x.keySt # None /\ x.stBuckets = x.buckets
    /\ x.deleting => cr.deleting
    /\ ~cr.deleting => {x.roleAnn, x.roleSt} \subseteq roles \cup {None}
    /\ edits = 0 =>
          /\ x.buckets = cr.buckets
          /\ \A r \in {x.roleAnn, x.roleSt} \ {None} : policy[r] = cr.buckets

\* A worker: its copy is truthful, its next Update is not refused only if the
\* buckets of the spec are the ones of the copy, the role it has made is there;
\* it deletes only what is being deleted, and removes the finalizer only after it
\* found no key or lost sight of it.
GrantStepInv(w) ==
    /\ pc[w] # "idle" => Truthful(mem[w])
    /\ fresh[w] /\ pc[w] # "idle" => mem[w].buckets = cr.buckets
    /\ newRole[w] # None => /\ ~cr.deleting => newRole[w] \in roles
                            /\ edits = 0 => policy[newRole[w]] = cr.buckets
    /\ pc[w] \in {"deleteKey", "deleteRole", "removeFinalizer"} => mem[w].deleting
    /\ pc[w] = "removeFinalizer" => obs[w] \in {"absent", "gone"}
    /\ obs[w] = "gone" => mem[w].keySt # None /\ (blind \/ mem[w].keySt \notin keys)

\* The second inductive invariant: every version of the resource is truthful, and
\* keys and credentials are there as long as nobody deletes the resource.
GrantInv ==
    /\ Truthful(cr)
    /\ \A w \in Workers : Truthful(cache[w]) /\ GrantStepInv(w)
    /\ secret \in Keys => secret \in issued
    /\ ~cr.deleting => issued \subseteq keys /\ ~blind
    /\ edits = 0 => cr.buckets # NoBuckets
    /\ DeletedMeansReleased
=============================================================================
