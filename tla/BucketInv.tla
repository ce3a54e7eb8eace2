----------------------------- MODULE BucketInv ------------------------------
(***************************************************************************)
(* The inductive invariants of module Bucket: BInv, behind                 *)
(* StatusNamesBucket, DeletedConditionsTrue, NoBucketLeft, ObjectsKept,    *)
(* BucketsKept and ImplementsLifecycle, and ManagerInv, behind OneManager. *)
(***************************************************************************)
EXTENDS Bucket

\* Steps of an attempt to create, between the pending annotation and the outcome.
InCreation(w) == pc[w] \in {"create", "recheck", "critical"}

\* Steps at which the copy of a worker has not been marked by SetPending.
BeforePending == {"connect", "observe", "finalizer", "pending", "deleteObjects",
                  "removeBucket", "removeFinalizer"}

\* No bucket that the resource made and has to remove is left.
Nothing(r) == Owned(r) = {}

\* What is true of every version of a resource, however old the version is: the
\* status names the bucket of the spec, what was being deleted still is and asked for
\* DeleteAll if the version does, a deletion was tried for a bucket that the status
\* names, and a tracked resource that is Ready has its bucket until it is deleted.
Version(r, x) ==
    /\ x.stName # None => x.stName = x.name
    /\ x.deleting /\ x.policy = "DeleteAll" => r \in purge
    /\ x.deleting => cr[r].deleting
    /\ x.ready = "Deleting" => x.deleting /\ x.stName # None
    /\ renames = 0 => x.name = cr[r].name
    /\ x.ready = "Available" /\ Tracked /\ ~cr[r].deleting => Exists(x.name)

\* The stored resources: without a finalizer nothing was made.
StoredInv(r) ==
    /\ Version(r, cr[r])
    /\ cr[r].exists /\ ~cr[r].fin => cr[r].create # "pending" /\ \A n \in Names : maker[n] # r
    /\ isBucketAlreadyDeleted(cr[r]) => Nothing(r)
    /\ ~cr[r].exists => Nothing(r)

\* The buckets: objects are in one that exists, and without a change of names a
\* bucket has the name that its resource asks for.
StoreInv ==
    \A n \in Names :
        /\ full[n] => Exists(n)
        /\ renames = 0 /\ Exists(n) => n = cr[maker[n]].name

CacheInv ==
    \A w \in Workers, r \in Resources :
        /\ Version(r, cache[w][r])
        /\ synced[w][r] => cache[w][r] = cr[r]

\* What the copy of a worker says at each step, whatever happened to the resource.
PlaceInv(w) ==
    /\ pc[w] \in BeforePending => mem[w].create # "pending"
    /\ pc[w] \in {"finalizer", "pending"} => ~mem[w].deleting
    /\ pc[w] = "pending" => mem[w].fin
    /\ pc[w] \in {"deleteObjects", "removeBucket"} => mem[w].deleting /\ mem[w].stName # None
    /\ pc[w] = "critical" => mem[w].create # "pending"

StepInv(w) ==
    /\ pc[w] = "idle" <=> job[w] = None
    /\ pc[w] # "idle" => Version(job[w], mem[w])
    /\ PlaceInv(w)

\* Copies whose next Update will not be refused: nobody is creating the bucket, and
\* a copy that leads to the end of the resource has seen its bucket go.
FreshInv(w) ==
    fresh[w] /\ pc[w] # "idle" =>
        /\ cr[job[w]].exists
        /\ mem[w].name = cr[job[w]].name
        /\ mem[w].deleting = cr[job[w]].deleting
        /\ pc[w] = "connect" => mem[w] = cr[job[w]]
        /\ pc[w] \in BeforePending => mem[w].create = cr[job[w]].create
        /\ pc[w] \in {"observe", "finalizer", "pending"} => ~isBucketAlreadyDeleted(cr[job[w]])
        /\ pc[w] = "removeFinalizer" => Nothing(job[w])
        /\ pc[w] = "status" /\ isBucketAlreadyDeleted(mem[w]) =>
              Nothing(job[w]) /\ cr[job[w]].create # "pending"

\* A worker between the pending annotation and the stored outcome has the resource
\* for itself.
CreationInv(w) ==
    InCreation(w) =>
        /\ cr[job[w]].exists
        /\ cr[job[w]].fin
        /\ cr[job[w]].create = "pending"
        /\ ~isBucketAlreadyDeleted(cr[job[w]])

OneCreator ==
    \A v, w \in Workers : InCreation(v) /\ InCreation(w) /\ job[v] = job[w] => v = w

\* The inductive invariant.
BInv ==
    /\ TypeOK
    /\ \A r \in Resources : StoredInv(r)
    /\ StoreInv
    /\ CacheInv
    /\ \A w \in Workers : StepInv(w) /\ FreshInv(w) /\ CreationInv(w)
    /\ OneCreator

\* One operator process.
OneProcess == \A v, w \in Workers : v = w

\* A version of a resource that has the lock has it for the bucket that the resource
\* made.
Holds(r, x) == x.lock => maker[x.name] = r

\* A worker that found the name free, up to its request for the bucket.
FoundFree(w) ==
    pc[w] \in {"pending", "create"} \/ (pc[w] = "finalizer" /\ ~mem[w].found)

\* What the copy of a worker says of the bucket of its name.
CopyInv(w) ==
    pc[w] # "idle" =>
        /\ Holds(job[w], mem[w])
        /\ FoundFree(w) => ~Exists(mem[w].name)
        /\ pc[w] = "recheck" => maker[mem[w].name] \in {None, job[w]}

\* The invariant behind OneManager, which holds with one process until a user deletes
\* a resource or changes its name: every lock, in however old a version, was taken by
\* the resource that made the bucket, since a name that Observe found free is still
\* free when the bucket is made, or taken by a request whose answer was lost.
Locks ==
    /\ \A r \in Resources : ~cr[r].deleting /\ Holds(r, cr[r])
    /\ \A w \in Workers, r \in Resources : Holds(r, cache[w][r])
    /\ \A w \in Workers : CopyInv(w)

ManagerInv == OneProcess /\ deletes = 0 /\ renames = 0 => Locks
=============================================================================
