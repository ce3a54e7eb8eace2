------------------------------- MODULE Bucket -------------------------------
(***************************************************************************)
(* Bucket resources that may ask for the same bucket name:                 *)
(* operator/bucketcontroller driven by the managed reconciler of           *)
(* crossplane-runtime, against the Kubernetes API and Exoscale's object    *)
(* storage.  One account owns all buckets, so that a bucket belongs to a   *)
(* resource only by agreement: the lock annotation.                        *)
(*                                                                         *)
(* A worker is one operator process; it reconciles one Bucket at a time.   *)
(* Copies, caches, conflicts and faults are modelled as in module IAMKey.  *)
(***************************************************************************)
EXTENDS Naturals

CONSTANTS
    Workers,     \* operator processes
    Resources,   \* Bucket resources
    Names,       \* bucket names
    Policies,    \* values of spec.forProvider.bucketDeletionPolicy
    None,        \* no name, no resource
    MaxFaults,   \* failed or lost calls and process deaths in a behaviour
    MaxEdits,    \* edits of spec.forProvider in a behaviour
    MaxRenames,  \* those of them that change the bucketName
    MaxDeletes,  \* resources that users delete in a behaviour
    MaxUploads,  \* uploads of objects in a behaviour
    MaxLosses    \* times the provider's credentials are lost in a behaviour

ASSUME NamesAssumption ==
    None \notin Names /\ None \notin Resources /\ None \notin Workers

ASSUME PolicyAssumption == Policies \subseteq {"DeleteIfEmpty", "DeleteAll"}

ASSUME BoundsAssumption ==
    /\ MaxFaults \in Nat
    /\ MaxRenames \in Nat
    /\ MaxEdits \in Nat
    /\ MaxDeletes \in Nat
    /\ MaxUploads \in Nat
    /\ MaxLosses \in Nat

VARIABLES
    cr,      \* the resources as the API server stores them
    maker,   \* for each name: the resource whose MakeBucket made the bucket
             \* that exists under it
    full,    \* for each name: its bucket holds objects
    pc,      \* what each worker does next
    job,     \* the resource each worker reconciles
    mem,     \* each worker's copy of it
    fresh,   \* the stored resource has not changed since mem was read
    cache,   \* each worker's informer cache
    synced,  \* the stored resource has not changed since it was cached
    creds,   \* the provider config, its secret and the credentials in it exist
    purge,   \* resources that asked for DeleteAll at some time in their deletion
    faults, renames, edits, deletes, uploads, losses

store == <<maker, full>>
copies == <<cache, synced>>
users == <<renames, edits, deletes, uploads, creds, losses, purge>>
budgets == <<faults, users>>
vars == <<cr, store, pc, job, mem, fresh, copies, budgets>>

Steps == {"idle", "connect", "observe", "finalizer", "pending", "create", "recheck",
          "critical", "deleteObjects", "removeBucket", "removeFinalizer", "status"}

\* "found" is the observation of the reconcile, kept with the copy.
Resource == [exists: BOOLEAN, deleting: BOOLEAN, fin: BOOLEAN,
             create: {"none", "pending", "succeeded", "failed"},
             lock: BOOLEAN, name: Names, policy: Policies,
             stName: Names \cup {None},
             ready: {"none", "Creating", "Available", "Deleting"},
             sync: {"none", "success", "error"}, found: BOOLEAN]

\* Every variable has its type: copies and caches of a worker are Bucket records,
\* and the status names a bucket, never something else.
TypeOK ==
    /\ cr \in [Resources -> Resource]
    /\ maker \in [Names -> Resources \cup {None}]
    /\ full \in [Names -> BOOLEAN]
    /\ pc \in [Workers -> Steps]
    /\ job \in [Workers -> Resources \cup {None}]
    /\ mem \in [Workers -> Resource \cup {None}]
    /\ \A w \in Workers : job[w] # None => mem[w] \in Resource
    /\ fresh \in [Workers -> BOOLEAN]
    /\ cache \in [Workers -> [Resources -> Resource]]
    /\ synced \in [Workers -> [Resources -> BOOLEAN]]
    /\ faults \in 0 .. MaxFaults
    /\ renames \in 0 .. MaxRenames
    /\ edits \in 0 .. MaxEdits
    /\ deletes \in 0 .. MaxDeletes
    /\ uploads \in 0 .. MaxUploads
    /\ creds \in BOOLEAN
    /\ losses \in 0 .. MaxLosses
    /\ purge \subseteq Resources

NewResource(n, p) ==
    [exists |-> TRUE, deleting |-> FALSE, fin |-> FALSE, create |-> "none",
     lock |-> FALSE, name |-> n, policy |-> p, stName |-> None, ready |-> "none",
     sync |-> "none", found |-> FALSE]

Init ==
    /\ \E n \in [Resources -> Names], p \in [Resources -> Policies] :
          cr = [r \in Resources |-> NewResource(n[r], p[r])]
    /\ maker = [n \in Names |-> None]
    /\ full = [n \in Names |-> FALSE]
    /\ pc = [w \in Workers |-> "idle"]
    /\ job = [w \in Workers |-> None]
    /\ mem = [w \in Workers |-> None]
    /\ fresh = [w \in Workers |-> FALSE]
    /\ cache = [w \in Workers |-> cr]
    /\ synced = [w \in Workers |-> [r \in Resources |-> TRUE]]
    /\ creds = TRUE
    /\ purge = {}
    /\ faults = 0 /\ renames = 0 /\ edits = 0 /\ deletes = 0 /\ uploads = 0 /\ losses = 0

-----------------------------------------------------------------------------
(* Kubernetes API semantics and faults, as in module IAMKey.               *)

Goto(w, step) == pc' = [pc EXCEPT ![w] = step]

Fault == faults < MaxFaults /\ faults' = faults + 1

\* A version of r is stored that makes caches outdated, unless it is the stored
\* one.
Stored(r, new) ==
    /\ cr' = [cr EXCEPT ![r] = new]
    /\ synced' = [v \in Workers |-> [synced[v] EXCEPT ![r] = synced[v][r] /\ new = cr[r]]]

\* ... and copies too, but for the one of the worker that stored it.
Store(r, w, new) ==
    /\ Stored(r, new)
    /\ fresh' = [v \in Workers |-> v = w \/ (fresh[v] /\ (job[v] # r \/ new = cr[r]))]

\* client.Update stores metadata, client.Status().Update the status.
Merged(r, m) == [cr[r] EXCEPT !.fin = m.fin, !.create = m.create, !.lock = m.lock]

MergedStatus(r, m) == [cr[r] EXCEPT !.stName = m.stName, !.ready = m.ready,
                                    !.sync = m.sync]

\* The copy with the conditions that end a reconcile.
Conditions(w, ready, sync) ==
    mem' = [mem EXCEPT ![w].ready = ready, ![w].sync = sync]

Failed(w) == Conditions(w, mem[w].ready, "error") /\ Goto(w, "status")

UpdateResource(w, m, next) ==
    \/ /\ fresh[w]
       /\ Store(job[w], w, Merged(job[w], m))
       /\ mem' = [mem EXCEPT ![w] = [Merged(job[w], m) EXCEPT !.found = m.found]]
       /\ Goto(w, next)
    \/ /\ ~fresh[w]
       /\ Failed(w)
       /\ UNCHANGED <<cr, fresh, synced>>

\* The reconcile of w is over; cr' is what it stored last.
End(w) ==
    /\ pc' = [pc EXCEPT ![w] = "idle"]
    /\ job' = [job EXCEPT ![w] = None]
    /\ mem' = [mem EXCEPT ![w] = None]
    /\ fresh' = [v \in Workers |-> v # w /\ fresh[v] /\ (job[v] # job[w] \/ cr' = cr)]

-----------------------------------------------------------------------------
(* One reconcile.                                                          *)

\* The reconciler refuses a resource whose last attempt to create never
\* reported back.
StartReconcile(w, r) ==
    /\ pc[w] = "idle"
    /\ cache[w][r].exists
    /\ job' = [job EXCEPT ![w] = r]
    /\ fresh' = [fresh EXCEPT ![w] = synced[w][r]]
    /\ IF cache[w][r].create = "pending"
       THEN /\ mem' = [mem EXCEPT ![w] = [cache[w][r] EXCEPT !.ready = "Creating",
                                                             !.sync = "error"]]
            /\ Goto(w, "status")
       ELSE /\ mem' = [mem EXCEPT ![w] = cache[w][r]]
            /\ Goto(w, "connect")
    /\ UNCHANGED <<cr, store, copies, budgets>>

\* Mutant: the Synced condition is not looked at.
deletionTried(m) == m.ready = "Deleting"

\* Conditions from which one can assume that an earlier reconcile removed the
\* bucket.
isBucketAlreadyDeleted(m) == m.ready = "Deleting" /\ m.sync = "success"

\* The NoopClient observes nothing: the deletion is over but for the finalizer.
NoopClient == "removeFinalizer"

\* OpenExoscaleClient reads the provider config, then its secret, and refuses a
\* secret without key or without secret of the API.
OpenExoscaleClient == creds

\* Mutant: the client is opened before the conditions are looked at.
ConnectFirst(w) ==
    /\ pc[w] = "connect"
    /\ \/ /\ OpenExoscaleClient
          /\ Goto(w, IF isBucketAlreadyDeleted(mem[w]) THEN NoopClient ELSE "observe")
          /\ UNCHANGED mem
       \/ ~OpenExoscaleClient /\ Failed(w)
    /\ UNCHANGED <<cr, store, job, fresh, copies, budgets>>

\* Connect: the client that finds nothing, which needs no credentials, or one
\* that has them.
Connect(w) ==
    /\ pc[w] = "connect"
    /\ \/ /\ isBucketAlreadyDeleted(mem[w])
          /\ Goto(w, NoopClient)
          /\ UNCHANGED mem
       \/ /\ ~isBucketAlreadyDeleted(mem[w])
          /\ OpenExoscaleClient
          /\ Goto(w, "observe")
          /\ UNCHANGED mem
       \/ /\ ~isBucketAlreadyDeleted(mem[w])
          /\ ~OpenExoscaleClient
          /\ Failed(w)
    /\ UNCHANGED <<cr, store, job, fresh, copies, budgets>>

Exists(n) == maker[n] # None

\* Mutants: a bucket without our lock counts as none; the condition is not set.
ObserveLockedOnly(w) ==
    /\ pc[w] = "observe"
    /\ IF Exists(mem[w].name) /\ mem[w].lock
       THEN /\ mem' = [mem EXCEPT ![w].stName = mem[w].name, ![w].ready = "Available",
                                  ![w].found = TRUE]
            /\ Goto(w, IF mem[w].deleting THEN "deleteObjects" ELSE "finalizer")
       ELSE /\ Goto(w, IF mem[w].deleting THEN "removeFinalizer" ELSE "finalizer")
            /\ UNCHANGED mem
    /\ UNCHANGED <<cr, store, job, fresh, copies, budgets>>

ObserveSilent(w) ==
    /\ pc[w] = "observe"
    /\ IF Exists(mem[w].name)
       THEN /\ mem' = [mem EXCEPT ![w].stName = mem[w].name, ![w].found = TRUE]
            /\ Goto(w, IF mem[w].deleting THEN "deleteObjects" ELSE "finalizer")
       ELSE /\ Goto(w, IF mem[w].deleting THEN "removeFinalizer" ELSE "finalizer")
            /\ UNCHANGED mem
    /\ UNCHANGED <<cr, store, job, fresh, copies, budgets>>

\* Observe: a bucket is ours when it exists and we hold the lock annotation,
\* which does not say for which name.
Observe(w) ==
    /\ pc[w] = "observe"
    /\ \/ /\ Exists(mem[w].name) /\ mem[w].lock
          /\ mem' = [mem EXCEPT ![w].stName = mem[w].name, ![w].ready = "Available",
                                ![w].found = TRUE]
          /\ Goto(w, IF mem[w].deleting THEN "deleteObjects" ELSE "finalizer")
       \/ /\ Exists(mem[w].name) /\ ~mem[w].lock
          /\ Failed(w)
       \/ /\ ~Exists(mem[w].name)
          /\ Goto(w, IF mem[w].deleting THEN "removeFinalizer" ELSE "finalizer")
          /\ UNCHANGED mem
    /\ UNCHANGED <<cr, store, job, fresh, copies, budgets>>

AddFinalizer(w) ==
    /\ pc[w] = "finalizer"
    /\ \/ /\ ~mem[w].fin
          /\ UpdateResource(w, [mem[w] EXCEPT !.fin = TRUE], "finalizer")
       \/ /\ mem[w].fin /\ ~mem[w].found
          /\ Goto(w, "pending")
          /\ UNCHANGED <<cr, fresh, synced, mem>>
       \/ /\ mem[w].fin /\ mem[w].found      \* up to date
          /\ Conditions(w, mem[w].ready, "success")
          /\ Goto(w, "status")
          /\ UNCHANGED <<cr, fresh, synced>>
    /\ UNCHANGED <<store, job, cache, budgets>>

SetPending(w) ==
    /\ pc[w] = "pending"
    /\ UpdateResource(w, [mem[w] EXCEPT !.create = "pending"], "create")
    /\ UNCHANGED <<store, job, cache, budgets>>

\* setLock, and the outcome of Create for the annotations.
CreateSucceeds(w) ==
    /\ mem' = [mem EXCEPT ![w].lock = TRUE, ![w].create = "succeeded",
                          ![w].ready = "Creating", ![w].sync = "success"]
    /\ Goto(w, "critical")

CreateFails(w) ==
    /\ mem' = [mem EXCEPT ![w].create = "failed", ![w].ready = "Creating",
                          ![w].sync = "error"]
    /\ Goto(w, "critical")

Made(n, r) ==
    /\ maker' = [maker EXCEPT ![n] = r]
    /\ full' = [full EXCEPT ![n] = FALSE]

\* createS3Bucket: a bucket of that name in our account is an error of
\* MakeBucket, and so is a lost answer.
MakeBucket(w) ==
    /\ pc[w] = "create"
    /\ \/ /\ ~Exists(mem[w].name)
          /\ Made(mem[w].name, job[w])
          /\ CreateSucceeds(w)
          /\ UNCHANGED faults
       \/ /\ Exists(mem[w].name)
          /\ Goto(w, "recheck")
          /\ UNCHANGED <<store, mem, faults>>
       \/ /\ Fault
          /\ (~Exists(mem[w].name) /\ Made(mem[w].name, job[w])) \/ UNCHANGED store
          /\ Goto(w, "recheck")
          /\ UNCHANGED mem
    /\ UNCHANGED <<cr, job, fresh, copies, users>>

\* ... after which an accessible bucket counts as created.
RecheckBucket(w) ==
    /\ pc[w] = "recheck"
    /\ \/ /\ Exists(mem[w].name)
          /\ CreateSucceeds(w)
          /\ UNCHANGED faults
       \/ /\ ~Exists(mem[w].name)
          /\ CreateFails(w)
          /\ UNCHANGED faults
       \/ /\ Fault
          /\ CreateFails(w)
    /\ UNCHANGED <<cr, store, job, fresh, copies, users>>

\* The outcome is stored over a newer version of the resource if need be; the
\* resource exists, since nobody else removes the finalizer of a pending one.
CriticalAnnotations(w) ==
    /\ pc[w] = "critical"
    /\ LET new == Merged(job[w], [mem[w] EXCEPT !.fin = cr[job[w]].fin])
       IN /\ Store(job[w], w, new)
          /\ mem' = [mem EXCEPT ![w] = [new EXCEPT !.ready = "Creating",
                                                   !.sync = mem[w].sync]]
    /\ Goto(w, "status")
    /\ UNCHANGED <<store, job, cache, budgets>>

\* Mutants: the policy is not looked at; objects are never deleted.
DeleteObjectsAlways(w) ==
    /\ pc[w] = "deleteObjects"
    /\ full' = [full EXCEPT ![mem[w].stName] = FALSE]
    /\ Goto(w, "removeBucket")
    /\ UNCHANGED <<cr, maker, job, mem, fresh, copies, budgets>>

DeleteObjectsNever(w) ==
    /\ pc[w] = "deleteObjects"
    /\ Goto(w, "removeBucket")
    /\ UNCHANGED <<cr, store, job, mem, fresh, copies, budgets>>

\* Delete: with the policy DeleteAll the objects go first.  Objects that
\* cannot be listed are skipped, the first that cannot be removed is an error.
DeleteObjects(w) ==
    /\ pc[w] = "deleteObjects"
    /\ \/ /\ mem[w].policy # "DeleteAll"
          /\ Goto(w, "removeBucket")
          /\ UNCHANGED <<full, mem, faults>>
       \/ /\ mem[w].policy = "DeleteAll"
          /\ full' = [full EXCEPT ![mem[w].stName] = FALSE]
          /\ Goto(w, "removeBucket")
          /\ UNCHANGED <<mem, faults>>
       \/ /\ mem[w].policy = "DeleteAll"
          /\ Fault
          /\ \/ Goto(w, "removeBucket") /\ UNCHANGED mem
             \/ Conditions(w, "Deleting", "error") /\ Goto(w, "status")
          /\ UNCHANGED full
    /\ UNCHANGED <<cr, maker, job, fresh, copies, users>>

Removed(n) ==
    /\ Exists(n) /\ ~full[n]
    /\ maker' = [maker EXCEPT ![n] = None]

\* Mutants: errors are dropped; the bucket is removed with what it holds.
RemoveBucketUnchecked(w) ==
    /\ pc[w] = "removeBucket"
    /\ Removed(mem[w].stName) \/ UNCHANGED maker
    /\ Conditions(w, "Deleting", "success")
    /\ Goto(w, "status")
    /\ UNCHANGED <<cr, full, job, fresh, copies, budgets>>

RemoveBucketForced(w) ==
    /\ pc[w] = "removeBucket"
    /\ maker' = [maker EXCEPT ![mem[w].stName] = None]
    /\ Conditions(w, "Deleting", "success")
    /\ Goto(w, "status")
    /\ UNCHANGED <<cr, full, job, fresh, copies, budgets>>

\* RemoveBucket refuses a bucket that holds objects or does not exist.
RemoveBucket(w) ==
    /\ pc[w] = "removeBucket"
    /\ \/ /\ Removed(mem[w].stName)
          /\ Conditions(w, "Deleting", "success")
          /\ UNCHANGED faults
       \/ /\ ~Exists(mem[w].stName) \/ full[mem[w].stName]
          /\ Conditions(w, "Deleting", "error")
          /\ UNCHANGED <<maker, faults>>
       \/ /\ Fault
          /\ Removed(mem[w].stName) \/ UNCHANGED maker
          /\ Conditions(w, "Deleting", "error")
    /\ Goto(w, "status")
    /\ UNCHANGED <<cr, full, job, fresh, copies, users>>

RemoveFinalizer(w) ==
    /\ pc[w] = "removeFinalizer"
    /\ \/ /\ fresh[w]
          /\ Stored(job[w], [cr[job[w]] EXCEPT !.exists = FALSE, !.fin = FALSE])
          /\ End(w)
       \/ /\ ~fresh[w]
          /\ Failed(w)
          /\ UNCHANGED <<cr, job, fresh, synced>>
    /\ UNCHANGED <<store, cache, budgets>>

WriteStatus(w) ==
    /\ pc[w] = "status"
    /\ Stored(job[w], IF fresh[w] THEN MergedStatus(job[w], mem[w]) ELSE cr[job[w]])
    /\ End(w)
    /\ UNCHANGED <<store, cache, budgets>>

-----------------------------------------------------------------------------
(* Faults, the informer, and the users.                                    *)

CallFails(w) ==
    /\ pc[w] = "connect" => ~isBucketAlreadyDeleted(mem[w])
    /\ pc[w] \in {"connect", "observe", "finalizer", "pending", "critical",
                  "removeFinalizer"}
    /\ Fault
    /\ Failed(w)
    /\ UNCHANGED <<cr, store, job, fresh, copies, users>>

Crash(w) ==
    /\ pc[w] # "idle"
    /\ Fault
    /\ UNCHANGED <<cr, store, copies, users>>
    /\ End(w)

CacheSync(w, r) ==
    /\ ~synced[w][r]
    /\ cache' = [cache EXCEPT ![w][r] = cr[r]]
    /\ synced' = [synced EXCEPT ![w][r] = TRUE]
    /\ UNCHANGED <<cr, store, pc, job, mem, fresh, budgets>>

\* A user stores this version of r.
StoreByUser(r, new) ==
    /\ Store(r, None, new)
    /\ purge' = IF new.deleting /\ new.policy = "DeleteAll" THEN purge \cup {r} ELSE purge
    /\ UNCHANGED <<store, pc, job, mem, cache, faults, uploads, creds, losses>>

UserDelete(r) ==
    /\ cr[r].exists /\ ~cr[r].deleting
    /\ deletes < MaxDeletes /\ deletes' = deletes + 1
    /\ StoreByUser(r, IF cr[r].fin THEN [cr[r] EXCEPT !.deleting = TRUE]
                                   ELSE [cr[r] EXCEPT !.exists = FALSE])
    /\ UNCHANGED <<renames, edits>>

\* Mutant: the name may always be changed.
ValidateUpdateNothing(old, new) == TRUE

\* ValidateUpdate: the name is fixed once the status has it, the policy never is.
ValidateUpdate(old, new) == old.stName # None => new.name = old.stName

\* A user edits the name, the policy or both, also during the deletion.
UserEdit(r) ==
    /\ cr[r].exists
    /\ \E n \in Names, p \in Policies :
        LET new == [cr[r] EXCEPT !.name = n, !.policy = p]
        IN /\ new # cr[r]
           /\ ValidateUpdate(cr[r], new)
           /\ StoreByUser(r, new)
           /\ IF n = cr[r].name THEN UNCHANGED renames
                                ELSE renames < MaxRenames /\ renames' = renames + 1
    /\ edits < MaxEdits /\ edits' = edits + 1
    /\ UNCHANGED deletes

Upload(n) ==
    /\ Exists(n) /\ ~full[n]
    /\ uploads < MaxUploads /\ uploads' = uploads + 1
    /\ full' = [full EXCEPT ![n] = TRUE]
    /\ UNCHANGED <<cr, maker, pc, job, mem, fresh, copies, faults, renames, edits, deletes,
                   creds, losses, purge>>

\* Someone deletes the provider config, its secret or what it holds, or puts it
\* back.
UserCredentials ==
    /\ creds' = ~creds
    /\ IF creds THEN losses < MaxLosses /\ losses' = losses + 1 ELSE UNCHANGED losses
    /\ UNCHANGED <<cr, store, pc, job, mem, fresh, copies, faults, renames, edits,
                   deletes, uploads, purge>>

-----------------------------------------------------------------------------

Continue(w) ==
    \/ Connect(w) \/ Observe(w) \/ AddFinalizer(w) \/ SetPending(w)
    \/ MakeBucket(w) \/ RecheckBucket(w) \/ CriticalAnnotations(w)
    \/ DeleteObjects(w) \/ RemoveBucket(w) \/ RemoveFinalizer(w) \/ WriteStatus(w)

Next ==
    \/ \E w \in Workers : Continue(w) \/ CallFails(w) \/ Crash(w)
    \/ \E w \in Workers, r \in Resources : StartReconcile(w, r) \/ CacheSync(w, r)
    \/ \E r \in Resources : UserDelete(r) \/ UserEdit(r)
    \/ \E n \in Names : Upload(n)
    \/ UserCredentials

Spec == Init /\ [][Next]_vars

\* A reconcile that was started goes on, the watch delivers, and the work queue
\* of a worker serves every resource in turn.
Fairness ==
    \A w \in Workers :
        /\ WF_vars(Continue(w))
        /\ \A r \in Resources : WF_vars(CacheSync(w, r)) /\ SF_vars(StartReconcile(w, r))

FairSpec == Spec /\ Fairness

-----------------------------------------------------------------------------
(* Properties.                                                             *)

\* The resource holds the lock for its name and will not be dropped as one
\* whose bucket is gone.
Manages(r) == cr[r].exists /\ cr[r].lock /\ ~isBucketAlreadyDeleted(cr[r])

\* create.go and observe_test.go: two resources never manage one bucket.
OneManager ==
    \A r, s \in Resources :
        Manages(r) /\ Manages(s) /\ cr[r].name = cr[s].name => r = s

\* Buckets the resource made and has to remove.  A name can be changed between
\* MakeBucket and the status that records it, which abandons the bucket.
Owned(r) == {n \in Names : maker[n] = r /\ (renames = 0 \/ n = cr[r].name)}

\* Conditions that say that the bucket was removed are never stored while a
\* bucket the resource made exists, so that the client that finds nothing
\* drops no resource with a bucket.
DeletedConditionsTrue ==
    \A r \in Resources : isBucketAlreadyDeleted(cr[r]) => Owned(r) = {}

\* A resource that is gone has left no bucket behind.
NoBucketLeft == \A r \in Resources : ~cr[r].exists => Owned(r) = {}

\* The resource asks for the bucket of that name, or did when it was made.
AsksFor(r, n) == cr[r].name = n \/ maker[n] = r

\* Objects disappear only in the deletion of a resource that names their bucket, and
\* that had the policy DeleteAll at some time since the deletion began: a policy
\* changed before the deletion holds, whatever copies are outdated.
ObjectsKept ==
    [][\A n \in Names : full[n] /\ ~full'[n] =>
          \E r \in Resources : r \in purge /\ AsksFor(r, n)]_vars

\* Nobody's outdated copy deletes a bucket: buckets only go with the deletion
\* of a resource that names them, and never together with their objects.
BucketsKept ==
    [][\A n \in Names : Exists(n) /\ ~Exists(n)' =>
          ~full[n] /\ \E r \in Resources : cr[r].deleting /\ AsksFor(r, n)]_vars

\* An attempt to create ended without storing its outcome.
Stuck(r) == cr[r].create = "pending" /\ \A w \in Workers : job[w] # r

\* The name is taken: a bucket exists, and the resource holds no lock.
NameTaken(r) == Exists(cr[r].name) /\ ~cr[r].lock

\* A resource is provisioned, unless it is deleted, its name is taken, an attempt
\* to create it never reported back, or the credentials stay lost.
ProvisioningEnds ==
    \A r \in Resources :
        cr[r].exists ~> \/ cr[r].ready = "Available" \/ cr[r].deleting \/ ~cr[r].exists
                        \/ NameTaken(r) \/ Stuck(r) \/ []~creds

\* A deleted resource goes away, unless its bucket holds objects that the
\* policy keeps, its name is taken, it is stuck, or the credentials stay lost.
DeletionEnds ==
    \A r \in Resources :
        cr[r].deleting ~> \/ ~cr[r].exists
                          \/ NameTaken(r)
                          \/ Stuck(r)
                          \/ full[cr[r].name] /\ cr[r].policy = "DeleteIfEmpty"
                          \/ []~creds

\* A resource whose bucket is recorded as deleted goes away without credentials,
\* which are often deleted together with it, unless another call fails.
GoesWithoutCredentials ==
    \A r \in Resources, f \in 0 .. MaxFaults :
        /\ cr[r].exists /\ isBucketAlreadyDeleted(cr[r])
        /\ faults = f /\ \A w \in Workers : job[w] # r
        ~> ~cr[r].exists \/ faults # f

\* Observe looks for the bucket of the spec, Delete removes the one of the status:
\* a status that is stored always names the bucket of the spec.
StatusNamesBucket ==
    \A r \in Resources : cr[r].stName # None => cr[r].stName = cr[r].name

(* What a Bucket promises.                                                 *)

\* Any one of the resources, and how module Lifecycle sees it.
Some == CHOOSE r \in Resources : TRUE

Claim ==
    IF cr[Some].exists THEN IF cr[Some].deleting THEN "deleting" ELSE "declared" ELSE "gone"

\* The promise is about a resource whose name is not changed and that no other
\* resource asks for.
Tracked == MaxRenames = 0 /\ Resources = {Some}

Thing == IF Tracked THEN IF Owned(Some) # {} THEN "held" ELSE "none" ELSE "untracked"

LC == INSTANCE Lifecycle
        WITH claim <- Claim, thing <- Thing,
             ready <- cr[Some].exists /\ Tracked /\ cr[Some].ready = "Available"

\* Between processes that die, retry and work on outdated copies a Bucket keeps
\* the promise of a resource: its bucket is made while it exists, taken away only
\* in its deletion, and gone before it is.
ImplementsLifecycle == LC!Spec
=============================================================================
