------------------------------ MODULE DBaaSInv ------------------------------
(***************************************************************************)
(* The inductive invariant of module DBaaS, behind NoServiceLeft,          *)
(* DesiredNotAhead, ReadyMeansUp and ImplementsLifecycle.                  *)
(***************************************************************************)
EXTENDS DBaaS

\* Steps of an attempt to create, between the pending annotation and the outcome.
InCreation(w) == pc[w] \in {"create", "critical"}

\* Steps at which the copy of a worker has not been marked by SetPending.
BeforePending == {"observe", "finalizer", "pending", "update", "delete", "removeFinalizer"}

\* The deletion has begun, and nobody creates the service any more.
Ending == cr.deleting /\ cr.create # "pending"

\* Where the controllers of all kinds look for the service of a version of the
\* resource, and the service that is there.
Place(x) == <<x.spec.zone, ext>>

At(x) == svc[Place(x)]

\* DesiredNotAhead of the service at this place.
NotAhead ==
    At(cr) # None /\ cr.spec.version # None /\ FixedFromStart =>
        AtMost(cr.spec.version, At(cr).version)

\* What is true of every version of the resource, however old the version is: what
\* was being deleted still is, and nothing is created for it; the service whose
\* version the status has is there until the deletion, and not older; a Running
\* service runs; the webhook let nobody move it.
VersionInv(x) ==
    /\ x.deleting => cr.deleting
    /\ x.deleting /\ x.create # "pending" => Ending
    /\ x.fin /\ cr.exists => cr.fin
    /\ x.create = "pending" => x.stVersion = None
    /\ x.stVersion # None =>
          /\ x.ready # "none"
          /\ Ending \/ At(x) # None
          /\ At(x) # None => AtMost(x.stVersion, At(x).version)
    /\ x.ready = "Running" /\ ~cr.deleting => At(x) # None /\ At(x).up
    /\ FixedFromStart => x.spec.zone = cr.spec.zone

\* The stored resource: without a finalizer nothing was made.
StoredInv ==
    /\ VersionInv(cr)
    /\ cr.exists /\ ~cr.fin => cr.create # "pending" /\ made = {}
    /\ NoServiceLeft
    /\ NotAhead

\* The services: each was made, and those of a tracked resource are where its
\* controller looks for them.
StoreInv ==
    /\ \A p \in Places : svc[p] # None => p \in made
    /\ Tracked => made \subseteq {Place(cr)}

CacheInv ==
    \A w \in Workers : VersionInv(cache[w]) /\ (synced[w] => cache[w] = cr)

\* What the copy of a worker says at each step, whatever happened to the resource.
PlaceInv(w) ==
    /\ pc[w] \in BeforePending => mem[w].create # "pending"
    /\ pc[w] \in {"finalizer", "pending"} => ~mem[w].deleting
    /\ pc[w] \in {"delete", "removeFinalizer"} => mem[w].deleting
    /\ pc[w] = "pending" => mem[w].fin /\ obs[w] = "absent"
    /\ pc[w] = "critical" => mem[w].create # "pending"

StepInv(w) ==
    /\ pc[w] # "idle" => VersionInv(mem[w])
    /\ PlaceInv(w)

\* Copies whose next update is not refused: nobody creates the service, so that
\* one which was not found still does not exist.
FreshInv(w) ==
    fresh[w] /\ pc[w] # "idle" =>
        /\ cr.exists
        /\ mem[w].spec = cr.spec
        /\ mem[w].deleting = cr.deleting
        /\ pc[w] \in BeforePending => mem[w].create = cr.create
        /\ pc[w] \in {"finalizer", "pending"} /\ obs[w] = "absent" => At(mem[w]) = None
        /\ pc[w] = "removeFinalizer" => At(mem[w]) = None
        /\ cr.create = "pending" => mem[w].stVersion = None

\* A worker between the pending annotation and the stored outcome has the resource
\* for itself, and its version stays the one that is asked for.
CreationInv(w) ==
    InCreation(w) =>
        /\ cr.exists
        /\ cr.fin
        /\ cr.create = "pending"
        /\ ~mem[w].deleting
        /\ FixedFromStart => mem[w].spec.version = cr.spec.version

OneCreator == \A v, w \in Workers : InCreation(v) /\ InCreation(w) => v = w

\* The inductive invariant.
DInv ==
    /\ TypeOK
    /\ StoredInv
    /\ StoreInv
    /\ CacheInv
    /\ \A w \in Workers : StepInv(w) /\ FreshInv(w) /\ CreationInv(w)
    /\ OneCreator
=============================================================================
