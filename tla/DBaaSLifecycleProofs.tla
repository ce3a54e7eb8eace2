------------------------ MODULE DBaaSLifecycleProofs ------------------------
(***************************************************************************)
(* A database resource keeps the promise of a resource: module DBaaS       *)
(* implements module Lifecycle, for any number of operator processes, any  *)
(* kind, specs, names and versions, and any number of faults, edits and    *)
(* upgrades.  The promise about the service itself is one of a kind whose  *)
(* webhook fixes the zone from the start and whose calls all use one name. *)
(***************************************************************************)
EXTENDS DBaaSProofs

\* The abstract variable ready of the mapping.
Reported == cr.exists /\ Tracked /\ cr.ready = "Running"

\* Whether the promise is about the service is decided by kind and name.
LEMMA TrackedStays ==
    ASSUME UNCHANGED <<kind, ext>>
    PROVE  Tracked' <=> Tracked
BY DEF Tracked, FixedFromStart, SameNames

\* Kind and name are given once and for all.
LEMMA KindStays ==
    ASSUME [Next]_vars
    PROVE  UNCHANGED <<kind, ext>>
<1>1. ASSUME NEW w \in Workers, Reconcile(w) \/ CallFails(w) \/ Crash(w) \/ CacheSync(w)
      PROVE  UNCHANGED <<kind, ext>>
  BY <1>1 DEF Reconcile, StartReconcile, ObserveAbsent, ObserveService, AddFinalizer,
     SetPending, Create, CriticalAnnotations, Update, Delete, RemoveFinalizer, WriteStatus,
     CallFails, Crash, CacheSync
<1>2. ASSUME NEW p \in Places, Provisioned(p) \/ Upgrade(p)  PROVE UNCHANGED <<kind, ext>>
  BY <1>2 DEF Provisioned, Upgrade
<1>3. CASE UserEdit \/ UserDelete \/ UNCHANGED vars
  BY <1>3 DEF UserEdit, UserDelete, vars
<1> QED  BY <1>1, <1>2, <1>3 DEF Next

\* The service of a tracked resource is the one where its controller looks for it.
LEMMA HeldAt ==
    ASSUME DInv, Tracked
    PROVE  (\E p \in made : svc[p] # None) <=> At(cr) # None
<1>1. TypeOK /\ StoreInv /\ Place(cr) \in Places  BY AtTyping DEF DInv, TypeOK
<1>2. made \subseteq {Place(cr)} /\ (svc[Place(cr)] # None => Place(cr) \in made)
  BY <1>1 DEF StoreInv
<1> QED  BY <1>2 DEF At

ThingInv ==
    /\ ~Tracked => Thing = "untracked"
    /\ Tracked /\ At(cr) # None => Thing = "held"
    /\ Tracked /\ At(cr) = None => Thing = "none"

LEMMA ThingIs == DInv => ThingInv
BY HeldAt DEF Thing, ThingInv

LEMMA ThingIsNext == DInv' => ThingInv'
BY ThingIs, PTL

\* Lifecycle sees of the stored resource its existence, its deletion and its Ready
\* condition, and of the account whether the service is there.
LEMMA Unseen ==
    ASSUME DInv, DInv', UNCHANGED <<kind, ext>>,
           Tracked => ((At(cr)' = None) <=> (At(cr) = None)),
           cr'.exists = cr.exists, cr'.deleting = cr.deleting,
           Tracked => ((cr'.ready = "Running") <=> (cr.ready = "Running"))
    PROVE  UNCHANGED LC!vars
<1>1. Tracked' <=> Tracked  BY TrackedStays
<1>2. Claim' = Claim  BY DEF Claim
<1>3. Thing' = Thing  BY <1>1, ThingIs, ThingIsNext DEF ThingInv
<1>4. Reported' = Reported  BY <1>1 DEF Reported
<1> QED  BY <1>2, <1>3, <1>4 DEF LC!vars, Reported

\* The same for a step that leaves the resource as it is, and its service where it
\* is, or missing.
LEMMA UnseenCall ==
    ASSUME DInv, DInv', UNCHANGED <<kind, ext, cr>>,
           \A p \in Places : svc'[p] = None <=> svc[p] = None
    PROVE  UNCHANGED LC!vars
<1>1. Place(cr) \in Places  BY AtTyping DEF DInv, TypeOK
<1>2. (At(cr)' = None) <=> (At(cr) = None)  BY <1>1 DEF At, Place
<1> QED  BY <1>2, Unseen

\* A service is made for a resource that exists and has none.
LEMMA CreateProvisions ==
    ASSUME DInv, DInv', NEW w \in Workers, Create(w)
    PROVE  [LC!Next]_(LC!vars)
<1>a. /\ TypeOK /\ CreationInv(w) /\ pc[w] = "create" /\ UNCHANGED <<kind, ext, cr>>
      /\ cr.exists
  BY DEF DInv, Create, CreationInv, InCreation
<1>1. CASE UNCHANGED svc  BY <1>a, <1>1, UnseenCall
<1>2. CASE ~Tracked  BY <1>a, <1>2, Unseen
<1>3. CASE Tracked /\ ~UNCHANGED svc
  <2> DEFINE q == CreatePlace(mem[w])
  <2>1. svc[q] = None /\ Made(q, Body(mem[w].spec))
    BY <1>3 DEF Create, Made, cloud
  <2>2. PICK s : svc' = [svc EXCEPT ![q] = s]
    BY <2>1 DEF Made
  <2>3. q = Place(cr)
    <3>1. /\ mem[w].spec \in Specs /\ VersionInv(mem[w]) /\ kind \in AllKinds
          /\ ext \in ExternalNames
      BY <1>a, KindsAssumption DEF TypeOK, Resource, DInv, StepInv
    <3>2. q = Place(mem[w])  BY <1>3, <3>1, CallPlaces DEF Tracked
    <3> QED  BY <1>3, <3>1, <3>2 DEF Tracked, VersionInv, Place
  <2> HIDE DEF q
  <2>4. Place(cr) \in Places /\ Place(cr)' = Place(cr)
    BY <1>a, AtTyping DEF TypeOK, Place
  <2>5. At(cr) = None /\ At(cr)' # None
    BY <1>a, <1>3, <2>1, <2>2, <2>3, <2>4 DEF At, TypeOK
  <2>6. Thing = "none" /\ Thing' = "held"
    BY <1>a, <1>3, <2>5, TrackedStays, ThingIs, ThingIsNext DEF ThingInv
  <2>7. Claim' = Claim /\ Claim # "gone" /\ Reported' = Reported
    BY <1>a, TrackedStays DEF Claim, Reported
  <2>8. LC!Provision  BY <2>6, <2>7 DEF LC!Provision, Reported
  <2> QED  BY <2>8 DEF LC!Next
<1> QED  BY <1>1, <1>2, <1>3

\* A service goes while its resource is being deleted, and before it is gone.
LEMMA DeleteReleases ==
    ASSUME DInv, DInv', NEW w \in Workers, Delete(w)
    PROVE  [LC!Next]_(LC!vars)
<1>a. TypeOK /\ StepInv(w) /\ pc[w] = "delete" /\ UNCHANGED <<kind, ext, cr>>
  BY DEF DInv, Delete
<1>b. cr.deleting  BY <1>a DEF StepInv, PlaceInv, VersionInv
<1>1. CASE Tracked => (At(cr)' = None <=> At(cr) = None)  BY <1>a, <1>1, Unseen
<1>2. CASE Tracked /\ ~(At(cr)' = None <=> At(cr) = None)
  <2>1. svc' = [svc EXCEPT ![Found(mem[w])] = None]
    BY <1>a, <1>2 DEF Delete, At, Place
  <2>2. Place(cr) \in Places /\ Place(cr)' = Place(cr)
    BY <1>a, AtTyping DEF TypeOK, Place
  <2>3. At(cr) # None /\ At(cr)' = None
    BY <1>a, <1>2, <2>1, <2>2 DEF At, TypeOK
  <2>4. Thing = "held" /\ Thing' = "none"
    BY <1>a, <1>2, <2>3, TrackedStays, ThingIs, ThingIsNext DEF ThingInv
  <2>5. cr.exists
    BY <1>2, <2>3, HeldAt DEF DInv, StoredInv, NoServiceLeft, Tracked
  <2>6. Claim' = Claim /\ Claim = "deleting" /\ Reported' = Reported
    BY <1>a, <1>b, <2>5, TrackedStays DEF Claim, Reported
  <2>7. LC!Release  BY <2>4, <2>6 DEF LC!Release, Reported
  <2> QED  BY <2>7 DEF LC!Next
<1> QED  BY <1>1, <1>2

\* A resource that goes leaves no service.
LEMMA GoneForgets ==
    ASSUME DInv, DInv', UNCHANGED <<kind, ext, svc>>, cr.exists, ~cr'.exists,
           cr'.spec = cr.spec
    PROVE  [LC!Next]_(LC!vars)
<1>1. Tracked' <=> Tracked  BY TrackedStays
<1>2. At(cr)' = At(cr)  BY DEF At, Place
<1>3. Tracked' => At(cr)' = None
  <2>1. Tracked' /\ At(cr)' # None => Thing' = "held"  BY ThingIsNext DEF ThingInv
  <2>2. Tracked' => Thing' # "held"  BY DEF DInv, StoredInv, NoServiceLeft, Tracked, Thing
  <2> QED  BY <2>1, <2>2
<1>4. Thing # "held" /\ Thing' = Thing
  BY <1>1, <1>2, <1>3, ThingIs, ThingIsNext DEF ThingInv
<1>5. Claim # "gone" /\ Claim' = "gone" /\ Reported' = FALSE  BY DEF Claim, Reported
<1>6. LC!Forget  BY <1>4, <1>5 DEF LC!Forget, Reported
<1> QED  BY <1>6 DEF LC!Next

\* Running is stored only of a resource that exists, and while it is not being
\* deleted only when its service is there.
LEMMA StatusReports ==
    ASSUME DInv, DInv', UNCHANGED <<kind, ext, svc>>, cr.exists, cr'.exists,
           cr'.spec = cr.spec, cr'.deleting = cr.deleting
    PROVE  [LC!Next]_(LC!vars)
<1>1. Tracked' <=> Tracked  BY TrackedStays
<1>2. At(cr)' = At(cr)  BY DEF At, Place
<1>3. Thing' = Thing  BY <1>1, <1>2, ThingIs, ThingIsNext DEF ThingInv
<1>4. Claim' = Claim /\ Claim # "gone"  BY DEF Claim
<1>5. CASE ~Reported'
  <2>1. LC!Withdraw  BY <1>3, <1>4, <1>5 DEF LC!Withdraw, Reported
  <2> QED  BY <2>1 DEF LC!Next
<1>6. CASE Reported'
  <2>1. Tracked /\ cr'.ready = "Running"  BY <1>1, <1>6 DEF Reported
  <2>2. ASSUME Claim = "declared"  PROVE Thing = "held"
    <3>1. ~cr'.deleting  BY <2>2 DEF Claim
    <3>2. At(cr)' # None  BY <2>1, <3>1 DEF DInv, StoredInv, VersionInv
    <3> QED  BY <1>2, <2>1, <3>2, ThingIs DEF ThingInv
  <2>3. Reported' = TRUE  BY <1>6
  <2>4. LC!Report  BY <1>3, <1>4, <2>2, <2>3 DEF LC!Report, Reported
  <2> QED  BY <2>4 DEF LC!Next
<1> QED  BY <1>5, <1>6

\* Update, provisioning and upgrades change services that are there.
LEMMA ChangesUnseen ==
    ASSUME DInv, DInv', \/ \E w \in Workers : Update(w)
                        \/ \E p \in Places : Provisioned(p) \/ Upgrade(p)
    PROVE  UNCHANGED LC!vars
<1>a. TypeOK /\ kind \in AllKinds /\ ext \in ExternalNames /\ UNCHANGED <<kind, ext, cr>>
  BY KindsAssumption DEF DInv, TypeOK, Update, Provisioned, Upgrade
<1>1. ASSUME NEW p \in Places, svc[p] # None, NEW t \in Service, svc' = [svc EXCEPT ![p] = t]
      PROVE  UNCHANGED LC!vars
  <2>1. \A q \in Places : svc'[q] = None <=> svc[q] = None
    BY <1>a, <1>1, ServiceAssumption DEF TypeOK
  <2> QED  BY <1>a, <2>1, UnseenCall
<1>2. ASSUME NEW w \in Workers, Update(w)  PROVE UNCHANGED LC!vars
  <2>1. /\ pc[w] = "update"
        /\ \/ UNCHANGED svc
           \/ /\ UpdateBody(mem[w].spec) # None
              /\ Changed(UpdatePlace(mem[w]), UpdateBody(mem[w].spec))
    BY <1>2 DEF Update
  <2>2. mem[w].spec \in Specs  BY <1>a, <2>1 DEF TypeOK, Resource
  <2>3. UpdatePlace(mem[w]) \in Places  BY <1>a, <2>2, CallPlaces
  <2>4. CASE UNCHANGED svc  BY <1>a, <2>4, UnseenCall
  <2>5. CASE ~UNCHANGED svc
    <3>1. svc[UpdatePlace(mem[w])] # None  BY <2>1, <2>5 DEF Changed
    <3>2. \E t \in Service : svc' = [svc EXCEPT ![UpdatePlace(mem[w])] = t]
      BY <1>a, <2>1, <2>2, <2>3, <2>5, ServiceTyping
    <3> QED  BY <1>1, <2>3, <3>1, <3>2
  <2> QED  BY <2>4, <2>5
<1>3. ASSUME NEW p \in Places, Provisioned(p)  PROVE UNCHANGED LC!vars
  <2>1. svc[p] # None /\ svc[p] \in Service  BY <1>a, <1>3 DEF Provisioned, TypeOK
  <2>2. [svc[p] EXCEPT !.up = TRUE] \in Service  BY <2>1 DEF Service
  <2>3. svc' = [svc EXCEPT ![p] = [svc[p] EXCEPT !.up = TRUE]]  BY <1>3 DEF Provisioned
  <2> QED  BY <1>1, <2>1, <2>2, <2>3
<1>4. ASSUME NEW p \in Places, Upgrade(p)  PROVE UNCHANGED LC!vars
  <2>1. svc[p] # None /\ svc[p] \in Service  BY <1>a, <1>4 DEF Upgrade, TypeOK
  <2>2. PICK v \in Versions : svc' = [svc EXCEPT ![p] = [svc[p] EXCEPT !.version = v]]
    BY <1>4 DEF Upgrade
  <2>3. [svc[p] EXCEPT !.version = v] \in Service  BY <2>1 DEF Service
  <2> QED  BY <1>1, <2>1, <2>2, <2>3
<1> QED  BY <1>2, <1>3, <1>4

\* Metadata is not seen.
LEMMA UpdatesUnseen ==
    ASSUME DInv, DInv', NEW w \in Workers,
           AddFinalizer(w) \/ SetPending(w) \/ CriticalAnnotations(w)
    PROVE  UNCHANGED LC!vars
<1>a. cr \in Resource /\ UNCHANGED <<kind, ext, svc>>
  BY DEF DInv, TypeOK, AddFinalizer, SetPending, CriticalAnnotations, cloud
<1>1. ASSUME NEW new, cr' = new, new.exists = cr.exists, new.deleting = cr.deleting,
             new.spec = cr.spec, new.ready = cr.ready
      PROVE  UNCHANGED LC!vars
  <2>1. At(cr)' = At(cr)  BY <1>a, <1>1 DEF At, Place
  <2> QED  BY <1>a, <1>1, <2>1, Unseen
<1>2. CASE UNCHANGED cr  BY <1>1, <1>2
<1>3. CASE AddFinalizer(w)
  <2>1. UNCHANGED cr \/ cr' = [cr EXCEPT !.fin = TRUE]
    BY <1>3 DEF AddFinalizer, UpdateResource, Store, Stored
  <2> QED  BY <1>a, <1>1, <1>2, <2>1 DEF Resource
<1>4. CASE SetPending(w)
  <2>1. UNCHANGED cr \/ cr' = [cr EXCEPT !.create = "pending"]
    BY <1>4 DEF SetPending, UpdateResource, Store, Stored
  <2> QED  BY <1>a, <1>1, <1>2, <2>1 DEF Resource
<1>5. CASE CriticalAnnotations(w)
  <2>1. cr' = [cr EXCEPT !.create = mem[w].create]
    BY <1>5 DEF CriticalAnnotations, Store, Stored
  <2> QED  BY <1>a, <1>1, <2>1 DEF Resource
<1> QED  BY <1>3, <1>4, <1>5

\* The last update of a reconcile: the finalizer goes with the resource, or the status
\* is stored.
LEMMA LastUpdates ==
    ASSUME DInv, DInv', NEW w \in Workers, RemoveFinalizer(w) \/ WriteStatus(w)
    PROVE  [LC!Next]_(LC!vars)
<1>a. TypeOK /\ FreshInv(w) /\ cr \in Resource /\ UNCHANGED <<kind, ext, svc>>
  BY DEF DInv, TypeOK, RemoveFinalizer, WriteStatus, cloud
<1>1. CASE fresh[w] /\ RemoveFinalizer(w)
  <2>1. cr' = [cr EXCEPT !.exists = FALSE, !.fin = FALSE]
    BY <1>1 DEF RemoveFinalizer, Stored
  <2>2. ~cr'.exists /\ cr'.spec = cr.spec  BY <1>a, <2>1 DEF Resource
  <2>3. cr.exists  BY <1>1, <1>a DEF FreshInv, RemoveFinalizer
  <2> QED  BY <1>a, <2>2, <2>3, GoneForgets
<1>2. CASE fresh[w] /\ WriteStatus(w)
  <2>1. cr' = [cr EXCEPT !.stVersion = mem[w].stVersion, !.ready = mem[w].ready]
    BY <1>2 DEF WriteStatus, Stored
  <2>2. cr'.exists = cr.exists /\ cr'.spec = cr.spec /\ cr'.deleting = cr.deleting
    BY <1>a, <2>1 DEF Resource
  <2>3. cr.exists  BY <1>2, <1>a DEF FreshInv, WriteStatus
  <2> QED  BY <1>a, <2>2, <2>3, StatusReports
<1>3. CASE ~fresh[w]
  <2>1. UNCHANGED cr  BY <1>3 DEF RemoveFinalizer, WriteStatus, Stored
  <2> QED  BY <1>a, <2>1, UnseenCall
<1> QED  BY <1>1, <1>2, <1>3

\* A user asks for the deletion, which ends at once a resource without a finalizer;
\* admitted edits leave the service of a tracked resource where it is looked for.
LEMMA UserSteps ==
    ASSUME DInv, DInv', UserEdit \/ UserDelete
    PROVE  [LC!Next]_(LC!vars)
<1>a. /\ cr \in Resource /\ kind \in AllKinds /\ UNCHANGED <<kind, ext, svc>>
  BY KindsAssumption DEF DInv, TypeOK, UserEdit, UserDelete, cloud
<1>1. CASE UserEdit
  <2>1. PICK s \in Specs : ValidateUpdate(cr, s) /\ cr' = [cr EXCEPT !.spec = s]
    BY <1>1 DEF UserEdit, SpecsOf, Store, Stored
  <2>2. /\ cr'.exists = cr.exists /\ cr'.deleting = cr.deleting /\ cr'.ready = cr.ready
        /\ cr'.spec = s
    BY <1>a, <2>1 DEF Resource
  <2>3. Tracked => At(cr)' = At(cr)
    BY <1>a, <2>1, <2>2, UpdatesAdmitted DEF Tracked, At, Place
  <2> QED  BY <1>a, <2>2, <2>3, Unseen
<1>2. CASE UserDelete /\ ~cr.fin
  <2>1. cr' = [cr EXCEPT !.exists = FALSE] /\ cr.exists
    BY <1>2 DEF UserDelete, Store, Stored
  <2>2. ~cr'.exists /\ cr'.spec = cr.spec  BY <1>a, <2>1 DEF Resource
  <2> QED  BY <1>a, <2>1, <2>2, GoneForgets
<1>3. CASE UserDelete /\ cr.fin
  <2>1. cr' = [cr EXCEPT !.deleting = TRUE] /\ cr.exists /\ ~cr.deleting
    BY <1>3 DEF UserDelete, Store, Stored
  <2>2. /\ cr'.exists = cr.exists /\ cr'.deleting /\ cr'.ready = cr.ready
        /\ cr'.spec = cr.spec
    BY <1>a, <2>1 DEF Resource
  <2>3. Tracked' <=> Tracked  BY <1>a, TrackedStays
  <2>4. At(cr)' = At(cr)  BY <1>a, <2>2 DEF At, Place
  <2>5. Thing' = Thing  BY <2>3, <2>4, ThingIs, ThingIsNext DEF ThingInv
  <2>6. Claim = "declared" /\ Claim' = "deleting" /\ Reported' = Reported
    BY <2>1, <2>2, <2>3 DEF Claim, Reported
  <2>7. LC!RequestDeletion  BY <2>5, <2>6 DEF LC!RequestDeletion, Reported
  <2> QED  BY <2>7 DEF LC!Next
<1> QED  BY <1>1, <1>2, <1>3

-----------------------------------------------------------------------------
(* The refinement.                                                         *)

\* A new resource has no service.
LEMMA InitLifecycle == Init => LC!Init
<1> SUFFICES ASSUME Init  PROVE LC!Init
  OBVIOUS
<1>1. cr.exists /\ ~cr.deleting /\ cr.ready = "none"  BY DEF Init
<1>2. Claim = "declared" /\ Reported = FALSE  BY <1>1 DEF Claim, Reported
<1>3. Thing \in {"none", "untracked"}  BY DEF Init, Thing
<1> QED  BY <1>2, <1>3 DEF LC!Init, Reported

\* Every step is one of the abstract resource, or is not seen.
LEMMA NextLifecycle == DInv /\ DInv' /\ [Next]_vars => [LC!Next]_(LC!vars)
<1> SUFFICES ASSUME DInv, DInv', [Next]_vars  PROVE [LC!Next]_(LC!vars)
  OBVIOUS
<1>a. UNCHANGED <<kind, ext>>  BY KindStays
<1>1. ASSUME NEW w \in Workers, Reconcile(w)  PROVE [LC!Next]_(LC!vars)
  <2>1. CASE StartReconcile(w) \/ ObserveAbsent(w) \/ ObserveService(w)
    <3>1. UNCHANGED <<cr, svc>>
      BY <2>1 DEF StartReconcile, ObserveAbsent, ObserveService, cloud
    <3> QED  BY <1>a, <3>1, UnseenCall
  <2>2. CASE AddFinalizer(w) \/ SetPending(w) \/ CriticalAnnotations(w)
    BY <2>2, UpdatesUnseen
  <2>3. CASE Update(w)  BY <2>3, ChangesUnseen
  <2> QED
    BY <1>1, <2>1, <2>2, <2>3, CreateProvisions, DeleteReleases, LastUpdates DEF Reconcile
<1>2. ASSUME NEW w \in Workers, CallFails(w) \/ Crash(w) \/ CacheSync(w)
      PROVE  [LC!Next]_(LC!vars)
  <2>1. UNCHANGED <<cr, svc>>  BY <1>2 DEF CallFails, Crash, CacheSync, cloud
  <2> QED  BY <1>a, <2>1, UnseenCall
<1>3. ASSUME NEW p \in Places, Provisioned(p) \/ Upgrade(p)  PROVE [LC!Next]_(LC!vars)
  BY <1>3, ChangesUnseen
<1>4. CASE UserEdit \/ UserDelete  BY <1>4, UserSteps
<1>5. CASE UNCHANGED vars
  <2>1. UNCHANGED <<cr, svc>>  BY <1>5 DEF vars, cloud
  <2> QED  BY <1>a, <2>1, UnseenCall
<1> QED  BY <1>1, <1>2, <1>3, <1>4, <1>5 DEF Next

\* A database resource keeps the promise of a resource, between operator processes
\* that die, retry and work on outdated copies: its service is made while it exists,
\* is taken away only in its deletion, and is gone before it is.
THEOREM DatabaseKeepsPromise == Spec => ImplementsLifecycle
<1>1. Spec => []DInv  BY DBaaSInvariance
<1> QED
  BY <1>1, InitLifecycle, NextLifecycle, PTL DEF Spec, ImplementsLifecycle, LC!Spec
=============================================================================
