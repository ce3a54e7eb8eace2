----------------------- MODULE IAMKeyLifecycleProofs ------------------------
(***************************************************************************)
(* An IAMKey keeps the promise of a resource: module IAMKey implements     *)
(* module Lifecycle, for any number of operator processes, keys, roles,    *)
(* faults and edits.  Every step of a worker or a user is a step of the    *)
(* abstract resource, or one that the abstract resource does not see.      *)
(***************************************************************************)
EXTENDS IAMKeyGrantProofs

\* The abstract variable ready of the mapping.
Reported == cr.exists /\ ~Legacy /\ cr.ready = "Available"

\* A key of an older release is one the status names and no annotation does.
LEMMA LegacyIDs ==
    ASSUME StoredInv
    PROVE  Legacy <=> cr.keySt # None /\ cr.keyAnn = None
BY DEF StoredInv, Legacy

\* No step turns a resource of an older release into a current one, or back.
LegacyStays == Legacy' <=> Legacy

\* Lifecycle sees of the stored resource its existence, its deletion and its
\* Ready condition, and of Exoscale whether a confirmed key is there.
LEMMA Unseen ==
    ASSUME LegacyStays,
           cr'.exists = cr.exists, cr'.deleting = cr.deleting,
           (cr'.ready = "Available") <=> (cr.ready = "Available"),
           blind' = blind, (issued' \cap keys' = {}) <=> (issued \cap keys = {})
    PROVE  UNCHANGED LC!vars
<1>1. Claim' = Claim  BY DEF Claim
<1>2. Thing' = Thing  BY DEF Thing, LegacyStays
<1>3. Reported' = Reported  BY DEF Reported, LegacyStays
<1> QED  BY <1>1, <1>2, <1>3 DEF LC!vars, Reported

\* The same for a step that stores nothing.
LEMMA UnseenCall ==
    ASSUME UNCHANGED <<cr, blind>>, (issued' \cap keys' = {}) <=> (issued \cap keys = {})
    PROVE  UNCHANGED LC!vars
<1>1. LegacyStays  BY DEF LegacyStays, Legacy
<1> QED  BY <1>1, Unseen

-----------------------------------------------------------------------------
(* Steps of a worker that store nothing.                                   *)

\* A key that is confirmed is the first one, and its resource exists.
LEMMA CreateKeyProvisions ==
    ASSUME IInv, NEW w \in Workers, CreateKey(w)
    PROVE  [LC!Next]_(LC!vars)
<1>a. TypeOK /\ CreationInv(w)  BY DEF IInv
<1>1. /\ pc[w] = "createKey" /\ UNCHANGED <<cr, blind>>
      /\ \E k \in Keys : keys' = keys \cup {k} /\ issued' = issued \cup {k}
  BY IssuedIDs DEF CreateKey
<1>2. cr.exists /\ cr.keySt = None /\ issued = {}
  BY <1>a, <1>1, IDsAssumption DEF CreationInv, InCreation, TypeOK
<1>3. ~Legacy /\ ~Legacy'  BY <1>1, <1>2 DEF Legacy
<1>4. Claim' = Claim /\ Claim # "gone"  BY <1>1, <1>2 DEF Claim
<1>5. Reported' = Reported  BY <1>1, <1>3 DEF Reported
<1>6. CASE blind
  <2>1. Thing' = Thing  BY <1>1, <1>6 DEF Thing
  <2> QED  BY <1>4, <1>5, <2>1 DEF LC!vars, Reported
<1>7. CASE ~blind
  <2>1. Thing = "none"  BY <1>2, <1>3, <1>7 DEF Thing
  <2>2. Thing' = "held"  BY <1>1, <1>3, <1>7 DEF Thing
  <2>3. LC!Provision  BY <1>4, <1>5, <2>1, <2>2 DEF LC!Provision, Reported
  <2> QED  BY <2>3 DEF LC!Next
<1> QED  BY <1>6, <1>7

\* A key goes, or is lost sight of, only while its resource is being deleted: a
\* resource that is gone has no confirmed key left that a late call could take.
LEMMA LossReleases ==
    ASSUME IInv, GrantInv, cr.deleting, UNCHANGED <<cr, issued>>,
           keys' \subseteq keys, blind => blind',
           blind' => blind \/ issued \cap keys # {}
    PROVE  [LC!Next]_(LC!vars)
<1>a. TypeOK /\ DeletedMeansReleased  BY DEF IInv, GrantInv
<1>1. Legacy' <=> Legacy  BY DEF Legacy
<1>2. Claim' = Claim /\ Reported' = Reported  BY <1>1 DEF Claim, Reported
<1>3. Thing' \in {"none", "held", "untracked"}  BY DEF Thing
<1>4. CASE Thing = "held"
  <2>1. cr.exists  BY <1>a, <1>4 DEF Thing, DeletedMeansReleased
  <2>2. Claim = "deleting"  BY <2>1 DEF Claim
  <2>3. CASE Thing' = "held"  BY <1>2, <1>4, <2>3 DEF LC!vars, Reported
  <2>4. CASE Thing' # "held"
    <3>1. LC!Release  BY <1>2, <1>3, <1>4, <2>2, <2>4 DEF LC!Release, Reported
    <3> QED  BY <3>1 DEF LC!Next
  <2> QED  BY <2>3, <2>4
<1>5. CASE Thing = "untracked"
  <2>1. Thing' = "untracked"  BY <1>1, <1>5 DEF Thing
  <2> QED  BY <1>2, <1>5, <2>1 DEF LC!vars, Reported
<1>6. CASE Thing = "none"
  <2>1. Thing' = "none"  BY <1>1, <1>6 DEF Thing
  <2> QED  BY <1>2, <1>6, <2>1 DEF LC!vars, Reported
<1> QED  BY <1>4, <1>5, <1>6 DEF Thing

\* Calls to Exoscale: a lost answer leaves a key that nobody confirmed; Delete and
\* a failed GetAPIKey are about a resource that is being deleted.
LEMMA CallsUnseen ==
    ASSUME IInv, GrantInv, NEW w \in Workers,
           \/ CreateKeyFails(w)
           \/ DeleteKey(w)
           \/ DeleteKeyFails(w)
           \/ ObserveKeyError(w)
    PROVE  [LC!Next]_(LC!vars)
<1>a. TypeOK /\ GrantStepInv(w) /\ mem[w] \in Resource  BY DEF IInv, GrantInv, TypeOK
<1>1. CASE CreateKeyFails(w)
  <2>1. /\ UNCHANGED <<cr, issued, blind>>
        /\ keys' = keys \/ \E k \in Keys \ issued : keys' = keys \cup {k}
    BY <1>1, IssuedIDs DEF CreateKeyFails
  <2>2. issued' \cap keys' = issued \cap keys  BY <2>1
  <2> QED  BY <2>1, <2>2, UnseenCall
<1>2. CASE DeleteKey(w) \/ DeleteKeyFails(w)
  <2>1. pc[w] = "deleteKey" /\ UNCHANGED <<cr, issued, blind>> /\ keys' \subseteq keys
    BY <1>2 DEF DeleteKey, DeleteKeyFails
  <2>2. cr.deleting  BY <1>a, <2>1 DEF GrantStepInv, Truthful
  <2> QED  BY <2>1, <2>2, LossReleases
<1>3. CASE ObserveKeyError(w)
  <2> DEFINE k == Resolved(mem[w]).keySt
  <2>1. pc[w] = "observe" /\ UNCHANGED <<cr, issued, keys>>
    BY <1>3 DEF ObserveKeyError
  <2>2. CASE blind' = blind  BY <2>1, <2>2, UnseenCall
  <2>3. CASE blind' # blind
    <3>1. k \in keys /\ blind' = (blind \/ mem[w].deleting)
      BY <1>3, <2>3 DEF ObserveKeyError
    <3>2. ~blind /\ mem[w].deleting /\ blind'
      BY <1>a, <2>3, <3>1 DEF TypeOK, Resource
    <3>3. k \in {mem[w].keySt, mem[w].keyAnn}  BY <1>a, ResolvedFields
    <3>4. Truthful(mem[w])  BY <1>a, <2>1 DEF GrantStepInv
    <3>5. k \in issued  BY <1>a, <3>1, <3>3, <3>4, IDsAssumption DEF Truthful, TypeOK
    <3>6. cr.deleting  BY <3>2, <3>4 DEF Truthful
    <3>7. issued \cap keys # {}  BY <3>1, <3>5
    <3> HIDE DEF k
    <3> QED  BY <2>1, <3>2, <3>6, <3>7, LossReleases
  <2> QED  BY <2>2, <2>3
<1> QED  BY <1>1, <1>2, <1>3

\* The steps between calls and those about the secret and the roles.
LEMMA QuietUnseen ==
    ASSUME NEW w \in Workers,
           \/ StartReconcile(w) \/ Connect(w) \/ ObserveAbsent(w) \/ ObserveKey(w)
           \/ CheckSecret(w) \/ Publish(w) \/ CreateNoop(w) \/ CreateRole(w)
           \/ CreateRoleFails(w) \/ CreateSecret(w) \/ CreateSecretFails(w)
           \/ CriticalAnnotationsFail(w) \/ PublishCreated(w) \/ UpdateRole(w)
           \/ DeleteRole(w) \/ CallFails(w) \/ Crash(w) \/ CacheSync(w)
    PROVE  UNCHANGED LC!vars
<1>1. UNCHANGED <<cr, blind, issued, keys>>
  BY Zenon DEF StartReconcile, Connect, ObserveAbsent, ObserveKey, CheckSecret, Publish,
     CreateNoop, CreateRole, CreateRoleFails, CreateSecret, CreateSecretFails,
     CriticalAnnotationsFail, PublishCreated, UpdateRole, DeleteRole, CallFails, Crash,
     CacheSync, cloud
<1> QED  BY <1>1, UnseenCall

-----------------------------------------------------------------------------
(* Steps that store a version of the resource.                             *)

\* An Update of the finalizer or of an annotation changes nothing that is seen: a
\* resource whose key ID is only in the status keeps it there, and every other
\* one has no key ID in the status yet.
LEMMA UpdateUnseen ==
    ASSUME IInv, StoredInv', cr \in Resource, NEW m \in Resource,
           cr' = Merged(m), UNCHANGED cloud,
           cr.keySt = None \/ (cr.keyAnn = None <=> m.keyAnn = None)
    PROVE  UNCHANGED LC!vars
<1>1. /\ cr'.exists = cr.exists /\ cr'.deleting = cr.deleting /\ cr'.ready = cr.ready
      /\ cr'.keySt = cr.keySt /\ cr'.keyAnn = m.keyAnn
  BY MergedFields, MergedRest
<1>2. Legacy <=> cr.keySt # None /\ cr.keyAnn = None  BY LegacyIDs DEF IInv
<1>3. Legacy' <=> cr'.keySt # None /\ cr'.keyAnn = None  BY DEF StoredInv, Legacy
<1>4. LegacyStays  BY <1>1, <1>2, <1>3 DEF LegacyStays
<1> QED  BY <1>1, <1>4, Unseen DEF cloud

\* The updates of a reconcile are such updates.
LEMMA UpdatesUnseen ==
    ASSUME IInv, IInv', NEW w \in Workers,
           AddFinalizer(w) \/ SetPending(w) \/ CriticalAnnotations(w)
    PROVE  UNCHANGED LC!vars
<1>a. /\ TypeOK /\ StoredInv /\ StoredInv' /\ FreshInv(w) /\ StepInv(w)
      /\ CreationInv(w) /\ mem[w] \in Resource /\ cr \in Resource
  BY DEF IInv, TypeOK
<1>b. UNCHANGED <<cloud>>  BY DEF AddFinalizer, SetPending, CriticalAnnotations
<1>c. CASE UNCHANGED cr  BY <1>b, <1>c, UnseenCall DEF cloud
<1>1. CASE AddFinalizer(w)
  <2> DEFINE m == [mem[w] EXCEPT !.fin = TRUE]
  <2>1. CASE fresh[w] /\ ~mem[w].fin
    <3>1. cr' = Merged(m)  BY <1>1, <2>1 DEF AddFinalizer, UpdateResource, Store
    <3>2. m \in Resource  BY <1>a DEF Resource
    <3>3. pc[w] = "finalizer"  BY <1>1 DEF AddFinalizer
    <3>4. cr.keySt = None  BY <1>a, <2>1, <3>3 DEF FreshInv, StoredInv
    <3> HIDE DEF m
    <3> QED  BY <1>a, <1>b, <3>1, <3>2, <3>4, UpdateUnseen
  <2>2. CASE ~(fresh[w] /\ ~mem[w].fin)
    BY <1>1, <1>c, <2>2 DEF AddFinalizer, UpdateResource
  <2> QED  BY <2>1, <2>2
<1>2. CASE SetPending(w)
  <2> DEFINE m == [mem[w] EXCEPT !.create = "pending"]
  <2>1. CASE fresh[w]
    <3>1. cr' = Merged(m)  BY <1>2, <2>1 DEF SetPending, UpdateResource, Store
    <3>2. m \in Resource /\ m.keyAnn = mem[w].keyAnn  BY <1>a DEF Resource
    <3>3. pc[w] = "pending"  BY <1>2 DEF SetPending
    <3>4. cr.keyAnn = None /\ mem[w].keyAnn = None
      BY <1>a, <2>1, <3>3 DEF FreshInv, StepInv, BeforePending
    <3> HIDE DEF m
    <3> QED  BY <1>a, <1>b, <3>1, <3>2, <3>4, UpdateUnseen
  <2>2. CASE ~fresh[w]
    BY <1>2, <1>c, <2>2 DEF SetPending, UpdateResource
  <2> QED  BY <2>1, <2>2
<1>3. CASE CriticalAnnotations(w)
  <2> DEFINE m == [mem[w] EXCEPT !.fin = cr.fin]
  <2>1. cr' = Merged(m) /\ pc[w] = "critical"
    BY <1>3 DEF CriticalAnnotations, Store
  <2>2. m \in Resource /\ m.keyAnn = mem[w].keyAnn  BY <1>a DEF Resource
  <2>3. cr.keyAnn = None /\ (mem[w].keyAnn # None => cr.keySt = None)
    BY <1>a, <2>1 DEF CreationInv, InCreation
  <2> HIDE DEF m
  <2> QED  BY <1>a, <1>b, <2>1, <2>2, <2>3, UpdateUnseen
<1> QED  BY <1>1, <1>2, <1>3

\* A resource that goes has no confirmed key, which is what the second invariant
\* says of the state after the step.
LEMMA GoneForgets ==
    ASSUME GrantInv', cr \in Resource, UNCHANGED cloud, cr.exists, ~cr'.exists,
           cr'.keySt = cr.keySt, cr'.roleSt = cr.roleSt, cr'.roleAnn = cr.roleAnn
    PROVE  [LC!Next]_(LC!vars)
<1>1. Legacy' <=> Legacy  BY DEF Legacy
<1>2. Thing' = Thing /\ Thing # "held"
  BY <1>1 DEF Thing, GrantInv, DeletedMeansReleased, cloud
<1>3. Claim # "gone" /\ Claim' = "gone" /\ Reported' = FALSE  BY DEF Claim, Reported
<1>4. LC!Forget  BY <1>2, <1>3 DEF LC!Forget, Reported
<1> QED  BY <1>4 DEF LC!Next

\* The finalizer is removed, or the update is refused.
LEMMA RemoveFinalizerForgets ==
    ASSUME IInv, GrantInv', NEW w \in Workers, RemoveFinalizer(w)
    PROVE  [LC!Next]_(LC!vars)
<1>a. TypeOK /\ FreshInv(w) /\ cr \in Resource /\ pc[w] = "removeFinalizer"
      /\ UNCHANGED cloud
  BY DEF IInv, TypeOK, RemoveFinalizer
<1>1. CASE fresh[w]
  <2>1. cr' = [cr EXCEPT !.exists = FALSE, !.fin = FALSE]
    BY <1>1 DEF RemoveFinalizer
  <2>2. /\ ~cr'.exists /\ cr'.keySt = cr.keySt /\ cr'.roleSt = cr.roleSt
        /\ cr'.roleAnn = cr.roleAnn
    BY <1>a, <2>1 DEF Resource
  <2>3. cr.exists  BY <1>a, <1>1 DEF FreshInv
  <2> QED  BY <1>a, <2>2, <2>3, GoneForgets
<1>2. CASE ~fresh[w]
  <2>1. UNCHANGED <<cr, blind, issued, keys>>
    BY <1>a, <1>2 DEF RemoveFinalizer, cloud
  <2> QED  BY <2>1, UnseenCall
<1> QED  BY <1>1, <1>2

\* A status that calls a resource Available is stored with a key that is there,
\* unless the resource is being deleted.
LEMMA WriteStatusReports ==
    ASSUME IInv, IInv', GrantInv, GrantInv', NEW w \in Workers, WriteStatus(w)
    PROVE  [LC!Next]_(LC!vars)
<1>a. /\ TypeOK /\ StoredInv /\ FreshInv(w) /\ cr \in Resource /\ mem[w] \in Resource
      /\ StoredInv' /\ cr' \in Resource /\ pc[w] = "status" /\ UNCHANGED cloud
  BY DEF IInv, TypeOK, WriteStatus
<1>1. CASE fresh[w]
  <2>1. cr' = MergedStatus(mem[w])  BY <1>1 DEF WriteStatus, Store
  <2>2. /\ cr'.exists = cr.exists /\ cr'.deleting = cr.deleting
        /\ cr'.keyAnn = cr.keyAnn /\ cr'.keySt = mem[w].keySt
    BY <1>a, <2>1, MergedFields, MergedRest
  <2>3. SameIDs(mem[w])  BY <1>a, <1>1 DEF FreshInv
  <2>4. Legacy <=> cr.keySt # None /\ cr.keyAnn = None  BY <1>a, LegacyIDs
  <2>5. Legacy' <=> cr'.keySt # None /\ cr'.keyAnn = None
    BY <1>a DEF StoredInv, Legacy
  <2>6. Legacy' <=> Legacy  BY <2>2, <2>3, <2>4, <2>5 DEF SameIDs
  <2>7. Claim' = Claim  BY <2>2 DEF Claim
  <2>8. Thing' = Thing  BY <1>a, <2>6 DEF Thing, cloud
  <2>9. CASE ~Reported'
    <3>1. Reported' = FALSE  BY <2>9 DEF Reported
    <3>2. LC!Withdraw  BY <2>7, <2>8, <3>1 DEF LC!Withdraw, Reported
    <3> QED  BY <3>2 DEF LC!Next
  <2>10. CASE Reported'
    <3>1. Reported' = TRUE  BY <2>10 DEF Reported
    <3>2. Claim # "gone"  BY <2>2, <2>10 DEF Claim, Reported
    <3>3. ASSUME Claim = "declared"  PROVE Thing = "held"
      <4>1. ~cr'.deleting /\ cr'.exists  BY <2>2, <3>3 DEF Claim
      <4>2. issued' \subseteq keys' /\ ~blind'  BY <4>1 DEF GrantInv
      <4>3. cr'.keySt # None /\ cr'.keySt \in issued' \cup {None}
        BY <2>10 DEF GrantInv, Truthful, Reported
      <4>4. ~Legacy'  BY <2>10 DEF Reported
      <4>5. Thing' = "held"  BY <4>2, <4>3, <4>4 DEF Thing
      <4> QED  BY <2>8, <4>5
    <3>4. LC!Report  BY <2>7, <2>8, <3>1, <3>2, <3>3 DEF LC!Report, Reported
    <3> QED  BY <3>4 DEF LC!Next
  <2> QED  BY <2>9, <2>10
<1>2. CASE ~fresh[w]
  <2>1. UNCHANGED <<cr, blind, issued, keys>>
    BY <1>a, <1>2 DEF WriteStatus, cloud
  <2> QED  BY <2>1, UnseenCall
<1> QED  BY <1>1, <1>2

\* A user asks for the deletion, which ends at once a resource without a
\* finalizer; edits are not seen.
LEMMA UserSteps ==
    ASSUME IInv, GrantInv', UserDelete \/ UserEdit \/ UserSecret
    PROVE  [LC!Next]_(LC!vars)
<1>a. cr \in Resource /\ UNCHANGED cloud
  BY DEF IInv, TypeOK, UserDelete, UserEdit, UserSecret, StoreByUser
<1>1. CASE UserDelete /\ cr.fin
  <2>1. cr' = [cr EXCEPT !.deleting = TRUE] /\ cr.exists /\ ~cr.deleting
    BY <1>1 DEF UserDelete, StoreByUser
  <2>2. /\ cr'.exists /\ cr'.deleting /\ cr'.ready = cr.ready /\ cr'.keySt = cr.keySt
        /\ cr'.roleSt = cr.roleSt /\ cr'.roleAnn = cr.roleAnn
    BY <1>a, <2>1 DEF Resource
  <2>3. Legacy' <=> Legacy  BY <2>2 DEF Legacy
  <2>4. Claim = "declared" /\ Claim' = "deleting"  BY <2>1, <2>2 DEF Claim
  <2>5. Thing' = Thing /\ Reported' = Reported
    BY <1>a, <2>1, <2>2, <2>3 DEF Thing, Reported, cloud
  <2>6. LC!RequestDeletion  BY <2>4, <2>5 DEF LC!RequestDeletion, Reported
  <2> QED  BY <2>6 DEF LC!Next
<1>2. CASE UserDelete /\ ~cr.fin
  <2>1. cr' = [cr EXCEPT !.exists = FALSE] /\ cr.exists
    BY <1>2 DEF UserDelete, StoreByUser
  <2>2. /\ ~cr'.exists /\ cr'.keySt = cr.keySt
        /\ cr'.roleSt = cr.roleSt /\ cr'.roleAnn = cr.roleAnn
    BY <1>a, <2>1 DEF Resource
  <2> QED  BY <1>a, <2>1, <2>2, GoneForgets
<1>3. CASE UserEdit
  <2>1. PICK b \in BucketLists : cr' = [cr EXCEPT !.buckets = b]
    BY <1>3 DEF UserEdit, StoreByUser
  <2>2. /\ cr'.exists = cr.exists /\ cr'.deleting = cr.deleting /\ cr'.ready = cr.ready
        /\ cr'.keySt = cr.keySt /\ cr'.roleSt = cr.roleSt /\ cr'.roleAnn = cr.roleAnn
    BY <1>a, <2>1 DEF Resource
  <2>3. LegacyStays  BY <2>2 DEF LegacyStays, Legacy
  <2> QED  BY <1>a, <2>2, <2>3, Unseen DEF cloud
<1>4. CASE UserSecret
  <2>1. UNCHANGED <<cr, blind, issued, keys>>  BY <1>a, <1>4 DEF UserSecret, cloud
  <2> QED  BY <2>1, UnseenCall
<1> QED  BY <1>1, <1>2, <1>3, <1>4

-----------------------------------------------------------------------------
(* The refinement.                                                         *)

\* A new resource has nothing; a resource of an older release is not tracked.
LEMMA InitLifecycle == Init => LC!Init
<1> SUFFICES ASSUME Init PROVE LC!Init
  OBVIOUS
<1>1. CASE InitNew
  <2>1. cr.exists /\ ~cr.deleting /\ cr.ready = "none" /\ cr.keySt = None /\ issued = {}
    BY <1>1 DEF InitNew, NewResource
  <2> QED  BY <2>1 DEF Init, LC!Init, Claim, Thing, Legacy
<1>2. CASE InitLegacy
  <2>1. PICK b \in BucketLists, k \in Keys : cr = LegacyResource(b, k)
    <3>1. Keys \in (SUBSET Keys) \cup (SUBSET Roles)  OBVIOUS
    <3>2. Issue(Keys) \subseteq Keys  BY <3>1, IssueAssumption, Zenon
    <3> QED  BY <1>2, <3>2 DEF InitLegacy
  <2>2. cr = [exists |-> TRUE, deleting |-> FALSE, fin |-> TRUE,
              create |-> "succeeded", keyAnn |-> None, roleAnn |-> None,
              keySt |-> k, roleSt |-> None, ready |-> "Available",
              buckets |-> b, stBuckets |-> b]
    BY <2>1 DEF LegacyResource, NewResource
  <2>3. cr.exists /\ ~cr.deleting /\ Legacy  BY <2>2, IDsAssumption DEF Legacy
  <2> QED  BY <2>3 DEF LC!Init, Claim, Thing
<1> QED  BY <1>1, <1>2 DEF Init

\* Every step is one of the abstract resource, or is not seen.
LEMMA NextLifecycle ==
    ASSUME IInv, IInv', GrantInv, GrantInv', [Next]_vars
    PROVE  [LC!Next]_(LC!vars)
<1>1. ASSUME NEW w \in Workers, Reconcile(w) \/ Crash(w) \/ CacheSync(w)
      PROVE  [LC!Next]_(LC!vars)
  BY <1>1, QuietUnseen, CallsUnseen, CreateKeyProvisions, UpdatesUnseen,
     RemoveFinalizerForgets, WriteStatusReports DEF Reconcile
<1>2. CASE UserDelete \/ UserEdit \/ UserSecret  BY <1>2, UserSteps
<1>3. CASE UNCHANGED vars
  <2>1. UNCHANGED <<cr, blind, issued, keys>>  BY <1>3 DEF vars, cloud
  <2> QED  BY <2>1, UnseenCall
<1> QED  BY <1>1, <1>2, <1>3 DEF Next

\* An IAMKey keeps the promise of a resource, whoever works on it: its key is made
\* while it exists, is taken away or lost sight of only in its deletion, and is
\* gone before the resource is.
THEOREM KeepsPromise == Spec => ImplementsLifecycle
<1>1. Init => LC!Init  BY InitLifecycle
<1>2. IInv /\ IInv' /\ GrantInv /\ GrantInv' /\ [Next]_vars => [LC!Next]_(LC!vars)
  BY NextLifecycle
<1> QED  BY <1>1, <1>2, Invariance, GrantInvariance, PTL
         DEF Spec, ImplementsLifecycle, LC!Spec
=============================================================================
