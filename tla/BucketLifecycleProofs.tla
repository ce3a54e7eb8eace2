----------------------- MODULE BucketLifecycleProofs ------------------------
(***************************************************************************)
(* A Bucket keeps the promise of a resource: module Bucket implements      *)
(* module Lifecycle, for any number of operator processes, resources,      *)
(* names, faults and edits.  The promise about the bucket itself is one    *)
(* of a resource whose name stays and that has its name for itself.        *)
(***************************************************************************)
EXTENDS BucketProofs

\* The abstract variable ready of the mapping.
Reported == cr[Some].exists /\ Tracked /\ cr[Some].ready = "Available"

\* Whether the promise is about the bucket is decided once and for all.
LEMMA TrackedStays == Tracked' <=> Tracked
BY DEF Tracked, Some

\* A tracked resource is the only one, under one name, and the only maker.
LEMMA OnlyOne ==
    ASSUME BInv, Tracked
    PROVE  /\ Resources = {Some} /\ renames = 0
           /\ \A n \in Names : Exists(n) <=> maker[n] = Some
           /\ Owned(Some) = {n \in Names : Exists(n)}
<1>a. TypeOK  BY DEF BInv
<1>1. Resources = {Some} /\ renames = 0  BY <1>a DEF Tracked, TypeOK
<1>2. \A n \in Names : Exists(n) <=> maker[n] = Some
  BY <1>a, <1>1, NamesAssumption DEF Exists, TypeOK
<1> QED  BY <1>1, <1>2 DEF Owned

\* ... and stays it.
LEMMA OnlyOneStays ==
    ASSUME TypeOK', Tracked
    PROVE  Owned(Some)' = {n \in Names : Exists(n)'}
<1>1. Resources = {Some} /\ renames' = 0 /\ Tracked'  BY TrackedStays DEF Tracked, TypeOK
<1>2. \A n \in Names : Exists(n)' <=> maker'[n] = Some
  BY <1>1, NamesAssumption DEF Exists, TypeOK
<1> QED  BY <1>1, <1>2 DEF Owned

\* Lifecycle sees of the stored resource its existence, its deletion and its
\* Ready condition, and of the object storage whether the bucket is there.
LEMMA Unseen ==
    ASSUME BInv, BInv', Tracked => \A n \in Names : Exists(n)' <=> Exists(n),
           cr'[Some].exists = cr[Some].exists, cr'[Some].deleting = cr[Some].deleting,
           (cr'[Some].ready = "Available") <=> (cr[Some].ready = "Available")
    PROVE  UNCHANGED LC!vars
<1>1. Claim' = Claim  BY DEF Claim, Some
<1>2. Thing' = Thing
  <2>1. CASE ~Tracked  BY <2>1, TrackedStays DEF Thing
  <2>2. CASE Tracked
    <3>1. Owned(Some) = {n \in Names : Exists(n)}  BY <2>2, OnlyOne
    <3>2. Owned(Some)' = {n \in Names : Exists(n)'}  BY <2>2, OnlyOneStays DEF BInv
    <3>3. (Owned(Some) # {}) <=> (Owned(Some)' # {})  BY <2>2, <3>1, <3>2
    <3> QED  BY <2>2, <3>3, TrackedStays DEF Thing
  <2> QED  BY <2>1, <2>2
<1>3. Reported' = Reported  BY TrackedStays DEF Reported, Some
<1> QED  BY <1>1, <1>2, <1>3 DEF LC!vars, Reported

\* The same for a step that stores no resource.
LEMMA UnseenCall ==
    ASSUME BInv, BInv', UNCHANGED <<cr, maker>>
    PROVE  UNCHANGED LC!vars
<1>1. \A n \in Names : Exists(n)' <=> Exists(n)  BY DEF Exists
<1> QED  BY <1>1, Unseen

-----------------------------------------------------------------------------
(* Steps that make and remove buckets.                                     *)

\* A bucket is made for a resource that exists and has none.
LEMMA MakeProvisions ==
    ASSUME BInv, BInv', Some \in Resources, NEW w \in Workers, MakeBucket(w)
    PROVE  [LC!Next]_(LC!vars)
<1>a. TypeOK /\ StepInv(w) /\ CreationInv(w) /\ StoreInv  BY DEF BInv
<1>b. pc[w] = "create" /\ UNCHANGED cr  BY DEF MakeBucket
<1>c. /\ job[w] \in Resources /\ mem[w].name \in Names /\ Version(job[w], mem[w])
      /\ cr[job[w]].exists
  <2>1. job[w] \in Resources /\ mem[w] \in Resource  BY <1>a, <1>b, Working
  <2> QED  BY <1>a, <1>b, <2>1 DEF StepInv, Resource, CreationInv, InCreation
<1>1. CASE UNCHANGED maker  BY <1>b, <1>1, UnseenCall
<1>2. CASE ~Tracked
  BY <1>b, <1>2, Unseen
<1>3. CASE Tracked /\ ~UNCHANGED maker
  <2>1. ~Exists(mem[w].name) /\ maker' = [maker EXCEPT ![mem[w].name] = job[w]]
    BY <1>3 DEF MakeBucket, Made, store
  <2>2. /\ Resources = {Some} /\ renames = 0 /\ job[w] = Some
        /\ \A n \in Names : Exists(n) <=> maker[n] = Some
        /\ Owned(Some) = {n \in Names : Exists(n)}
    BY <1>3, <1>c, OnlyOne
  <2>3. Owned(Some)' = {n \in Names : Exists(n)'}  BY <1>3, OnlyOneStays DEF BInv
  <2>4. Owned(Some) = {}
    <3>1. mem[w].name = cr[Some].name  BY <1>c, <2>2 DEF Version
    <3>2. \A n \in Names : Exists(n) => n = cr[Some].name  BY <1>a, <2>2 DEF StoreInv
    <3> QED  BY <2>1, <2>2, <3>1, <3>2
  <2>5. Owned(Some)' # {}
    <3>1. maker'[mem[w].name] # None  BY <1>a, <1>c, <2>1, NamesAssumption DEF TypeOK
    <3> QED  BY <1>c, <2>3, <3>1 DEF Exists
  <2>6. Claim' = Claim /\ Claim # "gone" /\ Reported' = Reported
    BY <1>b, <1>c, <2>2, TrackedStays DEF Claim, Reported, Some
  <2>7. Thing = "none" /\ Thing' = "held"
    BY <1>3, <2>4, <2>5, TrackedStays DEF Thing
  <2>8. LC!Provision  BY <2>6, <2>7 DEF LC!Provision, Reported
  <2> QED  BY <2>8 DEF LC!Next
<1> QED  BY <1>1, <1>2, <1>3

\* A bucket goes while its resource is being deleted, and before it is gone.
LEMMA RemoveReleases ==
    ASSUME BInv, BInv', Some \in Resources, NEW w \in Workers, RemoveBucket(w)
    PROVE  [LC!Next]_(LC!vars)
<1>a. TypeOK /\ StepInv(w) /\ StoreInv  BY DEF BInv
<1>b. pc[w] = "removeBucket" /\ UNCHANGED cr  BY DEF RemoveBucket
<1>c. job[w] \in Resources /\ cr[job[w]].deleting
  BY <1>a, <1>b, Working DEF StepInv, PlaceInv, Version
<1>1. CASE UNCHANGED maker  BY <1>b, <1>1, UnseenCall
<1>2. CASE ~Tracked
  BY <1>b, <1>2, Unseen
<1>3. CASE Tracked /\ ~UNCHANGED maker
  <2>1. Removed(mem[w].stName)  BY <1>3 DEF RemoveBucket
  <2>2. PICK n \in Names : Exists(n) /\ maker' = [maker EXCEPT ![n] = None]
    <3>1. mem[w] \in Resource /\ mem[w].stName # None
      BY <1>a, <1>b, Working DEF StepInv, PlaceInv
    <3>2. mem[w].stName \in Names  BY <3>1 DEF Resource
    <3> QED  BY <2>1, <3>2 DEF Removed
  <2>3. /\ Resources = {Some} /\ renames = 0 /\ job[w] = Some
        /\ \A m \in Names : Exists(m) <=> maker[m] = Some
        /\ Owned(Some) = {m \in Names : Exists(m)}
    BY <1>3, <1>c, OnlyOne
  <2>4. Owned(Some)' = {m \in Names : Exists(m)'}  BY <1>3, OnlyOneStays DEF BInv
  <2>5. \A m \in Names : Exists(m) => m = cr[Some].name  BY <1>a, <2>3 DEF StoreInv
  <2>6. Owned(Some) # {} /\ Owned(Some)' = {}
    <3>1. \A m \in Names : maker'[m] = None
      BY <1>a, <2>2, <2>5 DEF Exists, TypeOK
    <3> QED  BY <2>2, <2>3, <2>4, <3>1 DEF Exists
  <2>7. cr[Some].exists  BY <2>6 DEF BInv, StoredInv, Nothing
  <2>8. Claim' = Claim /\ Claim = "deleting" /\ Reported' = Reported
    BY <1>b, <1>c, <2>3, <2>7, TrackedStays DEF Claim, Reported, Some
  <2>9. Thing = "held" /\ Thing' = "none"
    BY <1>3, <2>6, TrackedStays DEF Thing
  <2>10. LC!Release  BY <2>8, <2>9 DEF LC!Release, Reported
  <2> QED  BY <2>10 DEF LC!Next
<1> QED  BY <1>1, <1>2, <1>3

-----------------------------------------------------------------------------
(* Steps that store a resource.                                            *)

\* What is stored does not change what Lifecycle sees.
LEMMA UnseenStored ==
    ASSUME BInv, BInv', Some \in Resources, UNCHANGED maker,
           NEW r \in Resources, NEW new \in Resource, Stored(r, new),
           new.exists = cr[r].exists, new.deleting = cr[r].deleting,
           new.ready = cr[r].ready
    PROVE  UNCHANGED LC!vars
<1>1. cr'[r] = new /\ \A s \in Resources \ {r} : cr'[s] = cr[s]
  BY StoredTyping DEF BInv
<1>2. /\ cr'[Some].exists = cr[Some].exists /\ cr'[Some].deleting = cr[Some].deleting
      /\ cr'[Some].ready = cr[Some].ready
  BY <1>1
<1>3. \A n \in Names : Exists(n)' <=> Exists(n)  BY DEF Exists
<1> QED  BY <1>2, <1>3, Unseen

\* Update stores metadata.
LEMMA UpdatesUnseen ==
    ASSUME BInv, BInv', Some \in Resources, NEW w \in Workers,
           AddFinalizer(w) \/ SetPending(w) \/ CriticalAnnotations(w)
    PROVE  UNCHANGED LC!vars
<1>a. TypeOK /\ StepInv(w) /\ UNCHANGED maker /\ pc[w] # "idle"
  BY DEF BInv, AddFinalizer, SetPending, CriticalAnnotations, store
<1>b. job[w] \in Resources /\ mem[w] \in Resource /\ cr[job[w]] \in Resource
  BY <1>a, Working
<1>1. ASSUME NEW m \in Resource, Stored(job[w], Merged(job[w], m))
      PROVE  UNCHANGED LC!vars
  <2>1. /\ Merged(job[w], m) \in Resource
        /\ Merged(job[w], m).exists = cr[job[w]].exists
        /\ Merged(job[w], m).deleting = cr[job[w]].deleting
        /\ Merged(job[w], m).ready = cr[job[w]].ready
    BY <1>b, MergedFields
  <2> QED  BY <1>1, <1>a, <1>b, <2>1, UnseenStored
<1>2. ASSUME NEW m \in Resource, NEW next, UpdateResource(w, m, next)
      PROVE  UNCHANGED LC!vars
  BY <1>1, <1>2, <1>a, UnseenCall DEF UpdateResource, Store
<1>3. CASE AddFinalizer(w)
  <2>1. \/ UpdateResource(w, [mem[w] EXCEPT !.fin = TRUE], "finalizer")
        \/ UNCHANGED cr
    BY <1>3 DEF AddFinalizer
  <2> QED  BY <1>2, <1>a, <1>b, <2>1, CopyTyping, UnseenCall
<1>4. CASE SetPending(w)
  <2>1. UpdateResource(w, [mem[w] EXCEPT !.create = "pending"], "create")
    BY <1>4 DEF SetPending
  <2> QED  BY <1>2, <1>b, <2>1, CopyTyping
<1>5. CASE CriticalAnnotations(w)
  <2>1. [mem[w] EXCEPT !.fin = cr[job[w]].fin] \in Resource  BY <1>b DEF Resource
  <2>2. Stored(job[w], Merged(job[w], [mem[w] EXCEPT !.fin = cr[job[w]].fin]))
    BY <1>5 DEF CriticalAnnotations, Store
  <2> QED  BY <1>1, <2>1, <2>2
<1> QED  BY <1>3, <1>4, <1>5

\* A resource that goes leaves no bucket.
LEMMA GoneForgets ==
    ASSUME BInv, BInv', Some \in Resources, UNCHANGED maker,
           cr[Some].exists, ~cr'[Some].exists
    PROVE  [LC!Next]_(LC!vars)
<1>1. Thing # "held" /\ Thing' = Thing
  <2>1. CASE ~Tracked  BY <2>1, TrackedStays DEF Thing
  <2>2. CASE Tracked
    <3>1. StoredInv(Some)'  BY DEF BInv, Some
    <3>2. Owned(Some)' = {}  BY <3>1 DEF StoredInv, Nothing, Some
    <3>3. Owned(Some)' = {n \in Names : Exists(n)'}  BY <2>2, OnlyOneStays DEF BInv
    <3>4. Owned(Some) = {n \in Names : Exists(n)}  BY <2>2, OnlyOne
    <3>5. Owned(Some) = {}  BY <3>2, <3>3, <3>4 DEF Exists
    <3> QED  BY <2>2, <3>2, <3>5, TrackedStays DEF Thing
  <2> QED  BY <2>1, <2>2
<1>2. Claim # "gone" /\ Claim' = "gone"  BY DEF Claim, Some
<1>3. Reported' = FALSE  BY DEF Reported, Some
<1>4. LC!Forget  BY <1>1, <1>2, <1>3 DEF LC!Forget, Reported
<1> QED  BY <1>4 DEF LC!Next

\* The finalizer goes with the resource.
LEMMA RemoveFinalizerForgets ==
    ASSUME BInv, BInv', Some \in Resources, NEW w \in Workers, RemoveFinalizer(w)
    PROVE  [LC!Next]_(LC!vars)
<1>a. TypeOK /\ StepInv(w) /\ FreshInv(w) /\ UNCHANGED maker /\ pc[w] = "removeFinalizer"
  BY DEF BInv, RemoveFinalizer, store
<1>b. job[w] \in Resources /\ cr[job[w]] \in Resource  BY <1>a, Working
<1>1. CASE ~fresh[w]
  <2>1. UNCHANGED cr  BY <1>1 DEF RemoveFinalizer
  <2> QED  BY <1>a, <2>1, UnseenCall
<1>2. CASE fresh[w]
  <2> DEFINE new == [cr[job[w]] EXCEPT !.exists = FALSE, !.fin = FALSE]
  <2>1. Stored(job[w], new)  BY <1>2 DEF RemoveFinalizer
  <2>2. new \in Resource /\ ~new.exists  BY <1>b DEF Resource
  <2> HIDE DEF new
  <2>3. cr'[job[w]] = new /\ \A s \in Resources \ {job[w]} : cr'[s] = cr[s]
    BY <1>a, <1>b, <2>1, <2>2, StoredTyping
  <2>4. CASE job[w] = Some
    <3>1. cr[Some].exists /\ ~cr'[Some].exists
      BY <1>a, <1>2, <2>2, <2>3, <2>4 DEF FreshInv
    <3> QED  BY <1>a, <3>1, GoneForgets
  <2>5. CASE job[w] # Some
    <3>1. cr'[Some] = cr[Some]  BY <2>3, <2>5
    <3>2. \A n \in Names : Exists(n)' <=> Exists(n)  BY <1>a DEF Exists
    <3> QED  BY <3>1, <3>2, Unseen
  <2> QED  BY <2>4, <2>5
<1> QED  BY <1>1, <1>2

\* Ready is stored only of a resource that exists, and while it is not being deleted
\* only when its bucket does.
LEMMA WriteStatusReports ==
    ASSUME BInv, BInv', Some \in Resources, NEW w \in Workers, WriteStatus(w)
    PROVE  [LC!Next]_(LC!vars)
<1>a. TypeOK /\ StepInv(w) /\ FreshInv(w) /\ UNCHANGED maker /\ pc[w] = "status"
  BY DEF BInv, WriteStatus, store
<1>b. job[w] \in Resources /\ cr[job[w]] \in Resource /\ mem[w] \in Resource
  BY <1>a, Working
<1>e. \A n \in Names : Exists(n)' <=> Exists(n)  BY <1>a DEF Exists
<1>1. CASE ~fresh[w]
  <2>1. Stored(job[w], cr[job[w]])  BY <1>1 DEF WriteStatus
  <2> QED  BY <1>a, <1>b, <2>1, UnseenStored
<1>2. CASE fresh[w]
  <2> DEFINE new == MergedStatus(job[w], mem[w])
  <2>1. Stored(job[w], new)  BY <1>2 DEF WriteStatus
  <2>2. /\ new \in Resource /\ new.exists = cr[job[w]].exists
        /\ new.deleting = cr[job[w]].deleting /\ new.ready = mem[w].ready
        /\ new.name = cr[job[w]].name
    BY <1>b, MergedFields
  <2> HIDE DEF new
  <2>3. cr'[job[w]] = new /\ \A s \in Resources \ {job[w]} : cr'[s] = cr[s]
    BY <1>a, <1>b, <2>1, <2>2, StoredTyping
  <2>4. CASE job[w] # Some
    <3>1. cr'[Some] = cr[Some]  BY <2>3, <2>4
    <3> QED  BY <1>e, <3>1, Unseen
  <2>5. CASE job[w] = Some
    <3>a. /\ cr[Some].exists /\ mem[w].name = cr[Some].name /\ mem[w].name \in Names
          /\ mem[w].deleting = cr[Some].deleting /\ Version(Some, mem[w])
      <4>1. mem[w].name \in Names  BY <1>b DEF Resource
      <4> QED  BY <1>a, <1>2, <2>5, <4>1 DEF FreshInv, StepInv
    <3>b. /\ cr'[Some].exists = cr[Some].exists /\ cr'[Some].deleting = cr[Some].deleting
          /\ cr'[Some].ready = mem[w].ready
      BY <2>2, <2>3, <2>5
    <3>1. Claim' = Claim /\ Claim # "gone"  BY <3>a, <3>b DEF Claim, Some
    <3>2. Thing' = Thing
      <4>1. CASE ~Tracked  BY <4>1, TrackedStays DEF Thing
      <4>2. CASE Tracked
        <5>1. Owned(Some) = {n \in Names : Exists(n)}  BY <4>2, OnlyOne
        <5>2. Owned(Some)' = {n \in Names : Exists(n)'}
          BY <4>2, OnlyOneStays DEF BInv
        <5> QED  BY <1>e, <4>2, <5>1, <5>2, TrackedStays DEF Thing
      <4> QED  BY <4>1, <4>2
    <3>3. CASE ~Reported'
      <4>1. LC!Withdraw  BY <3>1, <3>2, <3>3 DEF LC!Withdraw, Reported
      <4> QED  BY <4>1 DEF LC!Next
    <3>4. CASE Reported'
      <4>1. Tracked /\ mem[w].ready = "Available"
        BY <3>4, <3>b, TrackedStays DEF Reported, Some
      <4>2. ASSUME Claim = "declared"  PROVE Thing = "held"
        <5>1. ~cr[Some].deleting  BY <3>a, <4>2 DEF Claim
        <5>2. Exists(mem[w].name)  BY <3>a, <4>1, <5>1 DEF Version
        <5>3. Owned(Some) # {}  BY <3>a, <4>1, <5>2, OnlyOne
        <5> QED  BY <4>1, <5>3 DEF Thing
      <4>3. Reported' = TRUE  BY <3>4 DEF Reported
      <4>4. LC!Report  BY <3>1, <3>2, <4>2, <4>3 DEF LC!Report, Reported
      <4> QED  BY <4>4 DEF LC!Next
    <3> QED  BY <3>3, <3>4
  <2> QED  BY <2>4, <2>5
<1> QED  BY <1>1, <1>2

\* A user asks for the deletion, which ends at once a resource without a
\* finalizer; edits are not seen.
LEMMA UserSteps ==
    ASSUME BInv, BInv', Some \in Resources, NEW r \in Resources,
           UserDelete(r) \/ UserEdit(r)
    PROVE  [LC!Next]_(LC!vars)
<1>a. TypeOK /\ UNCHANGED maker /\ cr[r] \in Resource
  BY DEF BInv, TypeOK, UserDelete, UserEdit, StoreByUser, store
<1>e. \A n \in Names : Exists(n)' <=> Exists(n)  BY <1>a DEF Exists
<1>1. CASE UserEdit(r)
  <2>1. PICK n \in Names, p \in Policies :
           Stored(r, [cr[r] EXCEPT !.name = n, !.policy = p])
    BY <1>1 DEF UserEdit, StoreByUser, Store
  <2> DEFINE new == [cr[r] EXCEPT !.name = n, !.policy = p]
  <2>2. /\ new \in Resource /\ new.exists = cr[r].exists
        /\ new.deleting = cr[r].deleting /\ new.ready = cr[r].ready
    BY <1>a DEF Resource
  <2>3. Stored(r, new)  BY <2>1
  <2> HIDE DEF new
  <2> QED  BY <1>a, <2>2, <2>3, UnseenStored
<1>2. CASE UserDelete(r)
  <2> DEFINE new == IF cr[r].fin THEN [cr[r] EXCEPT !.deleting = TRUE]
                                 ELSE [cr[r] EXCEPT !.exists = FALSE]
  <2>1. Stored(r, new) /\ cr[r].exists /\ ~cr[r].deleting
    BY <1>2 DEF UserDelete, StoreByUser, Store
  <2>2. /\ new \in Resource /\ new.ready = cr[r].ready
        /\ cr[r].fin => new.exists /\ new.deleting
        /\ ~cr[r].fin => ~new.exists
    BY <1>a, <2>1 DEF Resource
  <2> HIDE DEF new
  <2>3. cr'[r] = new /\ \A s \in Resources \ {r} : cr'[s] = cr[s]
    BY <1>a, <2>1, <2>2, StoredTyping
  <2>4. CASE r # Some
    <3>1. cr'[Some] = cr[Some]  BY <2>3, <2>4
    <3> QED  BY <1>e, <3>1, Unseen
  <2>5. CASE r = Some /\ ~cr[r].fin  BY <1>a, <2>1, <2>2, <2>3, <2>5, GoneForgets
  <2>6. CASE r = Some /\ cr[r].fin
    <3>1. Claim = "declared" /\ Claim' = "deleting" /\ Reported' = Reported
      BY <2>1, <2>2, <2>3, <2>6, TrackedStays DEF Claim, Reported, Some
    <3>2. Thing' = Thing
      <4>1. CASE ~Tracked  BY <4>1, TrackedStays DEF Thing
      <4>2. CASE Tracked
        <5>1. Owned(Some) = {n \in Names : Exists(n)}  BY <4>2, OnlyOne
        <5>2. Owned(Some)' = {n \in Names : Exists(n)'}
          BY <4>2, OnlyOneStays DEF BInv
        <5> QED  BY <1>e, <4>2, <5>1, <5>2, TrackedStays DEF Thing
      <4> QED  BY <4>1, <4>2
    <3>3. LC!RequestDeletion  BY <3>1, <3>2 DEF LC!RequestDeletion, Reported
    <3> QED  BY <3>3 DEF LC!Next
  <2> QED  BY <2>4, <2>5, <2>6
<1> QED  BY <1>1, <1>2

-----------------------------------------------------------------------------
(* The refinement.                                                         *)

\* A new resource has no bucket.
LEMMA InitLifecycle ==
    ASSUME Init, Some \in Resources
    PROVE  LC!Init
<1>1. PICK n \in [Resources -> Names], p \in [Resources -> Policies] :
         cr = [r \in Resources |-> NewResource(n[r], p[r])]
  BY DEF Init
<1>2. cr[Some].exists /\ ~cr[Some].deleting /\ cr[Some].ready = "none"
  BY <1>1 DEF NewResource
<1>3. Claim = "declared" /\ ~Reported  BY <1>2 DEF Claim, Reported
<1>4. maker = [m \in Names |-> None]  BY DEF Init
<1>5. Owned(Some) = {}  BY <1>4, NamesAssumption DEF Owned
<1>6. Thing \in {"none", "untracked"}  BY <1>5 DEF Thing
<1> QED  BY <1>3, <1>6 DEF LC!Init, Reported

\* Every step is one of the abstract resource, or is not seen.
LEMMA NextLifecycle ==
    ASSUME BInv, BInv', Some \in Resources, [Next]_vars
    PROVE  [LC!Next]_(LC!vars)
<1>1. ASSUME NEW w \in Workers, Continue(w)  PROVE [LC!Next]_(LC!vars)
  <2>1. CASE Connect(w) \/ Observe(w) \/ RecheckBucket(w) \/ DeleteObjects(w)
    <3>1. UNCHANGED <<cr, maker>>
      BY <2>1 DEF Connect, Observe, RecheckBucket, DeleteObjects, store
    <3> QED  BY <3>1, UnseenCall
  <2> QED
    BY <1>1, <2>1, UpdatesUnseen, MakeProvisions, RemoveReleases, RemoveFinalizerForgets,
       WriteStatusReports DEF Continue
<1>2. ASSUME NEW w \in Workers, CallFails(w) \/ Crash(w)  PROVE [LC!Next]_(LC!vars)
  <2>1. UNCHANGED <<cr, maker>>  BY <1>2 DEF CallFails, Crash, store
  <2> QED  BY <2>1, UnseenCall
<1>3. ASSUME NEW w \in Workers, NEW r \in Resources, StartReconcile(w, r) \/ CacheSync(w, r)
      PROVE  [LC!Next]_(LC!vars)
  <2>1. UNCHANGED <<cr, maker>>  BY <1>3 DEF StartReconcile, CacheSync, store
  <2> QED  BY <2>1, UnseenCall
<1>4. ASSUME NEW r \in Resources, UserDelete(r) \/ UserEdit(r)
      PROVE  [LC!Next]_(LC!vars)
  BY <1>4, UserSteps
<1>5. CASE UserCredentials \/ UNCHANGED vars \/ \E n \in Names : Upload(n)
  <2>1. UNCHANGED <<cr, maker>>  BY <1>5 DEF UserCredentials, Upload, vars, store
  <2> QED  BY <2>1, UnseenCall
<1> QED  BY <1>1, <1>2, <1>3, <1>4, <1>5 DEF Next

\* A Bucket keeps the promise of a resource, whoever works on it: its bucket is made
\* while it exists, is removed only in its deletion, and is gone before it is.
THEOREM BucketKeepsPromise ==
    ASSUME Resources # {}
    PROVE  Spec => ImplementsLifecycle
<1>a. Some \in Resources  BY DEF Some
<1>1. Init => LC!Init  BY <1>a, InitLifecycle
<1>2. BInv /\ BInv' /\ [Next]_vars => [LC!Next]_(LC!vars)  BY <1>a, NextLifecycle
<1> QED  BY <1>1, <1>2, BucketInvariance, PTL DEF Spec, ImplementsLifecycle, LC!Spec
=============================================================================
