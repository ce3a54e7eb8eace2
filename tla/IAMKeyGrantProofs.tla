-------------------------- MODULE IAMKeyGrantProofs -------------------------
(***************************************************************************)
(* Proofs about what an IAMKey says of its key, secret, role and buckets,  *)
(* on top of the invariant IInv of IAMKeyProofs.                           *)
(***************************************************************************)
EXTENDS IAMKeyProofs

USE IDsAssumption, BoundsAssumption, BucketsAssumption

-----------------------------------------------------------------------------
(* Versions of the resource.                                               *)

\* The changes a reconcile makes to its copy keep it truthful.
LEMMA TruthfulCopies ==
    ASSUME TypeOK, NEW m \in Resource, Truthful(m)
    PROVE  /\ Truthful(Resolved(m))
           /\ \A s \in {"Creating", "Updating", "Deleting"} :
                Truthful([m EXCEPT !.ready = s])
           /\ m.keySt # None =>
                /\ Truthful([m EXCEPT !.ready = "Available", !.stBuckets = m.buckets])
                /\ Truthful([m EXCEPT !.stBuckets = m.buckets])
           /\ \A o \in {"succeeded", "failed"} :
                Truthful([m EXCEPT !.ready = "Creating", !.create = o])
<1>1. Truthful(ResolveRole(m))
  <2>1. Truthful([m EXCEPT !.roleSt = m.roleAnn, !.roleAnn = None])
    BY DEF Truthful, Resource
  <2> QED  BY <2>1 DEF ResolveRole
<1>2. ResolveRole(m) \in Resource
  <2>1. [m EXCEPT !.roleSt = m.roleAnn, !.roleAnn = None] \in Resource  BY DEF Resource
  <2> QED  BY <2>1 DEF ResolveRole
<1>3. ASSUME NEW x \in Resource, Truthful(x)  PROVE Truthful(ResolveKey(x))
  <2>1. CASE x.roleSt # None /\ x.keySt = None /\ x.keyAnn # None
    <3>1. Truthful([x EXCEPT !.keySt = x.keyAnn, !.keyAnn = None])
      BY <1>3, <2>1 DEF Truthful, Resource
    <3> QED  BY <2>1, <3>1 DEF ResolveKey
  <2>2. CASE ~(x.roleSt # None /\ x.keySt = None /\ x.keyAnn # None)
    BY <1>3, <2>2 DEF ResolveKey
  <2> QED  BY <2>1, <2>2
<1>4. Truthful(Resolved(m))  BY <1>1, <1>2, <1>3 DEF Resolved
<1>5. \A s \in {"Creating", "Updating", "Deleting"} : Truthful([m EXCEPT !.ready = s])
  BY DEF Truthful, Resource
<1>6. m.keySt # None =>
        /\ Truthful([m EXCEPT !.ready = "Available", !.stBuckets = m.buckets])
        /\ Truthful([m EXCEPT !.stBuckets = m.buckets])
  BY DEF Truthful, Resource
<1>7. \A o \in {"succeeded", "failed"} :
        Truthful([m EXCEPT !.ready = "Creating", !.create = o])
  BY DEF Truthful, Resource
<1> QED  BY <1>4, <1>5, <1>6, <1>7

\* Those changes leave the request for deletion and the buckets of the spec alone.
LEMMA ResolvedRest ==
    ASSUME NEW m \in Resource
    PROVE  Resolved(m).deleting = m.deleting /\ Resolved(m).buckets = m.buckets
<1>1. ResolveRole(m).deleting = m.deleting /\ ResolveRole(m).buckets = m.buckets
  BY DEF ResolveRole, Resource
<1>2. ResolveRole(m) \in Resource
  <2>1. [m EXCEPT !.roleSt = m.roleAnn, !.roleAnn = None] \in Resource  BY DEF Resource
  <2> QED  BY <2>1 DEF ResolveRole
<1>3. ASSUME NEW x \in Resource
      PROVE  ResolveKey(x).deleting = x.deleting /\ ResolveKey(x).buckets = x.buckets
  BY DEF ResolveKey, Resource
<1> QED  BY <1>1, <1>2, <1>3 DEF Resolved

\* What Update and Status().Update leave alone.
LEMMA MergedRest ==
    ASSUME cr \in Resource, NEW m \in Resource
    PROVE  /\ Merged(m).deleting = cr.deleting /\ Merged(m).buckets = cr.buckets
           /\ Merged(m).ready = cr.ready /\ Merged(m).stBuckets = cr.stBuckets
           /\ MergedStatus(m).deleting = cr.deleting /\ MergedStatus(m).buckets = cr.buckets
           /\ MergedStatus(m).ready = m.ready /\ MergedStatus(m).stBuckets = m.stBuckets
<1>1. /\ Merged(m).deleting = cr.deleting /\ Merged(m).buckets = cr.buckets
      /\ Merged(m).ready = cr.ready /\ Merged(m).stBuckets = cr.stBuckets
  BY DEF Merged, Resource
<1>2. /\ MergedStatus(m).deleting = cr.deleting /\ MergedStatus(m).buckets = cr.buckets
      /\ MergedStatus(m).ready = m.ready /\ MergedStatus(m).stBuckets = m.stBuckets
  BY DEF MergedStatus, Resource
<1> QED  BY <1>1, <1>2

\* A truthful copy stored over a truthful version makes a truthful version, the
\* status only if the spec is the one of the copy.
LEMMA TruthfulVersions ==
    ASSUME TypeOK, Truthful(cr), NEW m \in Resource, Truthful(m)
    PROVE  /\ Truthful(Merged(m))
           /\ m.buckets = cr.buckets => Truthful(MergedStatus(m))
<1>1. cr \in Resource  BY DEF TypeOK
<1>2. Truthful(Merged(m))  BY <1>1, MergedFields, MergedRest DEF Truthful
<1>3. m.buckets = cr.buckets => Truthful(MergedStatus(m))
  BY <1>1, MergedFields, MergedRest DEF Truthful
<1> QED  BY <1>2, <1>3

-----------------------------------------------------------------------------
(* Steps that store no version.                                            *)

\* What a step may do to the facts a version tells.
Frame ==
    /\ issued \subseteq issued'
    /\ cr.deleting => cr'.deleting
    /\ cr'.deleting \/ roles \subseteq roles'
    /\ edits' = 0 => /\ edits = 0
                     /\ cr'.buckets = cr.buckets
                     /\ \A r \in Roles : policy[r] = cr.buckets => policy'[r] = cr.buckets

\* Such a step keeps every version truthful.
LEMMA StaysTruthful ==
    ASSUME Frame
    PROVE  \A x \in Resource : Truthful(x) => Truthful(x)'
<1> SUFFICES ASSUME NEW x \in Resource, Truthful(x)  PROVE Truthful(x)'
  OBVIOUS
<1>1. {x.roleAnn, x.roleSt} \subseteq Roles \cup {None}  BY DEF Resource
<1> QED  BY <1>1 DEF Frame, Truthful

\* The workers that move have their own parts of the invariant to keep, and what
\* is stored.
LEMMA GrantMove ==
    ASSUME IInv, GrantInv, TypeOK', NEW M, Frame, UNCHANGED cache,
           \A v \in Workers \ M :
               /\ pc'[v] = pc[v] /\ mem'[v] = mem[v] /\ obs'[v] = obs[v]
               /\ newRole'[v] = newRole[v]
               /\ fresh'[v] => fresh[v] /\ cr'.buckets = cr.buckets,
           keys' \cap issued \subseteq keys, blind => blind',
           \A w \in M : GrantStepInv(w)',
           Truthful(cr)',
           secret' \in Keys => secret' \in issued',
           ~cr'.deleting => issued' \subseteq keys' /\ ~blind',
           DeletedMeansReleased'
    PROVE  GrantInv'
<1>a. TypeOK  BY DEF IInv
<1>1. \A x \in Resource : Truthful(x) => Truthful(x)'  BY StaysTruthful
<1>2. ASSUME NEW v \in Workers  PROVE Truthful(cache[v])'
  <2>1. cache[v] \in Resource /\ cache'[v] = cache[v] /\ Truthful(cache[v])
    BY <1>a DEF GrantInv, TypeOK
  <2> QED  BY <1>1, <2>1 DEF Truthful
<1>3. ASSUME NEW v \in Workers \ M  PROVE GrantStepInv(v)'
  <2>1. /\ pc'[v] = pc[v] /\ mem'[v] = mem[v] /\ obs'[v] = obs[v]
        /\ newRole'[v] = newRole[v]
        /\ fresh'[v] => fresh[v] /\ cr'.buckets = cr.buckets
    OBVIOUS
  <2>2. mem[v] \in Resource /\ newRole[v] \in Roles \cup {None}  BY <1>a DEF TypeOK
  <2>3. GrantStepInv(v)  BY DEF GrantInv
  <2>4. pc'[v] # "idle" => Truthful(mem[v])'
    BY <1>1, <2>1, <2>2, <2>3 DEF GrantStepInv, Truthful
  <2>5. fresh'[v] /\ pc'[v] # "idle" => mem'[v].buckets = cr'.buckets
    BY <2>1, <2>3 DEF GrantStepInv
  <2>6. newRole'[v] # None => /\ ~cr'.deleting => newRole'[v] \in roles'
                              /\ edits' = 0 => policy'[newRole'[v]] = cr'.buckets
    BY <2>1, <2>2, <2>3 DEF GrantStepInv, Frame
  <2>7. obs[v] = "gone" => pc[v] # "idle"  BY DEF IInv, StepInv
  <2>8. obs'[v] = "gone" => mem'[v].keySt # None /\ (blind' \/ mem'[v].keySt \notin keys')
    BY <2>1, <2>3, <2>7 DEF GrantStepInv, Truthful
  <2> QED  BY <2>1, <2>3, <2>4, <2>5, <2>6, <2>8 DEF GrantStepInv
<1>4. edits' = 0 => cr'.buckets # NoBuckets  BY DEF GrantInv, Frame
<1> QED  BY <1>2, <1>3, <1>4 DEF GrantInv

\* A step of w that stores no version and confirms no key: the copy it leaves is
\* truthful in the state before the step.
LEMMA QuietGrant ==
    ASSUME IInv, GrantInv, TypeOK', NEW w \in Workers, OnlyMoves(w),
           UNCHANGED <<cr, issued, cache, edits>>,
           \A v \in Workers \ {w} : fresh'[v] = fresh[v],
           keys' \cap issued \subseteq keys, blind => blind',
           cr.deleting \/ (roles \subseteq roles' /\ keys \subseteq keys' /\ blind' = blind),
           edits = 0 => \A r \in Roles : policy[r] = cr.buckets => policy'[r] = cr.buckets,
           secret' \in Keys => secret' = secret \/ secret' \in issued,
           pc'[w] # "idle" =>
               /\ Truthful(mem'[w])
               /\ fresh'[w] => mem'[w].buckets = cr.buckets,
           newRole'[w] # None =>
               /\ ~cr.deleting => newRole'[w] \in roles'
               /\ edits = 0 => policy'[newRole'[w]] = cr.buckets,
           pc'[w] \in {"deleteKey", "deleteRole", "removeFinalizer"} => mem'[w].deleting,
           pc'[w] = "removeFinalizer" => obs'[w] \in {"absent", "gone"},
           obs'[w] = "gone" => mem'[w].keySt # None /\ (blind' \/ mem'[w].keySt \notin keys')
    PROVE  GrantInv'
<1>a. TypeOK /\ cr \in Resource /\ mem'[w] \in Resource  BY DEF IInv, TypeOK
<1>1. Frame  BY DEF Frame
<1>2. \A x \in Resource : Truthful(x) => Truthful(x)'  BY <1>1, StaysTruthful
<1>3. Truthful(cr)'  BY <1>a, <1>2 DEF GrantInv, Truthful
<1>4. pc'[w] # "idle" => Truthful(mem[w])'  BY <1>a, <1>2 DEF Truthful
<1>5. GrantStepInv(w)'  BY <1>4 DEF GrantStepInv
<1>6. ~cr'.deleting => issued' \subseteq keys' /\ ~blind'  BY DEF GrantInv
<1>7. DeletedMeansReleased'  BY DEF GrantInv, DeletedMeansReleased, Legacy
<1>8. secret' \in Keys => secret' \in issued'  BY DEF GrantInv
<1>9. \A v \in Workers \ {w} :
        /\ pc'[v] = pc[v] /\ mem'[v] = mem[v] /\ obs'[v] = obs[v]
        /\ newRole'[v] = newRole[v]
        /\ fresh'[v] => fresh[v] /\ cr'.buckets = cr.buckets
  BY DEF OnlyMoves
<1>10. \A v \in {w} : GrantStepInv(v)'  BY <1>5
<1> QED  BY <1>1, <1>3, <1>6, <1>7, <1>8, <1>9, <1>10, GrantMove

\* The copy after Create is as truthful as it was before.
LEMMA ReturnsTruthful ==
    ASSUME TypeOK, NEW w \in Workers, Truthful(mem[w]),
           CreateReturns(w, "succeeded") \/ CreateReturns(w, "failed")
    PROVE  /\ Truthful(mem'[w]) /\ mem'[w].deleting = mem[w].deleting
           /\ mem'[w].buckets = mem[w].buckets /\ mem'[w].keySt = mem[w].keySt
           /\ pc'[w] = "critical"
<1>1. PICK o \in {"succeeded", "failed"} : CreateReturns(w, o)  OBVIOUS
<1>2. mem'[w] = [mem[w] EXCEPT !.ready = "Creating", !.create = o]
  BY <1>1 DEF TypeOK, CreateReturns
<1>3. mem[w] \in Resource  BY DEF TypeOK
<1>4. Truthful(mem'[w])
  <2>1. Truthful([mem[w] EXCEPT !.ready = "Creating", !.create = o])
    BY <1>3, TruthfulCopies
  <2> QED  BY <1>2, <2>1
<1>5. mem'[w].deleting = mem[w].deleting /\ mem'[w].buckets = mem[w].buckets
      /\ mem'[w].keySt = mem[w].keySt
  BY <1>2, <1>3 DEF Resource
<1>6. pc'[w] = "critical"  BY <1>1 DEF TypeOK, CreateReturns, Goto
<1> QED  BY <1>4, <1>5, <1>6

\* The steps that store no version and confirm no key.
LEMMA QuietGrantActions ==
    ASSUME IInv, GrantInv, TypeOK', NEW w \in Workers,
           \/ StartReconcile(w) \/ Connect(w) \/ ObserveAbsent(w) \/ ObserveKey(w)
           \/ ObserveKeyError(w) \/ CheckSecret(w) \/ Publish(w) \/ CreateNoop(w)
           \/ CreateRole(w) \/ CreateRoleFails(w) \/ CreateKeyFails(w)
           \/ CreateSecret(w) \/ CreateSecretFails(w) \/ CriticalAnnotationsFail(w)
           \/ PublishCreated(w) \/ UpdateRole(w) \/ DeleteKey(w) \/ DeleteKeyFails(w)
           \/ DeleteRole(w) \/ CallFails(w) \/ Crash(w)
    PROVE  GrantInv'
<1> USE DEF Goto, cloud, local, Fault
<1>a. TypeOK /\ StepInv(w) /\ FreshInv(w) /\ CreationInv(w) /\ GrantStepInv(w)
  BY DEF IInv, GrantInv
<1>b. mem[w] \in Resource /\ cache[w] \in Resource /\ cr \in Resource
      /\ newRole[w] \in Roles \cup {None}
  BY <1>a DEF TypeOK
<1>c. /\ cr.deleting \/ (issued \subseteq keys /\ ~blind)
      /\ Truthful(cache[w]) /\ Truthful(cr)
  BY DEF GrantInv
<1>d. pc[w] # "idle" => Truthful(mem[w]) /\ (mem[w].deleting => cr.deleting)
  BY <1>a DEF GrantStepInv, Truthful
<1>1. CASE StartReconcile(w)
  <2>1. /\ OnlyMoves(w) /\ UNCHANGED <<cr, issued, cache, edits>>
        /\ \A v \in Workers \ {w} : fresh'[v] = fresh[v]
    BY <1>a, <1>1 DEF StartReconcile, OnlyMoves, TypeOK
  <2>2. /\ Truthful(mem'[w]) /\ mem'[w].buckets = cache[w].buckets
        /\ pc'[w] \in {"connect", "status"}
        /\ fresh'[w] = synced[w]
    <3>1. \/ mem'[w] = cache[w]
          \/ mem'[w] = [cache[w] EXCEPT !.ready = "Creating"]
      BY <1>a, <1>1 DEF StartReconcile, TypeOK
    <3>2. Truthful([cache[w] EXCEPT !.ready = "Creating"])
          /\ [cache[w] EXCEPT !.ready = "Creating"].buckets = cache[w].buckets
      BY <1>a, <1>b, <1>c, TruthfulCopies DEF Resource
    <3>3. pc'[w] \in {"connect", "status"} /\ fresh'[w] = synced[w]
      BY <1>a, <1>1 DEF StartReconcile, TypeOK
    <3> QED  BY <1>c, <3>1, <3>2, <3>3
  <2>3. synced[w] => cache[w] = cr  BY DEF IInv, CacheInv
  <2>4. obs[w] = "none" /\ newRole[w] = None  BY <1>a, <1>1 DEF StartReconcile, StepInv
  <2> QED  BY <1>1, <2>1, <2>2, <2>3, <2>4, QuietGrant DEF StartReconcile
<1>2. CASE Connect(w)
  <2>1. /\ OnlyMoves(w) /\ UNCHANGED <<cr, issued, cache, edits>>
        /\ \A v \in Workers \ {w} : fresh'[v] = fresh[v]
    BY <1>a, <1>2 DEF Connect, OnlyMoves, TypeOK
  <2> QED  BY <1>a, <1>d, <1>2, <2>1, QuietGrant DEF Connect, GrantStepInv, TypeOK
<1>3. CASE ObserveAbsent(w)
  <2>1. /\ OnlyMoves(w) /\ UNCHANGED <<cr, issued, cache, edits>>
        /\ \A v \in Workers \ {w} : fresh'[v] = fresh[v]
    BY <1>a, <1>3 DEF ObserveAbsent, OnlyMoves, TypeOK
  <2>2. mem'[w] = Resolved(mem[w])  BY <1>a, <1>3 DEF ObserveAbsent, TypeOK
  <2>3. /\ Truthful(mem'[w]) /\ mem'[w].deleting = mem[w].deleting
        /\ mem'[w].buckets = mem[w].buckets
    BY <1>a, <1>b, <1>d, <1>3, <2>2, TruthfulCopies, ResolvedRest DEF ObserveAbsent
  <2> QED  BY <1>a, <1>d, <1>3, <2>1, <2>2, <2>3, QuietGrant
    DEF ObserveAbsent, GrantStepInv, StepInv, TypeOK, BeforePending
<1>4. CASE ObserveKey(w)
  <2>1. /\ OnlyMoves(w) /\ UNCHANGED <<cr, issued, cache, edits>>
        /\ \A v \in Workers \ {w} : fresh'[v] = fresh[v]
    BY <1>a, <1>4 DEF ObserveKey, OnlyMoves, TypeOK
  <2>2. mem'[w] = Resolved(mem[w])  BY <1>a, <1>4 DEF ObserveKey, TypeOK
  <2>3. /\ Truthful(mem'[w]) /\ mem'[w].deleting = mem[w].deleting
        /\ mem'[w].buckets = mem[w].buckets
    BY <1>a, <1>b, <1>d, <1>4, <2>2, TruthfulCopies, ResolvedRest DEF ObserveKey
  <2> QED  BY <1>a, <1>d, <1>4, <2>1, <2>2, <2>3, QuietGrant
    DEF ObserveKey, GrantStepInv, StepInv, TypeOK, BeforePending
<1>5. CASE ObserveKeyError(w)
  <2>1. /\ OnlyMoves(w) /\ UNCHANGED <<cr, issued, cache, edits>>
        /\ \A v \in Workers \ {w} : fresh'[v] = fresh[v]
    BY <1>a, <1>5 DEF ObserveKeyError, GetAPIKeyFailed, OnlyMoves, TypeOK
  <2>2. mem'[w] = Resolved(mem[w])  BY <1>a, <1>5 DEF ObserveKeyError, GetAPIKeyFailed, TypeOK
  <2>3. /\ Truthful(mem'[w]) /\ mem'[w].deleting = mem[w].deleting
        /\ mem'[w].buckets = mem[w].buckets
    BY <1>a, <1>b, <1>d, <1>5, <2>2, TruthfulCopies, ResolvedRest DEF ObserveKeyError, GetAPIKeyFailed
  <2>4. obs'[w] = "gone" => mem'[w].keySt # None /\ (blind' \/ mem'[w].keySt \notin keys')
    BY <1>a, <1>5, <2>2 DEF ObserveKeyError, GetAPIKeyFailed, IDsKnown, StepInv, TypeOK
  <2>5. blind => blind'  BY <1>5 DEF ObserveKeyError
  <2>6. cr.deleting \/ blind' = blind
    BY <1>a, <1>d, <1>5 DEF ObserveKeyError, TypeOK
  <2> QED  BY <1>a, <1>d, <1>5, <2>1, <2>2, <2>3, <2>4, <2>5, <2>6, QuietGrant
    DEF ObserveKeyError, GetAPIKeyFailed, GrantStepInv, StepInv, TypeOK, BeforePending
<1>6. CASE CheckSecret(w)
  <2>1. /\ OnlyMoves(w) /\ UNCHANGED <<cr, issued, cache, edits>>
        /\ \A v \in Workers \ {w} : fresh'[v] = fresh[v]
    BY <1>a, <1>6 DEF CheckSecret, OnlyMoves, TypeOK
  <2>2. \/ mem'[w] = mem[w]
        \/ mem'[w] = [mem[w] EXCEPT !.stBuckets = mem[w].buckets]
        \/ mem'[w] = [mem[w] EXCEPT !.ready = "Available", !.stBuckets = mem[w].buckets]
    <3>1. \/ mem' = mem
          \/ mem' = [mem EXCEPT ![w] = [mem[w] EXCEPT !.stBuckets = mem[w].buckets]]
          \/ mem' = [mem EXCEPT ![w] = [mem[w] EXCEPT !.ready = "Available",
                                                     !.stBuckets = mem[w].buckets]]
      BY <1>6 DEF CheckSecret
    <3> QED  BY <1>a, <3>1 DEF TypeOK
  <2>3. mem[w].keySt # None  BY <1>a, <1>6 DEF CheckSecret, StepInv, IDsKnown
  <2>4. /\ Truthful([mem[w] EXCEPT !.ready = "Available", !.stBuckets = mem[w].buckets])
        /\ Truthful([mem[w] EXCEPT !.stBuckets = mem[w].buckets])
    BY <1>a, <1>b, <1>d, <1>6, <2>3, TruthfulCopies DEF CheckSecret
  <2>5. /\ Truthful(mem'[w]) /\ mem'[w].deleting = mem[w].deleting
        /\ mem'[w].buckets = mem[w].buckets
    <3>1. CASE mem'[w] = mem[w]  BY <1>d, <1>6, <3>1 DEF CheckSecret
    <3>2. CASE mem'[w] = [mem[w] EXCEPT !.ready = "Available", !.stBuckets = mem[w].buckets]
      BY <1>b, <2>4, <3>2 DEF Resource
    <3>3. CASE mem'[w] = [mem[w] EXCEPT !.stBuckets = mem[w].buckets]
      BY <1>b, <2>4, <3>3 DEF Resource
    <3> QED  BY <2>2, <3>1, <3>2, <3>3
  <2>6. /\ obs'[w] # "gone"
        /\ pc'[w] \in {"publish", "deleteKey", "status"}
        /\ pc'[w] = "deleteKey" => mem[w].deleting
        /\ UNCHANGED <<newRole, fresh, secret, keys, roles, policy, blind>>
    BY <1>a, <1>6 DEF CheckSecret, StepInv, TypeOK
  <2> QED  BY <1>a, <1>6, <2>1, <2>5, <2>6, QuietGrant DEF CheckSecret, GrantStepInv
<1>7. CASE Publish(w)
  <2>1. /\ OnlyMoves(w) /\ UNCHANGED <<cr, issued, cache, edits>>
        /\ \A v \in Workers \ {w} : fresh'[v] = fresh[v]
    BY <1>a, <1>7 DEF Publish, OnlyMoves, TypeOK
  <2>2. secret' \in Keys => secret' = secret \/ secret' \in issued
    <3>1. mem[w].keySt \in issued \cup {None}  BY <1>d, <1>7 DEF Publish, Truthful
    <3> QED  BY <1>7, <3>1 DEF Publish
  <2> QED  BY <1>a, <1>d, <1>7, <2>1, <2>2, QuietGrant DEF Publish, GrantStepInv, TypeOK
<1>8. CASE CreateNoop(w)
  <2>1. /\ OnlyMoves(w) /\ UNCHANGED <<cr, issued, cache, edits>>
        /\ \A v \in Workers \ {w} : fresh'[v] = fresh[v]
    BY <1>a, <1>8 DEF CreateNoop, CreateReturns, OnlyMoves, TypeOK
  <2>2. /\ Truthful(mem'[w]) /\ mem'[w].deleting = mem[w].deleting
        /\ mem'[w].buckets = mem[w].buckets
        /\ mem'[w].keySt = mem[w].keySt
        /\ pc'[w] = "critical"
    BY <1>a, <1>d, <1>8, ReturnsTruthful DEF CreateNoop
  <2> QED  BY <1>a, <1>8, <2>1, <2>2, QuietGrant DEF CreateNoop, GrantStepInv
<1>9. CASE CreateRole(w)
  <2>1. /\ OnlyMoves(w) /\ UNCHANGED <<cr, issued, cache, edits>>
        /\ \A v \in Workers \ {w} : fresh'[v] = fresh[v]
    BY <1>a, <1>9 DEF CreateRole, OnlyMoves, TypeOK
  <2>2. PICK r \in Roles :
          /\ roles' = roles \cup {r}
          /\ policy' = [policy EXCEPT ![r] = mem[w].buckets]
          /\ newRole' = [newRole EXCEPT ![w] = r]
    BY <1>9, IssuedIDs DEF CreateRole
  <2>3. mem'[w] = [mem[w] EXCEPT !.ready = "Creating"]  BY <1>a, <1>9 DEF CreateRole, TypeOK
  <2>4. /\ Truthful(mem'[w]) /\ mem'[w].deleting = mem[w].deleting
        /\ mem'[w].buckets = mem[w].buckets /\ mem'[w].keySt = mem[w].keySt
    <3>1. Truthful(mem[w])  BY <1>d, <1>9 DEF CreateRole
    <3>2. Truthful([mem[w] EXCEPT !.ready = "Creating"])
      BY <1>a, <1>b, <3>1, TruthfulCopies
    <3> QED  BY <1>b, <2>3, <3>2 DEF Resource
  <2>5. edits = 0 => mem[w].buckets = cr.buckets
    BY <1>d, <1>9 DEF CreateRole, Truthful
  <2>6. /\ policy'[r] = mem[w].buckets
        /\ \A x \in Roles : x # r => policy'[x] = policy[x]
        /\ newRole'[w] = r /\ pc'[w] = "createKey"
        /\ UNCHANGED <<keys, blind, secret, fresh, obs>>
    BY <1>a, <1>9, <2>2 DEF CreateRole, TypeOK
  <2> QED  BY <1>a, <1>9, <2>1, <2>2, <2>4, <2>5, <2>6, QuietGrant DEF CreateRole, GrantStepInv
<1>10. CASE CreateRoleFails(w)
  <2>1. /\ OnlyMoves(w) /\ UNCHANGED <<cr, issued, cache, edits>>
        /\ \A v \in Workers \ {w} : fresh'[v] = fresh[v]
    BY <1>a, <1>10 DEF CreateRoleFails, CreateReturns, Panic, End, OnlyMoves, TypeOK
  <2>2. roles \subseteq roles'  BY <1>10 DEF CreateRoleFails
  <2>3. edits = 0 => mem[w].buckets = cr.buckets
    BY <1>d, <1>10 DEF CreateRoleFails, Truthful
  <2>4. edits = 0 => \A r \in Roles : policy[r] = cr.buckets => policy'[r] = cr.buckets
    BY <1>a, <1>10, <2>3, IssuedIDs DEF CreateRoleFails, TypeOK
  <2>5. UNCHANGED <<keys, blind, secret, fresh>>  BY <1>10 DEF CreateRoleFails
  <2>6. CASE CreateReturns(w, "failed") /\ UNCHANGED local
    <3>1. /\ Truthful(mem'[w]) /\ mem'[w].deleting = mem[w].deleting
          /\ mem'[w].buckets = mem[w].buckets
          /\ mem'[w].keySt = mem[w].keySt
          /\ pc'[w] = "critical"
      BY <1>a, <1>d, <1>10, <2>6, ReturnsTruthful DEF CreateRoleFails
    <3>2. newRole[w] = None  BY <1>a, <1>10 DEF CreateRoleFails, StepInv
    <3> QED
      BY <1>a, <1>10, <2>1, <2>2, <2>4, <2>5, <2>6, <3>1, <3>2, QuietGrant
      DEF CreateRoleFails, GrantStepInv
  <2>7. CASE End(w)
    <3>1. pc'[w] = "idle" /\ obs'[w] = "none" /\ newRole'[w] = None
      BY <1>a, <2>7 DEF End, TypeOK
    <3> QED  BY <2>1, <2>2, <2>4, <2>5, <3>1, QuietGrant
  <2> QED  BY <1>10, <2>6, <2>7 DEF CreateRoleFails, Panic
<1>11. CASE CreateKeyFails(w)
  <2>1. /\ OnlyMoves(w) /\ UNCHANGED <<cr, issued, cache, edits>>
        /\ \A v \in Workers \ {w} : fresh'[v] = fresh[v]
    BY <1>a, <1>11 DEF CreateKeyFails, CreateReturns, Panic, End, OnlyMoves, TypeOK
  <2>2. /\ keys \subseteq keys' /\ keys' \cap issued \subseteq keys
        /\ UNCHANGED <<roles, policy, blind, secret, fresh>>
    BY <1>11, IssuedIDs DEF CreateKeyFails
  <2>3. CASE pc' = pc /\ mem' = mem /\ UNCHANGED <<obs, newRole>>
    BY <1>a, <1>d, <1>11, <2>1, <2>2, <2>3, QuietGrant DEF CreateKeyFails, GrantStepInv, StepInv,
       Truthful
  <2>4. CASE CreateReturns(w, "failed") /\ UNCHANGED <<obs, newRole>>
    <3>1. /\ Truthful(mem'[w]) /\ mem'[w].deleting = mem[w].deleting
          /\ mem'[w].buckets = mem[w].buckets
          /\ mem'[w].keySt = mem[w].keySt
          /\ pc'[w] = "critical"
      BY <1>a, <1>d, <1>11, <2>4, ReturnsTruthful DEF CreateKeyFails
    <3>2. mem[w].keySt \in issued \cup {None}  BY <1>d, <1>11 DEF CreateKeyFails, Truthful
    <3> QED
      BY <1>a, <1>11, <2>1, <2>2, <2>4, <3>1, <3>2, QuietGrant DEF CreateKeyFails, GrantStepInv
  <2>5. CASE End(w)
    <3>1. pc'[w] = "idle" /\ obs'[w] = "none" /\ newRole'[w] = None
      BY <1>a, <2>5 DEF End, TypeOK
    <3> QED  BY <2>1, <2>2, <3>1, QuietGrant
  <2> QED  BY <1>11, <2>3, <2>4, <2>5 DEF CreateKeyFails, Panic
<1>12. CASE CreateSecret(w)
  <2>1. /\ OnlyMoves(w) /\ UNCHANGED <<cr, issued, cache, edits>>
        /\ \A v \in Workers \ {w} : fresh'[v] = fresh[v]
    BY <1>a, <1>12 DEF CreateSecret, CreateReturns, OnlyMoves, TypeOK
  <2>2. /\ Truthful(mem'[w]) /\ mem'[w].deleting = mem[w].deleting
        /\ mem'[w].buckets = mem[w].buckets
        /\ mem'[w].keySt = mem[w].keySt
        /\ pc'[w] = "critical"
    BY <1>a, <1>d, <1>12, ReturnsTruthful DEF CreateSecret
  <2>3. mem[w].keyAnn \in issued \cup {None}  BY <1>d, <1>12 DEF CreateSecret, Truthful
  <2>4. secret' \in Keys => secret' = secret \/ secret' \in issued
    BY <1>12, <2>3 DEF CreateSecret
  <2> QED  BY <1>a, <1>12, <2>1, <2>2, <2>4, QuietGrant DEF CreateSecret, GrantStepInv
<1>13. CASE CreateSecretFails(w)
  <2>1. /\ OnlyMoves(w) /\ UNCHANGED <<cr, issued, cache, edits>>
        /\ \A v \in Workers \ {w} : fresh'[v] = fresh[v]
    BY <1>a, <1>13 DEF CreateSecretFails, CreateReturns, OnlyMoves, TypeOK
  <2>2. /\ Truthful(mem'[w]) /\ mem'[w].deleting = mem[w].deleting
        /\ mem'[w].buckets = mem[w].buckets
        /\ mem'[w].keySt = mem[w].keySt
        /\ pc'[w] = "critical"
    BY <1>a, <1>d, <1>13, ReturnsTruthful DEF CreateSecretFails
  <2> QED  BY <1>a, <1>13, <2>1, <2>2, QuietGrant DEF CreateSecretFails, GrantStepInv
<1>14. CASE CriticalAnnotationsFail(w)
  <2>1. /\ OnlyMoves(w) /\ UNCHANGED <<cr, issued, cache, edits>>
        /\ \A v \in Workers \ {w} : fresh'[v] = fresh[v]
    BY <1>a, <1>14 DEF CriticalAnnotationsFail, OnlyMoves, TypeOK
  <2> QED  BY <1>a, <1>d, <1>14, <2>1, QuietGrant DEF CriticalAnnotationsFail, GrantStepInv, TypeOK
<1>15. CASE PublishCreated(w)
  <2>1. /\ OnlyMoves(w) /\ UNCHANGED <<cr, issued, cache, edits>>
        /\ \A v \in Workers \ {w} : fresh'[v] = fresh[v]
    BY <1>a, <1>15 DEF PublishCreated, OnlyMoves, TypeOK
  <2>2. secret' \in Keys => secret' = secret \/ secret' \in issued
    <3>1. mem[w].keyAnn \in issued \cup {None}  BY <1>d, <1>15 DEF PublishCreated, Truthful
    <3> QED  BY <1>15, <3>1 DEF PublishCreated
  <2> QED  BY <1>a, <1>d, <1>15, <2>1, <2>2, QuietGrant DEF PublishCreated, GrantStepInv, TypeOK
<1>16. CASE UpdateRole(w)
  <2>1. /\ OnlyMoves(w) /\ UNCHANGED <<cr, issued, cache, edits>>
        /\ \A v \in Workers \ {w} : fresh'[v] = fresh[v]
    BY <1>a, <1>16 DEF UpdateRole, OnlyMoves, TypeOK
  <2>2. mem'[w] = [mem[w] EXCEPT !.ready = "Updating"]  BY <1>a, <1>16 DEF UpdateRole, TypeOK
  <2>3. /\ Truthful(mem'[w]) /\ mem'[w].deleting = mem[w].deleting
        /\ mem'[w].buckets = mem[w].buckets /\ mem'[w].keySt = mem[w].keySt
    <3>1. Truthful(mem'[w])  BY <1>a, <1>b, <1>d, <1>16, <2>2, TruthfulCopies DEF UpdateRole
    <3> QED  BY <1>b, <2>2, <3>1 DEF Resource
  <2> QED  BY <1>a, <1>16, <2>1, <2>3, QuietGrant DEF UpdateRole, GrantStepInv, TypeOK
<1>17. CASE DeleteKey(w)
  <2>1. /\ OnlyMoves(w) /\ UNCHANGED <<cr, issued, cache, edits>>
        /\ \A v \in Workers \ {w} : fresh'[v] = fresh[v]
    BY <1>a, <1>17 DEF DeleteKey, OnlyMoves, TypeOK
  <2>2. mem'[w] = [mem[w] EXCEPT !.ready = "Deleting"]  BY <1>a, <1>17 DEF DeleteKey, TypeOK
  <2>3. /\ Truthful(mem'[w]) /\ mem'[w].deleting = mem[w].deleting
        /\ mem'[w].buckets = mem[w].buckets /\ mem'[w].keySt = mem[w].keySt
    <3>1. Truthful(mem'[w])  BY <1>a, <1>b, <1>d, <1>17, <2>2, TruthfulCopies DEF DeleteKey
    <3> QED  BY <1>b, <2>2, <3>1 DEF Resource
  <2>4. cr.deleting /\ mem[w].deleting  BY <1>a, <1>d, <1>17 DEF DeleteKey, GrantStepInv
  <2>5. /\ keys' \subseteq keys /\ pc'[w] \in {"deleteRole", "status"}
        /\ UNCHANGED <<secret, roles, policy, blind, fresh, newRole, obs>>
    BY <1>a, <1>17 DEF DeleteKey, TypeOK
  <2> QED  BY <1>a, <1>17, <2>1, <2>3, <2>4, <2>5, QuietGrant DEF DeleteKey, GrantStepInv
<1>18. CASE DeleteKeyFails(w)
  <2>1. /\ OnlyMoves(w) /\ UNCHANGED <<cr, issued, cache, edits>>
        /\ \A v \in Workers \ {w} : fresh'[v] = fresh[v]
    BY <1>a, <1>18 DEF DeleteKeyFails, OnlyMoves, TypeOK
  <2>2. mem'[w] = [mem[w] EXCEPT !.ready = "Deleting"]  BY <1>a, <1>18 DEF DeleteKeyFails, TypeOK
  <2>3. /\ Truthful(mem'[w]) /\ mem'[w].deleting = mem[w].deleting
        /\ mem'[w].buckets = mem[w].buckets /\ mem'[w].keySt = mem[w].keySt
    <3>1. Truthful(mem'[w])  BY <1>a, <1>b, <1>d, <1>18, <2>2, TruthfulCopies DEF DeleteKeyFails
    <3> QED  BY <1>b, <2>2, <3>1 DEF Resource
  <2>4. cr.deleting /\ mem[w].deleting  BY <1>a, <1>d, <1>18 DEF DeleteKeyFails, GrantStepInv
  <2>5. /\ keys' \subseteq keys /\ pc'[w] \in {"deleteRole", "status"}
        /\ UNCHANGED <<secret, roles, policy, blind, fresh, newRole, obs>>
    BY <1>a, <1>18 DEF DeleteKeyFails, TypeOK
  <2> QED  BY <1>a, <1>18, <2>1, <2>3, <2>4, <2>5, QuietGrant DEF DeleteKeyFails, GrantStepInv
<1>19. CASE DeleteRole(w)
  <2>1. /\ OnlyMoves(w) /\ UNCHANGED <<cr, issued, cache, edits>>
        /\ \A v \in Workers \ {w} : fresh'[v] = fresh[v]
    BY <1>a, <1>19 DEF DeleteRole, OnlyMoves, TypeOK
  <2>2. cr.deleting  BY <1>a, <1>d, <1>19 DEF DeleteRole, GrantStepInv
  <2> QED  BY <1>a, <1>d, <1>19, <2>1, <2>2, QuietGrant DEF DeleteRole, GrantStepInv, TypeOK
<1>20. CASE CallFails(w)
  <2>1. /\ OnlyMoves(w) /\ UNCHANGED <<cr, issued, cache, edits>>
        /\ \A v \in Workers \ {w} : fresh'[v] = fresh[v]
    BY <1>a, <1>20 DEF CallFails, OnlyMoves, TypeOK
  <2> QED  BY <1>a, <1>d, <1>20, <2>1, QuietGrant DEF CallFails, GrantStepInv, TypeOK
<1>21. CASE Crash(w)
  <2>1. /\ OnlyMoves(w) /\ UNCHANGED <<cr, issued, cache, edits>>
        /\ \A v \in Workers \ {w} : fresh'[v] = fresh[v]
    BY <1>a, <1>21 DEF Crash, End, OnlyMoves, TypeOK
  <2>2. pc'[w] = "idle" /\ obs'[w] = "none" /\ newRole'[w] = None
    BY <1>a, <1>21 DEF Crash, End, TypeOK
  <2> QED  BY <1>21, <2>1, <2>2, QuietGrant DEF Crash
<1> QED
  BY <1>1, <1>2, <1>3, <1>4, <1>5, <1>6, <1>7, <1>8, <1>9, <1>10, <1>11, <1>12, <1>13,
     <1>14, <1>15, <1>16, <1>17, <1>18, <1>19, <1>20, <1>21

-----------------------------------------------------------------------------
(* Steps that store a version or confirm a key.                            *)

\* A worker stores a truthful version with the buckets and the request for
\* deletion that are stored.
LEMMA StoreGrant ==
    ASSUME IInv, GrantInv, TypeOK', NEW w \in Workers, OnlyMoves(w),
           NEW new \in Resource, Store(w, new), new.exists, Truthful(new),
           new.deleting = cr.deleting, new.buckets = cr.buckets,
           UNCHANGED <<secret, keys, roles, policy, issued, blind, cache, edits>>,
           pc'[w] # "idle" => Truthful(mem'[w]) /\ mem'[w].buckets = cr.buckets,
           newRole'[w] \in {None, newRole[w]},
           pc'[w] \notin {"deleteKey", "deleteRole", "removeFinalizer"},
           obs'[w] = "gone" => obs[w] = "gone" /\ mem'[w].keySt = mem[w].keySt
    PROVE  GrantInv'
<1>a. TypeOK /\ GrantStepInv(w) /\ mem'[w] \in Resource  BY DEF IInv, GrantInv, TypeOK
<1>b. cr' = new  BY DEF Store
<1>1. Frame  BY <1>b DEF Frame
<1>2. \A x \in Resource : Truthful(x) => Truthful(x)'  BY <1>1, StaysTruthful
<1>3. Truthful(cr)'  BY <1>b, <1>2 DEF Truthful
<1>4. pc'[w] # "idle" => Truthful(mem[w])'  BY <1>a, <1>2 DEF Truthful
<1>5. GrantStepInv(w)'  BY <1>a, <1>b, <1>4 DEF GrantStepInv
<1>6. ~cr'.deleting => issued' \subseteq keys' /\ ~blind'  BY <1>b DEF GrantInv
<1>7. DeletedMeansReleased'  BY <1>b DEF DeletedMeansReleased
<1>8. secret' \in Keys => secret' \in issued'  BY DEF GrantInv
<1>9. \A v \in Workers \ {w} :
        /\ pc'[v] = pc[v] /\ mem'[v] = mem[v] /\ obs'[v] = obs[v]
        /\ newRole'[v] = newRole[v]
        /\ fresh'[v] => fresh[v] /\ cr'.buckets = cr.buckets
  BY <1>b DEF OnlyMoves, Store
<1>10. \A v \in {w} : GrantStepInv(v)'  BY <1>5
<1> QED  BY <1>1, <1>3, <1>6, <1>7, <1>8, <1>9, <1>10, GrantMove

\* An Update that is refused.
LEMMA RefusedGrant ==
    ASSUME IInv, GrantInv, TypeOK', NEW w \in Workers, pc[w] # "idle", Goto(w, "status"),
           UNCHANGED <<cr, secret, cloud, mem, fresh, cache, local, edits>>
    PROVE  GrantInv'
<1>1. TypeOK /\ GrantStepInv(w)  BY DEF IInv, GrantInv
<1>2. pc'[w] = "status" /\ OnlyMoves(w)  BY <1>1 DEF Goto, OnlyMoves, TypeOK, local
<1> QED  BY <1>1, <1>2, QuietGrant DEF GrantStepInv, cloud, local

\* The finalizer is added to a copy without a key.
LEMMA AddFinalizerGrant ==
    ASSUME IInv, GrantInv, TypeOK', NEW w \in Workers, AddFinalizer(w)
    PROVE  GrantInv'
<1>a. TypeOK /\ StepInv(w) /\ FreshInv(w) /\ GrantStepInv(w) /\ StoredInv
  BY DEF IInv, GrantInv
<1>b. mem[w] \in Resource /\ cr \in Resource  BY <1>a DEF TypeOK
<1>c. pc[w] = "finalizer" /\ Truthful(mem[w]) /\ Truthful(cr)
      /\ UNCHANGED <<secret, cloud, cache, local, edits>>
  BY <1>a DEF AddFinalizer, GrantStepInv, GrantInv
<1>1. CASE mem[w].fin
  <2>1. Goto(w, AfterFinalizer(w)) /\ UNCHANGED <<cr, fresh, synced, mem>>
    BY <1>1 DEF AddFinalizer, UpdateResource
  <2>2. pc'[w] \in {"pending", "update", "status"} /\ OnlyMoves(w)
    BY <1>a, <1>c, <2>1 DEF Goto, AfterFinalizer, OnlyMoves, TypeOK, local
  <2> QED  BY <1>a, <1>c, <2>1, <2>2, QuietGrant DEF GrantStepInv, cloud, local
<1>2. CASE ~mem[w].fin /\ fresh[w]
  <2> DEFINE m == [mem[w] EXCEPT !.fin = TRUE]
  <2>0. /\ m \in Resource /\ m.keyAnn = mem[w].keyAnn /\ m.keySt = mem[w].keySt
        /\ m.roleAnn = mem[w].roleAnn /\ m.roleSt = mem[w].roleSt
        /\ m.ready = mem[w].ready /\ m.buckets = mem[w].buckets
        /\ m.stBuckets = mem[w].stBuckets /\ m.deleting = mem[w].deleting
    BY <1>b DEF Resource
  <2> HIDE DEF m
  <2>1. m \in Resource /\ Truthful(m)  BY <1>c, <2>0 DEF Truthful
  <2>2. /\ Store(w, Merged(m))
        /\ mem' = [mem EXCEPT ![w] = Merged(m)]
        /\ Goto(w, AfterFinalizer(w))
    BY <1>2 DEF AddFinalizer, UpdateResource, m
  <2>3. Merged(m) \in Resource /\ Truthful(Merged(m))
    BY <1>a, <1>b, <1>c, <2>1, StoredTyping, TruthfulVersions
  <2>4. /\ Merged(m).exists = cr.exists /\ Merged(m).deleting = cr.deleting
        /\ Merged(m).buckets = cr.buckets
    BY <1>b, <2>1, MergedFields, MergedRest
  <2>5. cr.exists /\ ~cr.fin /\ cr.keySt = None /\ cr.keyAnn = None
    BY <1>a, <1>b, <1>c, <1>2, FieldTyping DEF FreshInv, StoredInv
  <2>6. obs[w] = "absent"
    BY <1>a, <1>c, <1>2, <2>5 DEF FreshInv, StepInv, SameIDs, IDsKnown
  <2>7. pc'[w] = "pending" /\ mem'[w] = Merged(m) /\ OnlyMoves(w)
    BY <1>a, <1>c, <2>2, <2>6 DEF Goto, AfterFinalizer, OnlyMoves, TypeOK, local
  <2> QED
    BY <1>c, <2>2, <2>3, <2>4, <2>5, <2>6, <2>7, StoreGrant DEF cloud, local
<1>3. CASE ~mem[w].fin /\ ~fresh[w]
  BY <1>c, <1>3, RefusedGrant DEF AddFinalizer, UpdateResource
<1> QED  BY <1>1, <1>2, <1>3, <1>b, FieldTyping

\* The pending annotation changes nothing a version tells.
LEMMA SetPendingGrant ==
    ASSUME IInv, GrantInv, TypeOK', NEW w \in Workers, SetPending(w)
    PROVE  GrantInv'
<1>a. TypeOK /\ StepInv(w) /\ FreshInv(w) /\ GrantStepInv(w)  BY DEF IInv, GrantInv
<1>b. mem[w] \in Resource /\ cr \in Resource  BY <1>a DEF TypeOK
<1>c. /\ pc[w] = "pending" /\ obs[w] = "absent" /\ Truthful(mem[w]) /\ Truthful(cr)
      /\ UNCHANGED <<secret, cloud, cache, local, edits>>
  BY <1>a DEF SetPending, StepInv, GrantStepInv, GrantInv
<1>1. CASE fresh[w]
  <2> DEFINE m == [mem[w] EXCEPT !.create = "pending"]
  <2>0. /\ m \in Resource /\ m.keyAnn = mem[w].keyAnn /\ m.keySt = mem[w].keySt
        /\ m.roleAnn = mem[w].roleAnn /\ m.roleSt = mem[w].roleSt
        /\ m.ready = mem[w].ready /\ m.buckets = mem[w].buckets
        /\ m.stBuckets = mem[w].stBuckets /\ m.deleting = mem[w].deleting
    BY <1>b DEF Resource
  <2> HIDE DEF m
  <2>1. m \in Resource /\ Truthful(m)  BY <1>c, <2>0 DEF Truthful
  <2>2. /\ Store(w, Merged(m))
        /\ mem' = [mem EXCEPT ![w] = Merged(m)]
        /\ Goto(w, "create")
    BY <1>1 DEF SetPending, UpdateResource, m
  <2>3. Merged(m) \in Resource /\ Truthful(Merged(m))
    BY <1>a, <1>b, <1>c, <2>1, StoredTyping, TruthfulVersions
  <2>4. /\ Merged(m).exists = cr.exists /\ Merged(m).deleting = cr.deleting
        /\ Merged(m).buckets = cr.buckets
    BY <1>b, <2>1, MergedFields, MergedRest
  <2>5. cr.exists  BY <1>a, <1>c, <1>1 DEF FreshInv
  <2>6. pc'[w] = "create" /\ mem'[w] = Merged(m) /\ OnlyMoves(w)
    BY <1>a, <1>c, <2>2 DEF Goto, OnlyMoves, TypeOK, local
  <2> QED  BY <1>c, <2>2, <2>3, <2>4, <2>5, <2>6, StoreGrant DEF cloud, local
<1>2. CASE ~fresh[w]
  BY <1>c, <1>2, RefusedGrant DEF SetPending, UpdateResource
<1> QED  BY <1>1, <1>2

\* The key that Exoscale confirms is in the copy, with the role that was made for it.
LEMMA CreateKeyGrant ==
    ASSUME IInv, GrantInv, TypeOK', NEW w \in Workers, CreateKey(w)
    PROVE  GrantInv'
<1>a. TypeOK /\ CreationInv(w) /\ GrantStepInv(w)  BY DEF IInv, GrantInv
<1>b. mem[w] \in Resource /\ mem'[w] \in Resource /\ cr \in Resource
      /\ newRole[w] \in Roles \cup {None}
  BY <1>a DEF TypeOK
<1>1. PICK k \in Keys \ issued :
        /\ keys' = keys \cup {k}
        /\ issued' = issued \cup {k}
        /\ mem' = [mem EXCEPT ![w].keyAnn = k, ![w].roleAnn = newRole[w]]
  BY IssuedIDs DEF CreateKey
<1>2. mem'[w] = [mem[w] EXCEPT !.keyAnn = k, !.roleAnn = newRole[w]]
  BY <1>a, <1>1 DEF TypeOK
<1>3. /\ mem'[w].keyAnn = k /\ mem'[w].roleAnn = newRole[w]
      /\ mem'[w].keySt = mem[w].keySt /\ mem'[w].roleSt = mem[w].roleSt
      /\ mem'[w].ready = mem[w].ready /\ mem'[w].buckets = mem[w].buckets
      /\ mem'[w].stBuckets = mem[w].stBuckets /\ mem'[w].deleting = mem[w].deleting
  BY <1>b, <1>2 DEF Resource
<1>4. /\ pc[w] = "createKey" /\ pc'[w] = "writeSecret" /\ OnlyMoves(w)
      /\ UNCHANGED <<cr, secret, roles, policy, blind, fresh, cache, newRole, obs, edits>>
  BY <1>a, <1>1 DEF CreateKey, Goto, OnlyMoves, TypeOK, local
<1>5. cr.exists /\ newRole[w] # None /\ Truthful(mem[w]) /\ Truthful(cr)
  BY <1>a, <1>4 DEF CreationInv, InCreation, GrantStepInv, GrantInv
<1>6. Frame  BY <1>1, <1>4 DEF Frame
<1>7. Truthful(cr)'
  <2>1. \A x \in Resource : Truthful(x) => Truthful(x)'  BY <1>6, StaysTruthful
  <2> QED  BY <1>b, <1>4, <1>5, <2>1 DEF Truthful
<1>8. Truthful(mem[w])'
  <2>1. /\ ~cr.deleting => newRole[w] \in roles
        /\ edits = 0 => policy[newRole[w]] = cr.buckets
    BY <1>a, <1>5 DEF GrantStepInv
  <2>2. {mem'[w].keyAnn, mem'[w].keySt} \subseteq issued' \cup {None}
    BY <1>1, <1>3, <1>5 DEF Truthful
  <2>3. /\ mem'[w].ready = "Available" => mem'[w].keySt # None
        /\ mem'[w].stBuckets # None =>
              mem'[w].keySt # None /\ mem'[w].stBuckets = mem'[w].buckets
        /\ mem'[w].deleting => cr'.deleting
    BY <1>3, <1>4, <1>5 DEF Truthful
  <2>4. ~cr'.deleting => {mem'[w].roleAnn, mem'[w].roleSt} \subseteq roles' \cup {None}
    BY <1>3, <1>4, <1>5, <2>1 DEF Truthful
  <2>5. ASSUME edits' = 0
        PROVE  /\ mem'[w].buckets = cr'.buckets
               /\ \A r \in {mem'[w].roleAnn, mem'[w].roleSt} \ {None} :
                     policy'[r] = cr'.buckets
    BY <1>3, <1>4, <1>5, <2>1, <2>5 DEF Truthful
  <2> QED  BY <2>2, <2>3, <2>4, <2>5 DEF Truthful
<1>9. obs'[w] = "gone" => mem'[w].keySt # None /\ (blind' \/ mem'[w].keySt \notin keys')
  <2>1. mem[w].keySt \in issued \cup {None}  BY <1>5 DEF Truthful
  <2> QED  BY <1>a, <1>1, <1>3, <1>4, <2>1 DEF GrantStepInv
<1>10. \A v \in {w} : GrantStepInv(v)'
  BY <1>a, <1>3, <1>4, <1>8, <1>9 DEF GrantStepInv
<1>11. /\ secret' \in Keys => secret' \in issued'
       /\ ~cr'.deleting => issued' \subseteq keys' /\ ~blind'
  BY <1>1, <1>4 DEF GrantInv
<1>12. DeletedMeansReleased'  BY <1>4, <1>5 DEF DeletedMeansReleased
<1>13. \A v \in Workers \ {w} :
         /\ pc'[v] = pc[v] /\ mem'[v] = mem[v] /\ obs'[v] = obs[v]
         /\ newRole'[v] = newRole[v]
         /\ fresh'[v] => fresh[v] /\ cr'.buckets = cr.buckets
  BY <1>4 DEF OnlyMoves
<1>14. keys' \cap issued \subseteq keys /\ (blind => blind') /\ UNCHANGED cache
  BY <1>1, <1>4
<1> QED  BY <1>6, <1>7, <1>10, <1>11, <1>12, <1>13, <1>14, GrantMove

\* The annotations of a truthful copy are stored.
LEMMA CriticalGrant ==
    ASSUME IInv, GrantInv, TypeOK', NEW w \in Workers, CriticalAnnotations(w)
    PROVE  GrantInv'
<1>a. TypeOK /\ CreationInv(w) /\ GrantStepInv(w)  BY DEF IInv, GrantInv
<1>b. mem[w] \in Resource /\ cr \in Resource  BY <1>a DEF TypeOK
<1>c. /\ pc[w] = "critical" /\ cr.exists /\ Truthful(mem[w]) /\ Truthful(cr)
      /\ UNCHANGED <<secret, cloud, cache, local, edits>>
      /\ mem[w].keySt = cr.keySt
  BY <1>a DEF CriticalAnnotations, GrantStepInv, GrantInv, CreationInv, InCreation
<1> DEFINE m == [mem[w] EXCEPT !.fin = cr.fin]
<1>1. /\ m \in Resource /\ m.keyAnn = mem[w].keyAnn /\ m.keySt = mem[w].keySt
      /\ m.roleAnn = mem[w].roleAnn /\ m.roleSt = mem[w].roleSt
      /\ m.ready = mem[w].ready /\ m.buckets = mem[w].buckets
      /\ m.stBuckets = mem[w].stBuckets /\ m.deleting = mem[w].deleting
  BY <1>b DEF Resource
<1> HIDE DEF m
<1>2. Truthful(m)  BY <1>c, <1>1 DEF Truthful
<1> DEFINE new == Merged(m)
<1>3. new \in Resource /\ Truthful(new)
  BY <1>a, <1>b, <1>c, <1>1, <1>2, StoredTyping, TruthfulVersions
<1>4. /\ new.exists = cr.exists /\ new.deleting = cr.deleting /\ new.buckets = cr.buckets
      /\ new.keySt = cr.keySt
  BY <1>b, <1>1, MergedFields, MergedRest
<1> HIDE DEF new
<1>5. /\ Store(w, new)
      /\ mem' = [mem EXCEPT ![w] = [new EXCEPT !.ready = "Creating"]]
      /\ Goto(w, IF mem[w].create = "succeeded" THEN "publishCreated" ELSE "status")
  BY DEF CriticalAnnotations, m, new
<1>6. /\ mem'[w] = [new EXCEPT !.ready = "Creating"]
      /\ pc'[w] \in {"publishCreated", "status"}
      /\ OnlyMoves(w)
  BY <1>a, <1>c, <1>5 DEF Goto, OnlyMoves, TypeOK, local
<1>7. Truthful(mem'[w])
  <2>1. Truthful([new EXCEPT !.ready = "Creating"])  BY <1>a, <1>3, TruthfulCopies
  <2> QED  BY <1>6, <2>1
<1>8. mem'[w].buckets = cr.buckets /\ mem'[w].keySt = mem[w].keySt
  BY <1>c, <1>3, <1>4, <1>6 DEF Resource
<1> QED  BY <1>c, <1>3, <1>4, <1>5, <1>6, <1>7, <1>8, StoreGrant DEF cloud, local

\* When the finalizer goes, Observe has found no key to release, or seen that the
\* key is gone: the resource leaves no confirmed key.
LEMMA NothingLeft ==
    ASSUME IInv, GrantInv, NEW w \in Workers, pc[w] = "removeFinalizer", fresh[w],
           ~Legacy, ~blind
    PROVE  issued \cap keys = {}
<1>a. /\ TypeOK /\ StepInv(w) /\ FreshInv(w) /\ GrantStepInv(w) /\ StoredInv
      /\ KeyRecorded /\ OneKey
  BY DEF IInv, GrantInv
<1>1. cr.exists /\ SameIDs(mem[w]) /\ cr.create # "pending"
  BY <1>a DEF FreshInv, StepInv, BeforePending
<1>2. issued \subseteq {cr.keyAnn, cr.keySt}  BY <1>a, <1>1 DEF KeyRecorded
<1>3. CASE obs[w] = "absent"
  <2>1. cr.keyAnn = None  BY <1>a, <1>3 DEF FreshInv, BeforePending
  <2>2. cr.keySt = None  BY <1>a, <2>1 DEF StoredInv, Legacy
  <2> QED  BY <1>a, <1>2, <2>1, <2>2 DEF TypeOK
<1>4. CASE obs[w] = "gone"
  <2>1. mem[w].keySt # None /\ mem[w].keySt \notin keys  BY <1>a, <1>4 DEF GrantStepInv
  <2>2. mem[w].keySt \in issued  BY <1>a, <2>1 DEF GrantStepInv, Truthful
  <2> QED  BY <1>a, <2>1, <2>2 DEF OneKey
<1> QED  BY <1>a, <1>3, <1>4 DEF GrantStepInv

\* The resource goes, or the update that would remove its finalizer is refused.
LEMMA RemoveFinalizerGrant ==
    ASSUME IInv, GrantInv, TypeOK', NEW w \in Workers, RemoveFinalizer(w)
    PROVE  GrantInv'
<1>a. TypeOK /\ GrantStepInv(w) /\ cr \in Resource /\ Truthful(cr)
  BY DEF IInv, GrantInv, TypeOK
<1>b. pc[w] = "removeFinalizer" /\ UNCHANGED <<secret, cloud, cache, edits>>
  BY DEF RemoveFinalizer
<1>1. CASE fresh[w]
  <2>1. /\ cr' = [cr EXCEPT !.exists = FALSE, !.fin = FALSE]
        /\ fresh' = [v \in Workers |-> FALSE]
        /\ End(w)
    BY <1>1 DEF RemoveFinalizer
  <2>2. /\ cr'.keyAnn = cr.keyAnn /\ cr'.roleAnn = cr.roleAnn
        /\ cr'.keySt = cr.keySt /\ cr'.roleSt = cr.roleSt
        /\ cr'.ready = cr.ready /\ cr'.buckets = cr.buckets
        /\ cr'.stBuckets = cr.stBuckets /\ cr'.deleting = cr.deleting
    BY <1>a, <2>1 DEF Resource
  <2>3. Frame  BY <1>b, <2>2 DEF Frame, cloud
  <2>4. Truthful(cr)'  BY <1>a, <1>b, <2>2 DEF Truthful, cloud
  <2>5. pc'[w] = "idle" /\ obs'[w] = "none" /\ newRole'[w] = None
    BY <1>a, <2>1 DEF End, TypeOK
  <2>6. \A v \in {w} : GrantStepInv(v)'  BY <2>5 DEF GrantStepInv
  <2>7. DeletedMeansReleased'
    BY <1>1, <1>b, <2>2, NothingLeft DEF DeletedMeansReleased, Legacy, cloud
  <2>8. \A v \in Workers \ {w} :
          /\ pc'[v] = pc[v] /\ mem'[v] = mem[v] /\ obs'[v] = obs[v]
          /\ newRole'[v] = newRole[v]
          /\ fresh'[v] => fresh[v] /\ cr'.buckets = cr.buckets
    BY <1>a, <2>1 DEF End, TypeOK
  <2>9. /\ secret' \in Keys => secret' \in issued'
        /\ ~cr'.deleting => issued' \subseteq keys' /\ ~blind'
    BY <1>b, <2>2 DEF GrantInv, cloud
  <2>10. keys' \cap issued \subseteq keys /\ (blind => blind') /\ UNCHANGED cache
    BY <1>b DEF cloud
  <2> QED  BY <2>3, <2>4, <2>6, <2>7, <2>8, <2>9, <2>10, GrantMove
<1>2. CASE ~fresh[w]
  BY <1>b, <1>2, RefusedGrant DEF RemoveFinalizer
<1> QED  BY <1>1, <1>2

\* The status that is stored belongs to the spec that is stored.
LEMMA WriteStatusGrant ==
    ASSUME IInv, GrantInv, TypeOK', NEW w \in Workers, WriteStatus(w)
    PROVE  GrantInv'
<1>a. TypeOK /\ FreshInv(w) /\ GrantStepInv(w)  BY DEF IInv, GrantInv
<1>b. mem[w] \in Resource /\ cr \in Resource  BY <1>a DEF TypeOK
<1>c. /\ pc[w] = "status" /\ Truthful(mem[w]) /\ Truthful(cr)
      /\ UNCHANGED <<secret, cloud, cache, edits>>
  BY <1>a DEF WriteStatus, GrantStepInv, GrantInv
<1>d. pc'[w] = "idle" /\ obs'[w] = "none" /\ newRole'[w] = None /\ OnlyMoves(w)
  BY <1>a DEF WriteStatus, End, OnlyMoves, TypeOK
<1>1. CASE fresh[w]
  <2> DEFINE new == MergedStatus(mem[w])
  <2>1. cr.exists /\ mem[w].buckets = cr.buckets
    BY <1>a, <1>c, <1>1 DEF FreshInv, GrantStepInv
  <2>2. new \in Resource /\ Truthful(new)
    BY <1>a, <1>b, <1>c, <2>1, StoredTyping, TruthfulVersions
  <2>3. new.exists = cr.exists /\ new.deleting = cr.deleting /\ new.buckets = cr.buckets
    BY <1>b, MergedFields, MergedRest
  <2>4. Store(w, new)  BY <1>1 DEF WriteStatus
  <2> HIDE DEF new
  <2> QED  BY <1>c, <1>d, <2>1, <2>2, <2>3, <2>4, StoreGrant DEF cloud
<1>2. CASE ~fresh[w]
  <2>1. UNCHANGED <<cr, fresh, synced>>  BY <1>2 DEF WriteStatus
  <2> QED  BY <1>c, <1>d, <2>1, QuietGrant DEF cloud
<1> QED  BY <1>1, <1>2

\* Users: a resource without a finalizer has no key, and an edit needs a status
\* without one.
LEMMA UserGrant ==
    ASSUME IInv, GrantInv, TypeOK', UserDelete \/ UserEdit \/ UserSecret
    PROVE  GrantInv'
<1>a. /\ TypeOK /\ StoredInv /\ KeyRecorded /\ cr \in Resource /\ Truthful(cr)
      /\ edits \in Nat
  BY DEF IInv, GrantInv, TypeOK
<1>1. UNCHANGED <<cloud, pc, mem, cache, local>>
  BY DEF UserDelete, UserEdit, UserSecret, StoreByUser
<1>2. /\ cr'.keyAnn = cr.keyAnn /\ cr'.roleAnn = cr.roleAnn
      /\ cr'.keySt = cr.keySt /\ cr'.roleSt = cr.roleSt
      /\ cr'.ready = cr.ready /\ cr'.stBuckets = cr.stBuckets
      /\ cr.deleting => cr'.deleting
      /\ cr'.buckets = cr.buckets \/ cr.keySt = None
      /\ edits' = 0 => edits = 0 /\ cr'.buckets = cr.buckets
      /\ ~cr'.exists => ~cr.exists \/ ~cr.fin
      /\ secret' \in Keys => secret' = secret
      /\ \A v \in Workers : fresh'[v] => fresh[v] /\ cr' = cr
  <2>1. CASE UserDelete
    BY <1>a, <2>1 DEF UserDelete, StoreByUser, Resource
  <2>2. CASE UserEdit
    <3>1. PICK b \in BucketLists \ {cr.buckets} :
            ValidateUpdate(cr, b) /\ StoreByUser([cr EXCEPT !.buckets = b])
      BY <2>2 DEF UserEdit
    <3>2. cr.keySt = None  BY <3>1 DEF ValidateUpdate
    <3>3. edits' # 0 /\ UNCHANGED secret /\ cr.exists  BY <1>a, <2>2 DEF UserEdit, Edit
    <3>4. cr' = [cr EXCEPT !.buckets = b] /\ \A v \in Workers : ~fresh'[v]
      BY <3>1 DEF StoreByUser
    <3> QED  BY <1>a, <3>2, <3>3, <3>4 DEF Resource
  <2>3. CASE UserSecret
    BY <1>a, <2>3 DEF UserSecret, Edit
  <2> QED  BY <2>1, <2>2, <2>3
<1>3. Frame  BY <1>1, <1>2 DEF Frame, cloud
<1>4. Truthful(cr)'
  BY <1>a, <1>1, <1>2 DEF Truthful, cloud
<1>5. ~cr.fin /\ cr.exists => issued = {}
  BY <1>a DEF StoredInv, KeyRecorded, TypeOK
<1>6. DeletedMeansReleased'
  <2>1. CASE ~cr.exists  BY <1>1, <1>2, <2>1 DEF GrantInv, DeletedMeansReleased, Legacy, cloud
  <2>2. CASE cr.exists  BY <1>1, <1>2, <1>5, <2>2 DEF DeletedMeansReleased, cloud
  <2> QED  BY <2>1, <2>2
<1>7. /\ secret' \in Keys => secret' \in issued'
      /\ ~cr'.deleting => issued' \subseteq keys' /\ ~blind'
  BY <1>1, <1>2 DEF GrantInv, cloud
<1>8. \A v \in Workers \ {} :
        /\ pc'[v] = pc[v] /\ mem'[v] = mem[v] /\ obs'[v] = obs[v]
        /\ newRole'[v] = newRole[v]
        /\ fresh'[v] => fresh[v] /\ cr'.buckets = cr.buckets
  BY <1>1, <1>2 DEF local
<1>9. keys' \cap issued \subseteq keys /\ (blind => blind') /\ UNCHANGED cache
  BY <1>1 DEF cloud
<1>10. \A v \in {} : GrantStepInv(v)'  OBVIOUS
<1> QED  BY <1>3, <1>4, <1>6, <1>7, <1>8, <1>9, <1>10, GrantMove

-----------------------------------------------------------------------------
(* The invariant.                                                          *)

\* A resource that is new, or of an older release, tells the truth.
LEMMA InitGrant == Init => GrantInv
<1> SUFFICES ASSUME Init PROVE GrantInv
  OBVIOUS
<1>a. TypeOK  BY InitInv DEF IInv
<1>1. /\ cr.keyAnn = None /\ cr.roleAnn = None /\ cr.roleSt = None
      /\ cr.exists /\ ~cr.deleting /\ cr.buckets # NoBuckets
      /\ {cr.keySt} \subseteq issued \cup {None} /\ issued \subseteq keys
      /\ cr.ready = "Available" => cr.keySt # None
      /\ cr.stBuckets # None => cr.keySt # None /\ cr.stBuckets = cr.buckets
      /\ secret \in Keys => secret \in issued
  <2>1. CASE InitNew
    BY <2>1 DEF InitNew, NewResource, ValidateCreate
  <2>2. CASE InitLegacy
    <3>1. PICK b \in BucketLists, k \in Keys :
            /\ cr = LegacyResource(b, k) /\ secret = k /\ keys = {k} /\ issued = {k}
            /\ b # NoBuckets
      <4>1. Keys \in (SUBSET Keys) \cup (SUBSET Roles)  OBVIOUS
      <4>2. Issue(Keys) \subseteq Keys  BY <4>1, IssueAssumption, Zenon
      <4> QED  BY <2>2, <4>2 DEF InitLegacy, ValidateCreate
    <3>2. cr = [exists |-> TRUE, deleting |-> FALSE, fin |-> TRUE,
                create |-> "succeeded", keyAnn |-> None, roleAnn |-> None,
                keySt |-> k, roleSt |-> None, ready |-> "Available",
                buckets |-> b, stBuckets |-> b]
      BY <3>1 DEF LegacyResource, NewResource
    <3> QED  BY <3>1, <3>2
  <2> QED  BY <2>1, <2>2 DEF Init
<1>2. Truthful(cr)  BY <1>1 DEF Truthful
<1>3. ASSUME NEW w \in Workers  PROVE Truthful(cache[w]) /\ GrantStepInv(w)
  <2>1. pc[w] = "idle" /\ obs[w] = "none" /\ newRole[w] = None /\ cache[w] = cr
    BY DEF Init
  <2> QED  BY <1>2, <2>1 DEF GrantStepInv
<1>4. ~blind  BY DEF Init
<1> QED  BY <1>1, <1>2, <1>3, <1>4 DEF GrantInv, DeletedMeansReleased

\* Every step of a worker, of the watch and of a user keeps the second invariant.
LEMMA NextGrant == IInv /\ GrantInv /\ [Next]_vars => GrantInv'
<1> SUFFICES ASSUME IInv, GrantInv, [Next]_vars PROVE GrantInv'
  OBVIOUS
<1>t. TypeOK'  BY NextTyping DEF IInv
<1>1. ASSUME NEW w \in Workers, Reconcile(w)  PROVE GrantInv'
  BY <1>t, <1>1, QuietGrantActions, AddFinalizerGrant, SetPendingGrant, CreateKeyGrant,
     CriticalGrant, RemoveFinalizerGrant, WriteStatusGrant DEF Reconcile
<1>2. ASSUME NEW w \in Workers, Crash(w)  PROVE GrantInv'
  BY <1>t, <1>2, QuietGrantActions
<1>3. ASSUME NEW w \in Workers, CacheSync(w)  PROVE GrantInv'
  <2>1. /\ cache' = [cache EXCEPT ![w] = cr]
        /\ UNCHANGED <<cr, secret, cloud, pc, mem, fresh, local, edits>>
    BY <1>3 DEF CacheSync
  <2>2. TypeOK /\ Truthful(cr)  BY DEF IInv, GrantInv
  <2>3. ASSUME NEW v \in Workers  PROVE Truthful(cache[v])'
    <3>1. cache'[v] = cr \/ cache'[v] = cache[v]  BY <2>1, <2>2 DEF TypeOK
    <3>2. Truthful(cache'[v])
      <4>1. CASE cache'[v] = cr  BY <2>2, <4>1
      <4>2. CASE cache'[v] = cache[v]  BY <4>2 DEF GrantInv
      <4> QED  BY <3>1, <4>1, <4>2
    <3> QED  BY <2>1, <3>2 DEF Truthful, cloud
  <2>4. Truthful(cr)'  BY <2>1, <2>2 DEF Truthful, cloud
  <2>5. ASSUME NEW v \in Workers  PROVE GrantStepInv(v)'
    BY <2>1 DEF GrantInv, GrantStepInv, Truthful, cloud, local
  <2> QED
    BY <2>1, <2>3, <2>4, <2>5 DEF GrantInv, DeletedMeansReleased, Legacy, cloud
<1>4. CASE UserDelete \/ UserEdit \/ UserSecret
  BY <1>t, <1>4, UserGrant
<1>5. CASE UNCHANGED vars
  <2>1. UNCHANGED <<cr, secret, cloud, pc, mem, fresh, cache, local, edits>>
    BY <1>5 DEF vars
  <2>2. Truthful(cr)' /\ \A v \in Workers : Truthful(cache[v])'
    BY <2>1 DEF GrantInv, Truthful, cloud
  <2>3. ASSUME NEW v \in Workers  PROVE GrantStepInv(v)'
    BY <2>1 DEF GrantInv, GrantStepInv, Truthful, cloud, local
  <2> QED
    BY <2>1, <2>2, <2>3 DEF GrantInv, DeletedMeansReleased, Legacy, cloud
<1> QED  BY <1>1, <1>2, <1>3, <1>4, <1>5 DEF Next

\* Every version of the resource that is stored, cached or worked on is truthful.
THEOREM GrantInvariance == Spec => []GrantInv
<1>1. Init => GrantInv  BY InitGrant
<1>2. IInv /\ GrantInv /\ [Next]_vars => GrantInv'  BY NextGrant
<1> QED  BY <1>1, <1>2, Invariance, PTL DEF Spec

\* The secret never holds the credentials of a key other than the one of the status.
THEOREM SecretMatchesKey == Spec => []SecretOfKey
<1>1. IInv /\ GrantInv => SecretOfKey
  BY DEF IInv, OneKey, GrantInv, Truthful, SecretOfKey
<1> QED  BY <1>1, Invariance, GrantInvariance, PTL

\* Removing the finalizer is the last thing that happens to a key of this release.
THEOREM KeyReleasedBeforeGone == Spec => []DeletedMeansReleased
<1>1. GrantInv => DeletedMeansReleased  BY DEF GrantInv
<1> QED  BY <1>1, GrantInvariance, PTL

\* No outdated copy makes a worker delete a key, and Ready needs one.
THEOREM ReadyHasKey == Spec => []ReadyMeansUsable
<1>1. GrantInv => ReadyMeansUsable
  BY DEF GrantInv, Truthful, ReadyMeansUsable
<1> QED  BY <1>1, GrantInvariance, PTL

\* The status shows the buckets of the spec, and the role was made for them.
THEOREM StatusShowsBuckets == Spec => []BucketsGranted
<1>1. GrantInv => BucketsGranted
  BY DEF GrantInv, Truthful, BucketsGranted
<1> QED  BY <1>1, GrantInvariance, PTL
=============================================================================
