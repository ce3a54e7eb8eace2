---------------------------- MODULE IAMKeyProofs ----------------------------
(***************************************************************************)
(* Proofs about IAMKey for any workers, keys, roles and bounds.            *)
(***************************************************************************)
EXTENDS IAMKeyInv, TLAPS

USE IDsAssumption, BoundsAssumption, BucketsAssumption

\* Exoscale issues IDs of roles and keys, and none that it has confirmed before.
LEMMA IssuedIDs == NextRoles \subseteq Roles /\ NextKeys \subseteq Keys \ issued
<1>1. ASSUME NEW S \in (SUBSET Keys) \cup (SUBSET Roles)  PROVE Issue(S) \subseteq S
  BY IssueAssumption
<1> DEFINE R == {x \in Roles : policy[x] = None}
           K == {x \in Keys \ issued : roleOf[x] = None}
<1>2. R \in SUBSET Roles /\ K \in SUBSET Keys /\ K \subseteq Keys \ issued  OBVIOUS
<1>3. NextRoles = Issue(R) /\ NextKeys = Issue(K)  BY DEF NextRoles, NextKeys
<1> HIDE DEF R, K
<1>4. R \in (SUBSET Keys) \cup (SUBSET Roles) /\ K \in (SUBSET Keys) \cup (SUBSET Roles)
  BY <1>2
<1>5. Issue(R) \subseteq R  BY <1>1, <1>4, Zenon
<1>6. Issue(K) \subseteq K  BY <1>1, <1>4, Zenon
<1> QED  BY <1>2, <1>3, <1>5, <1>6

-----------------------------------------------------------------------------
(* Resources.                                                              *)

\* The fields of a resource have the types the code gives them.
LEMMA FieldTyping ==
    ASSUME NEW m \in Resource
    PROVE  /\ m.exists \in BOOLEAN /\ m.deleting \in BOOLEAN /\ m.fin \in BOOLEAN
           /\ m.create \in {"none", "pending", "succeeded", "failed"}
           /\ m.keyAnn \in Keys \cup {None} /\ m.keySt \in Keys \cup {None}
           /\ m.roleAnn \in Roles \cup {None} /\ m.roleSt \in Roles \cup {None}
           /\ m.buckets \in BucketLists
BY DEF Resource

\* The changes the steps make to a copy leave a resource.
LEMMA CopyTyping ==
    ASSUME NEW m \in Resource
    PROVE  /\ Resolved(m) \in Resource
           /\ \A s \in {"Creating", "Updating", "Deleting"} :
                [m EXCEPT !.ready = s] \in Resource
           /\ [m EXCEPT !.ready = "Available", !.stBuckets = m.buckets] \in Resource
           /\ [m EXCEPT !.stBuckets = m.buckets] \in Resource
           /\ \A o \in {"succeeded", "failed"} :
                [m EXCEPT !.ready = "Creating", !.create = o] \in Resource
           /\ \A k \in Keys, r \in Roles \cup {None} :
                [m EXCEPT !.keyAnn = k, !.roleAnn = r] \in Resource
           /\ \A f \in BOOLEAN : [m EXCEPT !.fin = f] \in Resource
           /\ [m EXCEPT !.create = "pending"] \in Resource
<1>1. ResolveRole(m) \in Resource
  <2>1. [m EXCEPT !.roleSt = m.roleAnn, !.roleAnn = None] \in Resource
    BY DEF Resource
  <2> QED  BY <2>1 DEF ResolveRole
<1>2. ASSUME NEW x \in Resource  PROVE ResolveKey(x) \in Resource
  <2>1. [x EXCEPT !.keySt = x.keyAnn, !.keyAnn = None] \in Resource
    BY DEF Resource
  <2> QED  BY <2>1 DEF ResolveKey
<1>3. Resolved(m) \in Resource  BY <1>1, <1>2 DEF Resolved
<1>4. \A s \in {"Creating", "Updating", "Deleting"} : [m EXCEPT !.ready = s] \in Resource
  BY DEF Resource
<1>5. /\ [m EXCEPT !.ready = "Available", !.stBuckets = m.buckets] \in Resource
      /\ [m EXCEPT !.stBuckets = m.buckets] \in Resource
  BY DEF Resource
<1>6. \A o \in {"succeeded", "failed"} :
        [m EXCEPT !.ready = "Creating", !.create = o] \in Resource
  BY DEF Resource
<1>7. \A k \in Keys, r \in Roles \cup {None} :
        [m EXCEPT !.keyAnn = k, !.roleAnn = r] \in Resource
  BY DEF Resource
<1>8. \A f \in BOOLEAN : [m EXCEPT !.fin = f] \in Resource
  BY DEF Resource
<1>9. [m EXCEPT !.create = "pending"] \in Resource
  BY DEF Resource
<1> QED  BY <1>3, <1>4, <1>5, <1>6, <1>7, <1>8, <1>9

\* The versions that are stored are resources, and so is the empty copy.
LEMMA StoredTyping ==
    ASSUME cr \in Resource
    PROVE  /\ \A m \in Resource : Merged(m) \in Resource /\ MergedStatus(m) \in Resource
           /\ [cr EXCEPT !.exists = FALSE, !.fin = FALSE] \in Resource
           /\ [cr EXCEPT !.exists = FALSE] \in Resource
           /\ [cr EXCEPT !.deleting = TRUE] \in Resource
           /\ \A b \in BucketLists : [cr EXCEPT !.buckets = b] \in Resource
           /\ NewResource(NoBuckets) \in Resource
<1>1. ASSUME NEW m \in Resource  PROVE Merged(m) \in Resource
  BY DEF Merged, Resource
<1>2. ASSUME NEW m \in Resource  PROVE MergedStatus(m) \in Resource
  BY DEF MergedStatus, Resource
<1>3. [cr EXCEPT !.exists = FALSE, !.fin = FALSE] \in Resource
  BY DEF Resource
<1>4. [cr EXCEPT !.exists = FALSE] \in Resource /\ [cr EXCEPT !.deleting = TRUE] \in Resource
  BY DEF Resource
<1>5. \A b \in BucketLists : [cr EXCEPT !.buckets = b] \in Resource
  BY DEF Resource
<1>6. NewResource(NoBuckets) \in Resource
  BY DEF NewResource, Resource
<1> QED  BY <1>1, <1>2, <1>3, <1>4, <1>5, <1>6

\* Resolving moves IDs from the annotations to the status and nothing else.
LEMMA ResolvedFields ==
    ASSUME NEW m \in Resource
    PROVE  /\ Resolved(m).fin = m.fin
           /\ Resolved(m).create = m.create
           /\ \/ Resolved(m).keySt = m.keySt
              \/ m.keySt = None /\ Resolved(m).keySt = m.keyAnn
           /\ \/ Resolved(m).roleSt = m.roleSt
              \/ m.roleSt = None /\ Resolved(m).roleSt = m.roleAnn
           /\ m.keyAnn = None => Resolved(m).keyAnn = None
           /\ m.roleAnn = None => Resolved(m).roleAnn = None
           /\ m.keyAnn # None /\ m.roleAnn # None => IDsKnown(Resolved(m))
<1> DEFINE r == ResolveRole(m)
<1>1. /\ r.fin = m.fin /\ r.create = m.create
      /\ r.keySt = m.keySt /\ r.keyAnn = m.keyAnn
      /\ r.roleSt = m.roleSt \/ (m.roleSt = None /\ r.roleSt = m.roleAnn)
      /\ m.roleAnn = None => r.roleAnn = None
      /\ m.roleAnn # None => r.roleSt # None
  BY DEF ResolveRole, Resource
<1>r. r \in Resource
  <2>1. [m EXCEPT !.roleSt = m.roleAnn, !.roleAnn = None] \in Resource
    BY DEF Resource
  <2> QED  BY <2>1 DEF ResolveRole
<1> HIDE DEF r
<1>2. /\ ResolveKey(r).fin = r.fin /\ ResolveKey(r).create = r.create
      /\ ResolveKey(r).roleSt = r.roleSt /\ ResolveKey(r).roleAnn = r.roleAnn
      /\ \/ ResolveKey(r).keySt = r.keySt
         \/ r.keySt = None /\ ResolveKey(r).keySt = r.keyAnn
      /\ r.keyAnn = None => ResolveKey(r).keyAnn = None
      /\ r.keyAnn # None /\ r.roleSt # None => ResolveKey(r).keySt # None
  BY <1>r DEF ResolveKey, Resource
<1>3. Resolved(m) = ResolveKey(r)  BY DEF Resolved, r
<1> QED  BY <1>1, <1>2, <1>3 DEF IDsKnown

\* The copy after Create: the outcome is noted, the IDs are as they were.
LEMMA ReturnsFields ==
    ASSUME TypeOK, NEW w \in Workers, NEW o \in {"succeeded", "failed"},
           CreateReturns(w, o)
    PROVE  /\ pc'[w] = "critical"
           /\ mem'[w].create = o
           /\ mem'[w].fin = mem[w].fin
           /\ mem'[w].keySt = mem[w].keySt /\ mem'[w].keyAnn = mem[w].keyAnn
           /\ mem'[w].roleSt = mem[w].roleSt /\ mem'[w].roleAnn = mem[w].roleAnn
<1>1. mem'[w] = [mem[w] EXCEPT !.ready = "Creating", !.create = o]
  BY DEF TypeOK, CreateReturns
<1>2. mem[w] \in Resource  BY DEF TypeOK
<1> QED  BY <1>1, <1>2 DEF TypeOK, CreateReturns, Goto, Resource

\* The fields of the versions that Update and Status().Update store.
LEMMA MergedFields ==
    ASSUME cr \in Resource, NEW m \in Resource
    PROVE  /\ Merged(m).exists = cr.exists /\ Merged(m).fin = m.fin
           /\ Merged(m).create = m.create
           /\ Merged(m).keyAnn = m.keyAnn /\ Merged(m).roleAnn = m.roleAnn
           /\ Merged(m).keySt = cr.keySt /\ Merged(m).roleSt = cr.roleSt
           /\ MergedStatus(m).exists = cr.exists /\ MergedStatus(m).fin = cr.fin
           /\ MergedStatus(m).create = cr.create
           /\ MergedStatus(m).keyAnn = cr.keyAnn /\ MergedStatus(m).roleAnn = cr.roleAnn
           /\ MergedStatus(m).keySt = m.keySt /\ MergedStatus(m).roleSt = m.roleSt
<1>1. /\ Merged(m).exists = cr.exists /\ Merged(m).fin = m.fin
      /\ Merged(m).create = m.create
      /\ Merged(m).keyAnn = m.keyAnn /\ Merged(m).roleAnn = m.roleAnn
      /\ Merged(m).keySt = cr.keySt /\ Merged(m).roleSt = cr.roleSt
  BY DEF Merged, Resource
<1>2. /\ MergedStatus(m).exists = cr.exists /\ MergedStatus(m).fin = cr.fin
      /\ MergedStatus(m).create = cr.create
      /\ MergedStatus(m).keyAnn = cr.keyAnn /\ MergedStatus(m).roleAnn = cr.roleAnn
      /\ MergedStatus(m).keySt = m.keySt /\ MergedStatus(m).roleSt = m.roleSt
  BY DEF MergedStatus, Resource
<1> QED  BY <1>1, <1>2

-----------------------------------------------------------------------------
(* Type correctness.                                                       *)

\* Ending a reconcile resets the variables of the worker to values of their
\* types.
LEMMA EndTyping ==
    ASSUME TypeOK, NEW w \in Workers, End(w)
    PROVE  /\ pc' \in [Workers -> Steps]
           /\ mem' \in [Workers -> Resource]
           /\ obs' \in [Workers -> {"none", "absent", "gone", "stale", "current"}]
           /\ newRole' \in [Workers -> Roles \cup {None}]
           /\ tries' \in [Workers -> 0 .. MaxTries]
BY StoredTyping DEF TypeOK, End, Steps

\* Storing a resource leaves the versions in their types.
LEMMA StoreTyping ==
    ASSUME TypeOK, NEW w \in Workers, NEW new \in Resource, Store(w, new)
    PROVE  /\ cr' \in Resource
           /\ fresh' \in [Workers -> BOOLEAN]
           /\ synced' \in [Workers -> BOOLEAN]
BY DEF TypeOK, Store

\* An Update, refused or not, leaves resources.
LEMMA UpdateTyping ==
    ASSUME TypeOK, NEW w \in Workers, NEW m \in Resource, NEW s \in Steps,
           UpdateResource(w, m, s)
    PROVE  /\ cr' \in Resource
           /\ mem' \in [Workers -> Resource]
           /\ pc' \in [Workers -> Steps]
           /\ fresh' \in [Workers -> BOOLEAN]
           /\ synced' \in [Workers -> BOOLEAN]
<1>1. Merged(m) \in Resource  BY StoredTyping DEF TypeOK
<1>2. CASE fresh[w]
  <2>1. Store(w, Merged(m)) /\ mem' = [mem EXCEPT ![w] = Merged(m)] /\ Goto(w, s)
    BY <1>2 DEF UpdateResource
  <2>2. mem' \in [Workers -> Resource]  BY <1>1, <2>1 DEF TypeOK
  <2>3. pc' \in [Workers -> Steps]  BY <2>1 DEF TypeOK, Goto
  <2> QED  BY <1>1, <2>1, <2>2, <2>3, StoreTyping
<1>3. CASE ~fresh[w]
  BY <1>3 DEF TypeOK, UpdateResource, Goto, Steps
<1> QED  BY <1>2, <1>3

\* The return of Create leaves the copy a resource.
LEMMA ReturnsTyping ==
    ASSUME TypeOK, NEW w \in Workers, NEW o \in {"succeeded", "failed"},
           CreateReturns(w, o)
    PROVE  mem' \in [Workers -> Resource] /\ pc' \in [Workers -> Steps]
<1>1. [mem[w] EXCEPT !.ready = "Creating", !.create = o] \in Resource
  BY CopyTyping DEF TypeOK
<1> QED  BY <1>1 DEF TypeOK, CreateReturns, Goto, Steps

\* A step of a reconcile keeps every variable in its type.
LEMMA ReconcileTyping ==
    ASSUME TypeOK, NEW w \in Workers, StepInv(w), CreationInv(w), Reconcile(w)
    PROVE  TypeOK'
<1> USE DEF TypeOK, Goto, Steps, cloud, local, Fault
<1>a. mem[w] \in Resource /\ cache[w] \in Resource
  OBVIOUS
<1>1. CASE StartReconcile(w)
  <2>1. [cache[w] EXCEPT !.ready = "Creating"] \in Resource  BY <1>a, CopyTyping
  <2>2. mem' \in [Workers -> Resource]  BY <1>a, <1>1, <2>1 DEF StartReconcile
  <2>3. pc' \in [Workers -> Steps] /\ fresh' \in [Workers -> BOOLEAN]
    BY <1>1 DEF StartReconcile
  <2> QED  BY <1>1, <2>2, <2>3 DEF StartReconcile
<1>2. CASE Connect(w)  BY <1>2 DEF Connect
<1>3. CASE ObserveAbsent(w)  BY <1>3, CopyTyping DEF ObserveAbsent
<1>4. CASE ObserveKey(w)  BY <1>4, CopyTyping DEF ObserveKey
<1>5. CASE ObserveKeyError(w)
  <2>1. mem' \in [Workers -> Resource]
    BY <1>a, <1>5, CopyTyping DEF ObserveKeyError, GetAPIKeyFailed
  <2>2. pc' \in [Workers -> Steps]
        /\ obs' \in [Workers -> {"none", "absent", "gone", "stale", "current"}]
    BY <1>5 DEF ObserveKeyError, GetAPIKeyFailed
  <2>3. blind' \in BOOLEAN /\ faults' \in 0 .. MaxFaults
    BY <1>a, <1>5, FieldTyping DEF ObserveKeyError
  <2> QED  BY <1>5, <2>1, <2>2, <2>3 DEF ObserveKeyError
<1>6. CASE CheckSecret(w)
  <2>1. /\ [mem[w] EXCEPT !.ready = "Available", !.stBuckets = mem[w].buckets] \in Resource
        /\ [mem[w] EXCEPT !.stBuckets = mem[w].buckets] \in Resource
    BY <1>a, CopyTyping
  <2>2. mem' \in [Workers -> Resource]
    <3>1. \/ mem' = mem
          \/ mem' = [mem EXCEPT ![w] = [mem[w] EXCEPT !.stBuckets = mem[w].buckets]]
          \/ mem' = [mem EXCEPT ![w] = [mem[w] EXCEPT !.ready = "Available",
                                                     !.stBuckets = mem[w].buckets]]
      BY <1>6 DEF CheckSecret
    <3> QED  BY <2>1, <3>1
  <2>3. pc' \in [Workers -> Steps]
    <3>1. \E s \in Steps : pc' = [pc EXCEPT ![w] = s]  BY <1>6 DEF CheckSecret
    <3> QED  BY <3>1
  <2>4. obs' \in [Workers -> {"none", "absent", "gone", "stale", "current"}]
    BY <1>6 DEF CheckSecret
  <2>5. faults' \in 0 .. MaxFaults  BY <1>6 DEF CheckSecret
  <2> QED  BY <1>6, <2>2, <2>3, <2>4, <2>5 DEF CheckSecret
<1>7. CASE Publish(w)  BY <1>7, FieldTyping DEF Publish, StepInv, IDsKnown
<1>8. CASE AddFinalizer(w)  BY <1>8, CopyTyping, UpdateTyping DEF AddFinalizer, AfterFinalizer
<1>9. CASE SetPending(w)  BY <1>9, CopyTyping, UpdateTyping DEF SetPending
<1>10. CASE CreateNoop(w)  BY <1>10, ReturnsTyping DEF CreateNoop
<1>11. CASE CreateRole(w)
  <2>1. [mem[w] EXCEPT !.ready = "Creating"] \in Resource  BY <1>a, CopyTyping
  <2>2. mem' \in [Workers -> Resource]  BY <1>11, <2>1 DEF CreateRole
  <2>3. pc' \in [Workers -> Steps]  BY <1>11 DEF CreateRole
  <2>4. /\ roles' \subseteq Roles
        /\ policy' \in [Roles -> BucketLists \cup {None}]
        /\ newRole' \in [Workers -> Roles \cup {None}]
        /\ tries' \in [Workers -> 0 .. MaxTries]
    BY <1>a, <1>11, FieldTyping, IssuedIDs DEF CreateRole
  <2> QED  BY <1>11, <2>2, <2>3, <2>4 DEF CreateRole
<1>12. CASE CreateRoleFails(w)
  <2>1. roles' \subseteq Roles /\ policy' \in [Roles -> BucketLists \cup {None}]
    BY <1>a, <1>12, FieldTyping, IssuedIDs DEF CreateRoleFails
  <2>2. faults' \in 0 .. MaxFaults  BY <1>12 DEF CreateRoleFails
  <2>3. CASE CreateReturns(w, "failed") /\ UNCHANGED local
    BY <1>12, <2>1, <2>2, <2>3, ReturnsTyping DEF CreateRoleFails
  <2>4. CASE End(w)
    BY <1>12, <2>1, <2>2, <2>4, EndTyping DEF CreateRoleFails
  <2> QED  BY <1>12, <2>3, <2>4 DEF CreateRoleFails, Panic
<1>13. CASE CreateKey(w)
  <2>1. PICK k \in Keys :
          /\ keys' = keys \cup {k}
          /\ issued' = issued \cup {k}
          /\ roleOf' = [roleOf EXCEPT ![k] = newRole[w]]
          /\ mem' = [mem EXCEPT ![w].keyAnn = k, ![w].roleAnn = newRole[w]]
    BY <1>13, IssuedIDs DEF CreateKey
  <2>2. [mem[w] EXCEPT !.keyAnn = k, !.roleAnn = newRole[w]] \in Resource
    BY <1>a, CopyTyping
  <2>3. mem' = [mem EXCEPT ![w] = [mem[w] EXCEPT !.keyAnn = k, !.roleAnn = newRole[w]]]
    BY <2>1
  <2>4. mem' \in [Workers -> Resource]  BY <2>2, <2>3
  <2>5. pc' \in [Workers -> Steps]  BY <1>13 DEF CreateKey
  <2> QED  BY <1>13, <2>1, <2>4, <2>5 DEF CreateKey
<1>14. CASE CreateKeyFails(w)
  <2>1. keys' \subseteq Keys /\ roleOf' \in [Keys -> Roles \cup {None}]
    BY <1>14, IssuedIDs DEF CreateKeyFails
  <2>2. faults' \in 0 .. MaxFaults  BY <1>14 DEF CreateKeyFails
  <2>3. CASE tries[w] + 1 < MaxTries /\ tries' = [tries EXCEPT ![w] = tries[w] + 1]
             /\ UNCHANGED <<pc, mem, obs, newRole>>
    <3>1. tries' \in [Workers -> 0 .. MaxTries]  BY <2>3
    <3> QED  BY <1>14, <2>1, <2>2, <2>3, <3>1 DEF CreateKeyFails
  <2>4. CASE ~(tries[w] + 1 < MaxTries) /\ tries' = [tries EXCEPT ![w] = tries[w] + 1]
             /\ CreateReturns(w, "failed") /\ UNCHANGED <<obs, newRole>>
    <3>1. tries[w] < MaxTries  BY <1>14 DEF CreateKeyFails, StepInv
    <3>2. tries' \in [Workers -> 0 .. MaxTries]  BY <2>4, <3>1
    <3> QED  BY <1>14, <2>1, <2>2, <2>4, <3>2, ReturnsTyping DEF CreateKeyFails
  <2>5. CASE End(w)
    BY <1>14, <2>1, <2>2, <2>5, EndTyping DEF CreateKeyFails
  <2> QED  BY <1>14, <2>3, <2>4, <2>5 DEF CreateKeyFails, Panic
<1>15. CASE CreateSecret(w)
  <2>1. mem[w].keyAnn \in Keys  BY <1>a, <1>15, FieldTyping DEF CreateSecret, CreationInv
  <2> QED  BY <1>15, <2>1, ReturnsTyping DEF CreateSecret
<1>16. CASE CreateSecretFails(w)  BY <1>16, ReturnsTyping DEF CreateSecretFails
<1>17. CASE CriticalAnnotations(w)
  <2> DEFINE new == Merged([mem[w] EXCEPT !.fin = cr.fin])
  <2>1. new \in Resource  BY <1>a, CopyTyping, StoredTyping, FieldTyping
  <2>2. [new EXCEPT !.ready = "Creating"] \in Resource  BY <2>1, CopyTyping
  <2> HIDE DEF new
  <2>3. Store(w, new) /\ mem' = [mem EXCEPT ![w] = [new EXCEPT !.ready = "Creating"]]
    BY <1>17 DEF CriticalAnnotations, new
  <2>4. mem' \in [Workers -> Resource]  BY <2>2, <2>3
  <2>5. pc' \in [Workers -> Steps]  BY <1>17 DEF CriticalAnnotations
  <2> QED  BY <1>17, <2>1, <2>3, <2>4, <2>5, StoreTyping DEF CriticalAnnotations
<1>18. CASE CriticalAnnotationsFail(w)  BY <1>18 DEF CriticalAnnotationsFail
<1>19. CASE PublishCreated(w)  BY <1>19, FieldTyping DEF PublishCreated, StepInv
<1>20. CASE UpdateRole(w)  BY <1>20, CopyTyping DEF UpdateRole
<1>21. CASE DeleteKey(w)  BY <1>21, CopyTyping DEF DeleteKey
<1>22. CASE DeleteKeyFails(w)
  <2>1. [mem[w] EXCEPT !.ready = "Deleting"] \in Resource  BY <1>a, CopyTyping
  <2>2. mem' \in [Workers -> Resource]  BY <1>22, <2>1 DEF DeleteKeyFails
  <2>3. pc' \in [Workers -> Steps] /\ faults' \in 0 .. MaxFaults /\ keys' \subseteq Keys
    BY <1>22 DEF DeleteKeyFails
  <2> QED  BY <1>22, <2>2, <2>3 DEF DeleteKeyFails
<1>23. CASE DeleteRole(w)  BY <1>23 DEF DeleteRole
<1>24. CASE RemoveFinalizer(w)  BY <1>24, StoredTyping, EndTyping DEF RemoveFinalizer
<1>25. CASE WriteStatus(w)
  <2>1. MergedStatus(mem[w]) \in Resource  BY <1>a, StoredTyping
  <2>2. cr' \in Resource /\ fresh' \in [Workers -> BOOLEAN]
        /\ synced' \in [Workers -> BOOLEAN]
    BY <1>25, <2>1, StoreTyping DEF WriteStatus
  <2> QED  BY <1>25, <2>2, EndTyping DEF WriteStatus
<1>26. CASE CallFails(w)  BY <1>26 DEF CallFails
<1> QED
  BY <1>1, <1>2, <1>3, <1>4, <1>5, <1>6, <1>7, <1>8, <1>9, <1>10, <1>11, <1>12,
     <1>13, <1>14, <1>15, <1>16, <1>17, <1>18, <1>19, <1>20, <1>21, <1>22, <1>23,
     <1>24, <1>25, <1>26 DEF Reconcile

\* Every step keeps every variable in its type.
LEMMA NextTyping ==
    ASSUME TypeOK, \A w \in Workers : StepInv(w) /\ CreationInv(w), [Next]_vars
    PROVE  TypeOK'
<1> USE DEF TypeOK, cloud, local, Fault, Edit
<1>1. ASSUME NEW w \in Workers, Reconcile(w)  PROVE TypeOK'
  BY <1>1, ReconcileTyping
<1>2. ASSUME NEW w \in Workers, Crash(w)  PROVE TypeOK'
  BY <1>2, EndTyping DEF Crash
<1>3. ASSUME NEW w \in Workers, CacheSync(w)  PROVE TypeOK'
  BY <1>3 DEF CacheSync
<1>4. CASE UserDelete
  BY <1>4, StoredTyping DEF UserDelete, StoreByUser
<1>5. CASE UserEdit
  BY <1>5, StoredTyping DEF UserEdit, StoreByUser
<1>6. CASE UserSecret
  BY <1>6 DEF UserSecret
<1>7. CASE UNCHANGED vars
  BY <1>7 DEF vars
<1> QED  BY <1>1, <1>2, <1>3, <1>4, <1>5, <1>6, <1>7 DEF Next

-----------------------------------------------------------------------------
(* The inductive invariant.                                                *)

WorkerInv(w) == FreshInv(w) /\ StepInv(w) /\ CreationInv(w)

\* Only worker w moves.
OnlyMoves(w) ==
    \A v \in Workers \ {w} :
        /\ pc'[v] = pc[v]
        /\ mem'[v] = mem[v]
        /\ obs'[v] = obs[v]
        /\ newRole'[v] = newRole[v]
        /\ tries'[v] = tries[v]

\* The keys that were issued keep their role.
RolesStay == \A k \in issued : roleOf'[k] = roleOf[k]

\* A step of w that stores no version of the resource and issues no key has
\* only its own part of the invariant to keep.
LEMMA QuietStep ==
    ASSUME IInv, NEW w \in Workers, TypeOK', OnlyMoves(w), RolesStay,
           UNCHANGED <<cr, issued, cache, synced>>,
           \A v \in Workers \ {w} : fresh'[v] = fresh[v],
           WorkerInv(w)', InCreation(w)' => InCreation(w)
    PROVE  IInv'
<1>1. StoredInv'  BY DEF IInv, StoredInv, RolesStay
<1>2. CacheInv'  BY DEF IInv, CacheInv
<1>3. ASSUME NEW v \in Workers  PROVE WorkerInv(v)'
  <2>1. CASE v = w  BY <2>1
  <2>2. CASE v # w
    <3>1. FreshInv(v)'  BY <2>2 DEF IInv, OnlyMoves, FreshInv, SameIDs
    <3>2. StepInv(v)'  BY <2>2 DEF IInv, OnlyMoves, StepInv, IDsKnown
    <3>3. CreationInv(v)'
      BY <2>2 DEF IInv, OnlyMoves, RolesStay, CreationInv, InCreation
    <3> QED  BY <3>1, <3>2, <3>3 DEF WorkerInv
  <2> QED  BY <2>1, <2>2
<1>4. OneCreator'
  <2>1. \A v \in Workers : InCreation(v)' => InCreation(v)
    BY DEF OnlyMoves, InCreation
  <2> QED  BY <2>1 DEF IInv, OneCreator
<1>5. KeyRecorded' /\ OneKey'  BY DEF IInv, KeyRecorded, OneKey
<1> QED  BY <1>1, <1>2, <1>3, <1>4, <1>5 DEF IInv, WorkerInv

\* The steps that store no version of the resource and issue no key.
LEMMA QuietActions ==
    ASSUME IInv, NEW w \in Workers, TypeOK',
           \/ StartReconcile(w)
           \/ Connect(w)
           \/ ObserveAbsent(w)
           \/ ObserveKey(w)
           \/ ObserveKeyError(w)
           \/ CheckSecret(w)
           \/ Publish(w)
           \/ CreateNoop(w)
           \/ CreateRole(w)
           \/ CreateRoleFails(w)
           \/ CreateKeyFails(w)
           \/ CreateSecret(w)
           \/ CreateSecretFails(w)
           \/ CriticalAnnotationsFail(w)
           \/ PublishCreated(w)
           \/ UpdateRole(w)
           \/ DeleteKey(w)
           \/ DeleteKeyFails(w)
           \/ DeleteRole(w)
           \/ CallFails(w)
           \/ Crash(w)
    PROVE  IInv'
<1> USE DEF Goto, cloud, local, Fault
<1>a. TypeOK /\ WorkerInv(w) /\ StoredInv  BY DEF IInv, WorkerInv
<1>b. mem[w] \in Resource /\ cache[w] \in Resource /\ cr \in Resource  BY <1>a DEF TypeOK
<1>1. CASE StartReconcile(w)
  <2>1. OnlyMoves(w) /\ RolesStay /\ UNCHANGED <<cr, issued, cache, synced>>
        /\ \A v \in Workers \ {w} : fresh'[v] = fresh[v]
    BY <1>a, <1>1 DEF StartReconcile, OnlyMoves, RolesStay, TypeOK
  <2>2. InCreation(w)' => InCreation(w)
    BY <1>a, <1>1 DEF StartReconcile, InCreation, TypeOK
  <2>3. /\ mem'[w].fin = cache[w].fin /\ mem'[w].create = cache[w].create
        /\ mem'[w].keySt = cache[w].keySt /\ mem'[w].roleSt = cache[w].roleSt
        /\ cache[w].create # "pending" => mem'[w] = cache[w]
        /\ fresh'[w] = synced[w]
        /\ pc'[w] = IF cache[w].create = "pending" THEN "status" ELSE "connect"
    BY <1>a, <1>b, <1>1 DEF StartReconcile, TypeOK, Resource
  <2>4. FreshInv(w)'
    <3>1. obs'[w] = "none"  BY <1>a, <1>1 DEF StartReconcile, WorkerInv, StepInv
    <3>2. cache[w].exists /\ UNCHANGED cr  BY <1>1 DEF StartReconcile
    <3>3. synced[w] => cache[w] = cr  BY DEF IInv, CacheInv
    <3> QED  BY <2>3, <3>1, <3>2, <3>3 DEF FreshInv, SameIDs, BeforePending
  <2>5. StepInv(w)'
    BY <1>a, <1>1, <2>3 DEF StartReconcile, WorkerInv, StepInv, BeforePending
  <2>6. CreationInv(w)'
    BY <2>3 DEF CreationInv, InCreation
  <2> QED  BY <2>1, <2>2, <2>3, <2>4, <2>5, <2>6, QuietStep DEF WorkerInv
<1>2. CASE Connect(w)
  <2>1. OnlyMoves(w) /\ RolesStay /\ UNCHANGED <<cr, issued, cache, synced>>
        /\ \A v \in Workers \ {w} : fresh'[v] = fresh[v]
    BY <1>a, <1>2 DEF Connect, OnlyMoves, RolesStay, TypeOK
  <2>2. InCreation(w)' => InCreation(w)
    BY <1>a, <1>2 DEF Connect, InCreation, TypeOK
  <2>3. FreshInv(w)'
    BY <1>a, <1>b, <1>2 DEF Connect, WorkerInv, FreshInv, SameIDs, StepInv, BeforePending, TypeOK
  <2>4. StepInv(w)'
    BY <1>a, <1>b, <1>2 DEF Connect, WorkerInv, StepInv, BeforePending, IDsKnown, TypeOK
  <2>5. CreationInv(w)'
    BY <1>a, <1>b, <1>2 DEF Connect, WorkerInv, CreationInv, InCreation, TypeOK
  <2> QED  BY <2>1, <2>2, <2>3, <2>4, <2>5, QuietStep DEF WorkerInv
<1>3. CASE ObserveAbsent(w)
  <2>1. OnlyMoves(w) /\ RolesStay /\ UNCHANGED <<cr, issued, cache, synced>>
        /\ \A v \in Workers \ {w} : fresh'[v] = fresh[v]
    BY <1>a, <1>3 DEF ObserveAbsent, OnlyMoves, RolesStay, TypeOK
  <2>2. InCreation(w)' => InCreation(w)
    BY <1>a, <1>3 DEF ObserveAbsent, InCreation, TypeOK
  <2>3. mem'[w] = Resolved(mem[w])  BY <1>a, <1>3 DEF ObserveAbsent, TypeOK
  <2>4. FreshInv(w)'
    BY <1>a, <1>b, <1>3, <2>3, ResolvedFields
    DEF ObserveAbsent, WorkerInv, FreshInv, SameIDs, StepInv, StoredInv, BeforePending, TypeOK
  <2>5. StepInv(w)'
    BY <1>a, <1>b, <1>3, <2>3, ResolvedFields
    DEF ObserveAbsent, WorkerInv, StepInv, BeforePending, TypeOK
  <2>6. CreationInv(w)'
    BY <1>a, <1>3 DEF ObserveAbsent, CreationInv, InCreation, TypeOK
  <2> QED  BY <2>1, <2>2, <2>3, <2>4, <2>5, <2>6, QuietStep DEF WorkerInv
<1>4. CASE ObserveKey(w)
  <2>1. OnlyMoves(w) /\ RolesStay /\ UNCHANGED <<cr, issued, cache, synced>>
        /\ \A v \in Workers \ {w} : fresh'[v] = fresh[v]
    BY <1>a, <1>4 DEF ObserveKey, OnlyMoves, RolesStay, TypeOK
  <2>2. InCreation(w)' => InCreation(w)
    BY <1>a, <1>4 DEF ObserveKey, InCreation, TypeOK
  <2>3. mem'[w] = Resolved(mem[w])  BY <1>a, <1>4 DEF ObserveKey, TypeOK
  <2>4. FreshInv(w)'
    BY <1>a, <1>b, <1>4, <2>3, ResolvedFields
    DEF ObserveKey, WorkerInv, FreshInv, SameIDs, StepInv, StoredInv, BeforePending, TypeOK
  <2>5. StepInv(w)'
    BY <1>a, <1>b, <1>4, <2>3, ResolvedFields
    DEF ObserveKey, WorkerInv, StepInv, BeforePending, TypeOK
  <2>6. CreationInv(w)'
    BY <1>a, <1>4 DEF ObserveKey, CreationInv, InCreation, TypeOK
  <2> QED  BY <2>1, <2>2, <2>3, <2>4, <2>5, <2>6, QuietStep DEF WorkerInv
<1>5. CASE ObserveKeyError(w)
  <2>1. OnlyMoves(w) /\ RolesStay /\ UNCHANGED <<cr, issued, cache, synced>>
        /\ \A v \in Workers \ {w} : fresh'[v] = fresh[v]
    BY <1>a, <1>5 DEF ObserveKeyError, GetAPIKeyFailed, OnlyMoves, RolesStay, TypeOK
  <2>2. InCreation(w)' => InCreation(w)
    BY <1>a, <1>5 DEF ObserveKeyError, GetAPIKeyFailed, InCreation, TypeOK
  <2>3. mem'[w] = Resolved(mem[w])  BY <1>a, <1>5 DEF ObserveKeyError, GetAPIKeyFailed, TypeOK
  <2>4. FreshInv(w)'
    BY <1>a, <1>b, <1>5, <2>3, ResolvedFields
    DEF ObserveKeyError, GetAPIKeyFailed, WorkerInv, FreshInv, SameIDs, StepInv, StoredInv, BeforePending, TypeOK
  <2>5. StepInv(w)'
    BY <1>a, <1>b, <1>5, <2>3, ResolvedFields
    DEF ObserveKeyError, GetAPIKeyFailed, WorkerInv, StepInv, BeforePending, TypeOK
  <2>6. CreationInv(w)'
    BY <1>a, <1>5 DEF ObserveKeyError, GetAPIKeyFailed, CreationInv, InCreation, TypeOK
  <2> QED  BY <2>1, <2>2, <2>3, <2>4, <2>5, <2>6, QuietStep DEF WorkerInv
<1>6. CASE CheckSecret(w)
  <2>1. OnlyMoves(w) /\ RolesStay /\ UNCHANGED <<cr, issued, cache, synced>>
        /\ \A v \in Workers \ {w} : fresh'[v] = fresh[v]
    BY <1>a, <1>6 DEF CheckSecret, OnlyMoves, RolesStay, TypeOK
  <2>2. InCreation(w)' => InCreation(w)
    BY <1>a, <1>6 DEF CheckSecret, InCreation, TypeOK
  <2>3. /\ mem'[w].fin = mem[w].fin /\ mem'[w].create = mem[w].create
        /\ mem'[w].keySt = mem[w].keySt /\ mem'[w].roleSt = mem[w].roleSt
        /\ pc'[w] \in {"publish", "deleteKey", "status"}
        /\ obs'[w] # "absent"
    <3>1. \/ mem' = mem
          \/ mem' = [mem EXCEPT ![w] = [mem[w] EXCEPT !.stBuckets = mem[w].buckets]]
          \/ mem' = [mem EXCEPT ![w] = [mem[w] EXCEPT !.ready = "Available",
                                                     !.stBuckets = mem[w].buckets]]
      BY <1>6 DEF CheckSecret
    <3>2. obs[w] = "none"  BY <1>a, <1>6 DEF CheckSecret, WorkerInv, StepInv
    <3>3. pc'[w] \in {"publish", "deleteKey", "status"} /\ obs'[w] # "absent"
      BY <1>a, <1>6, <3>2 DEF CheckSecret, TypeOK
    <3>4. \/ mem'[w] = mem[w]
          \/ mem'[w] = [mem[w] EXCEPT !.stBuckets = mem[w].buckets]
          \/ mem'[w] = [mem[w] EXCEPT !.ready = "Available", !.stBuckets = mem[w].buckets]
      BY <1>a, <3>1 DEF TypeOK
    <3> QED  BY <1>b, <3>3, <3>4 DEF Resource
  <2>4. FreshInv(w)'
    BY <1>a, <1>6, <2>3 DEF CheckSecret, WorkerInv, FreshInv, SameIDs, BeforePending
  <2>5. StepInv(w)'
    BY <1>a, <1>6, <2>3 DEF CheckSecret, WorkerInv, StepInv, BeforePending, IDsKnown
  <2>6. CreationInv(w)'
    BY <2>3 DEF CreationInv, InCreation
  <2> QED  BY <2>1, <2>2, <2>3, <2>4, <2>5, <2>6, QuietStep DEF WorkerInv
<1>7. CASE Publish(w)
  <2>1. OnlyMoves(w) /\ RolesStay /\ UNCHANGED <<cr, issued, cache, synced>>
        /\ \A v \in Workers \ {w} : fresh'[v] = fresh[v]
    BY <1>a, <1>7 DEF Publish, OnlyMoves, RolesStay, TypeOK
  <2>2. InCreation(w)' => InCreation(w)
    BY <1>a, <1>7 DEF Publish, InCreation, TypeOK
  <2>3. FreshInv(w)'
    BY <1>a, <1>b, <1>7 DEF Publish, WorkerInv, FreshInv, SameIDs, StepInv, BeforePending, TypeOK
  <2>4. StepInv(w)'
    BY <1>a, <1>b, <1>7 DEF Publish, WorkerInv, StepInv, BeforePending, IDsKnown, TypeOK
  <2>5. CreationInv(w)'
    BY <1>a, <1>b, <1>7 DEF Publish, WorkerInv, CreationInv, InCreation, TypeOK
  <2> QED  BY <2>1, <2>2, <2>3, <2>4, <2>5, QuietStep DEF WorkerInv
<1>8. CASE CreateNoop(w)
  <2>1. OnlyMoves(w) /\ RolesStay /\ UNCHANGED <<cr, issued, cache, synced>>
        /\ \A v \in Workers \ {w} : fresh'[v] = fresh[v]
    BY <1>a, <1>8 DEF CreateNoop, CreateReturns, OnlyMoves, RolesStay, TypeOK
  <2>2. InCreation(w)' => InCreation(w)
    BY <1>a, <1>8 DEF CreateNoop, CreateReturns, InCreation, TypeOK
  <2>3. /\ pc'[w] = "critical"
        /\ mem'[w].create = "succeeded"
        /\ mem'[w].fin = mem[w].fin
        /\ mem'[w].keySt = mem[w].keySt /\ mem'[w].keyAnn = mem[w].keyAnn
        /\ mem'[w].roleSt = mem[w].roleSt /\ mem'[w].roleAnn = mem[w].roleAnn
    BY <1>a, <1>8, ReturnsFields DEF CreateNoop
  <2>4. FreshInv(w)'
    BY <1>a, <1>8, <2>3 DEF CreateNoop, WorkerInv, FreshInv, SameIDs, BeforePending
  <2>5. StepInv(w)'
    BY <1>a, <1>8, <2>3 DEF CreateNoop, WorkerInv, StepInv, BeforePending
  <2>6. CreationInv(w)'
    BY <1>a, <1>8, <2>3 DEF CreateNoop, WorkerInv, StepInv, CreationInv, InCreation
  <2> QED  BY <2>1, <2>2, <2>3, <2>4, <2>5, <2>6, QuietStep DEF WorkerInv
<1>9. CASE CreateRole(w)
  <2>1. OnlyMoves(w) /\ RolesStay /\ UNCHANGED <<cr, issued, cache, synced>>
        /\ \A v \in Workers \ {w} : fresh'[v] = fresh[v]
    BY <1>a, <1>9 DEF CreateRole, OnlyMoves, RolesStay, TypeOK
  <2>2. InCreation(w)' => InCreation(w)
    BY <1>a, <1>9 DEF CreateRole, InCreation, TypeOK
  <2>3. FreshInv(w)'
    BY <1>a, <1>b, <1>9 DEF CreateRole, WorkerInv, FreshInv, SameIDs, StepInv, BeforePending, TypeOK
  <2>4. StepInv(w)'
    BY <1>a, <1>b, <1>9 DEF CreateRole, WorkerInv, StepInv, BeforePending, IDsKnown, TypeOK
  <2>5. CreationInv(w)'
    BY <1>a, <1>b, <1>9 DEF CreateRole, WorkerInv, CreationInv, InCreation, TypeOK
  <2> QED  BY <2>1, <2>2, <2>3, <2>4, <2>5, QuietStep DEF WorkerInv
<1>10. CASE CreateRoleFails(w)
  <2>1. OnlyMoves(w) /\ RolesStay /\ UNCHANGED <<cr, issued, cache, synced>>
        /\ \A v \in Workers \ {w} : fresh'[v] = fresh[v]
    BY <1>a, <1>10 DEF CreateRoleFails, CreateReturns, Panic, End, OnlyMoves, RolesStay, TypeOK
  <2>2. InCreation(w)' => InCreation(w)
    BY <1>a, <1>10 DEF CreateRoleFails, CreateReturns, Panic, End, InCreation, TypeOK
  <2>3. CASE CreateReturns(w, "failed") /\ UNCHANGED local
    <3>1. /\ pc'[w] = "critical"
          /\ mem'[w].create = "failed"
          /\ mem'[w].fin = mem[w].fin
          /\ mem'[w].keySt = mem[w].keySt /\ mem'[w].keyAnn = mem[w].keyAnn
          /\ mem'[w].roleSt = mem[w].roleSt /\ mem'[w].roleAnn = mem[w].roleAnn
      BY <1>a, <2>3, ReturnsFields
    <3>2. FreshInv(w)'
      BY <1>a, <1>10, <3>1 DEF CreateRoleFails, WorkerInv, FreshInv, SameIDs, BeforePending
    <3>3. StepInv(w)'
      BY <1>a, <3>1 DEF StepInv, BeforePending
    <3>4. CreationInv(w)'
      BY <1>a, <1>10, <3>1 DEF CreateRoleFails, WorkerInv, CreationInv, InCreation
    <3> QED  BY <2>1, <2>2, <3>2, <3>3, <3>4, QuietStep DEF WorkerInv
  <2>4. CASE End(w)
    <3>1. pc'[w] = "idle" /\ obs'[w] = "none" /\ newRole'[w] = None
      BY <1>a, <2>4 DEF End, TypeOK
    <3>2. WorkerInv(w)'
      BY <3>1 DEF WorkerInv, FreshInv, StepInv, CreationInv, InCreation, BeforePending
    <3> QED  BY <2>1, <2>2, <3>2, QuietStep
  <2> QED  BY <1>10, <2>3, <2>4 DEF CreateRoleFails, Panic
<1>11. CASE CreateKeyFails(w)
  <2>1. OnlyMoves(w) /\ RolesStay /\ UNCHANGED <<cr, issued, cache, synced>>
        /\ \A v \in Workers \ {w} : fresh'[v] = fresh[v]
    BY IssuedIDs, <1>a, <1>11 DEF CreateKeyFails, CreateReturns, Panic, End, OnlyMoves, RolesStay, TypeOK
  <2>2. InCreation(w)' => InCreation(w)
    BY <1>a, <1>11 DEF CreateKeyFails, CreateReturns, Panic, End, InCreation, TypeOK
  <2>3. CASE pc' = pc /\ mem' = mem /\ tries[w] + 1 < MaxTries
             /\ tries' = [tries EXCEPT ![w] = tries[w] + 1] /\ UNCHANGED <<obs, newRole>>
    <3>1. FreshInv(w)'
      BY <1>a, <1>11, <2>3 DEF CreateKeyFails, WorkerInv, FreshInv, SameIDs
    <3>2. StepInv(w)'
      BY <1>a, <1>11, <2>3 DEF CreateKeyFails, WorkerInv, StepInv, BeforePending, TypeOK
    <3>3. CreationInv(w)'
      BY <1>a, <1>11, <2>3 DEF CreateKeyFails, WorkerInv, CreationInv, InCreation
    <3> QED  BY <2>1, <2>2, <3>1, <3>2, <3>3, QuietStep DEF WorkerInv
  <2>4. CASE CreateReturns(w, "failed") /\ UNCHANGED <<obs, newRole>>
    <3>1. /\ pc'[w] = "critical"
          /\ mem'[w].create = "failed"
          /\ mem'[w].fin = mem[w].fin
          /\ mem'[w].keySt = mem[w].keySt /\ mem'[w].keyAnn = mem[w].keyAnn
          /\ mem'[w].roleSt = mem[w].roleSt /\ mem'[w].roleAnn = mem[w].roleAnn
      BY <1>a, <2>4, ReturnsFields
    <3>2. FreshInv(w)'
      BY <1>a, <1>11, <3>1 DEF CreateKeyFails, WorkerInv, FreshInv, SameIDs, BeforePending
    <3>3. StepInv(w)'
      BY <1>a, <3>1 DEF StepInv, BeforePending
    <3>4. CreationInv(w)'
      BY <1>a, <1>11, <3>1 DEF CreateKeyFails, WorkerInv, CreationInv, InCreation
    <3> QED  BY <2>1, <2>2, <3>2, <3>3, <3>4, QuietStep DEF WorkerInv
  <2>5. CASE End(w)
    <3>1. pc'[w] = "idle" /\ obs'[w] = "none" /\ newRole'[w] = None
      BY <1>a, <2>5 DEF End, TypeOK
    <3>2. WorkerInv(w)'
      BY <3>1 DEF WorkerInv, FreshInv, StepInv, CreationInv, InCreation, BeforePending
    <3> QED  BY <2>1, <2>2, <3>2, QuietStep
  <2> QED  BY <1>11, <2>3, <2>4, <2>5 DEF CreateKeyFails, Panic
<1>12. CASE CreateSecret(w)
  <2>1. OnlyMoves(w) /\ RolesStay /\ UNCHANGED <<cr, issued, cache, synced>>
        /\ \A v \in Workers \ {w} : fresh'[v] = fresh[v]
    BY <1>a, <1>12 DEF CreateSecret, CreateReturns, OnlyMoves, RolesStay, TypeOK
  <2>2. InCreation(w)' => InCreation(w)
    BY <1>a, <1>12 DEF CreateSecret, CreateReturns, InCreation, TypeOK
  <2>3. /\ pc'[w] = "critical"
        /\ mem'[w].create # "pending"
        /\ mem'[w].fin = mem[w].fin
        /\ mem'[w].keySt = mem[w].keySt /\ mem'[w].keyAnn = mem[w].keyAnn
        /\ mem'[w].roleSt = mem[w].roleSt /\ mem'[w].roleAnn = mem[w].roleAnn
    BY <1>a, <1>12, ReturnsFields DEF CreateSecret
  <2>4. FreshInv(w)'
    BY <1>a, <1>12, <2>3 DEF CreateSecret, WorkerInv, FreshInv, SameIDs, BeforePending
  <2>5. StepInv(w)'
    BY <1>a, <1>12, <2>3 DEF CreateSecret, WorkerInv, StepInv, BeforePending
  <2>6. CreationInv(w)'
    BY <1>a, <1>12, <2>3 DEF CreateSecret, WorkerInv, StepInv, CreationInv, InCreation
  <2> QED  BY <2>1, <2>2, <2>3, <2>4, <2>5, <2>6, QuietStep DEF WorkerInv
<1>13. CASE CreateSecretFails(w)
  <2>1. OnlyMoves(w) /\ RolesStay /\ UNCHANGED <<cr, issued, cache, synced>>
        /\ \A v \in Workers \ {w} : fresh'[v] = fresh[v]
    BY <1>a, <1>13 DEF CreateSecretFails, CreateReturns, OnlyMoves, RolesStay, TypeOK
  <2>2. InCreation(w)' => InCreation(w)
    BY <1>a, <1>13 DEF CreateSecretFails, CreateReturns, InCreation, TypeOK
  <2>3. FreshInv(w)'
    BY <1>a, <1>b, <1>13 DEF CreateSecretFails, CreateReturns, WorkerInv, FreshInv, SameIDs, StepInv, BeforePending, TypeOK
  <2>4. StepInv(w)'
    BY <1>a, <1>b, <1>13 DEF CreateSecretFails, CreateReturns, WorkerInv, StepInv, BeforePending, IDsKnown, TypeOK
  <2>5. CreationInv(w)'
    BY <1>a, <1>b, <1>13 DEF CreateSecretFails, CreateReturns, WorkerInv, CreationInv, InCreation, TypeOK
  <2> QED  BY <2>1, <2>2, <2>3, <2>4, <2>5, QuietStep DEF WorkerInv
<1>14. CASE CriticalAnnotationsFail(w)
  <2>1. OnlyMoves(w) /\ RolesStay /\ UNCHANGED <<cr, issued, cache, synced>>
        /\ \A v \in Workers \ {w} : fresh'[v] = fresh[v]
    BY <1>a, <1>14 DEF CriticalAnnotationsFail, OnlyMoves, RolesStay, TypeOK
  <2>2. InCreation(w)' => InCreation(w)
    BY <1>a, <1>14 DEF CriticalAnnotationsFail, InCreation, TypeOK
  <2>3. FreshInv(w)'
    BY <1>a, <1>b, <1>14 DEF CriticalAnnotationsFail, WorkerInv, FreshInv, SameIDs, StepInv, BeforePending, TypeOK
  <2>4. StepInv(w)'
    BY <1>a, <1>b, <1>14 DEF CriticalAnnotationsFail, WorkerInv, StepInv, BeforePending, IDsKnown, TypeOK
  <2>5. CreationInv(w)'
    BY <1>a, <1>b, <1>14 DEF CriticalAnnotationsFail, WorkerInv, CreationInv, InCreation, TypeOK
  <2> QED  BY <2>1, <2>2, <2>3, <2>4, <2>5, QuietStep DEF WorkerInv
<1>15. CASE PublishCreated(w)
  <2>1. OnlyMoves(w) /\ RolesStay /\ UNCHANGED <<cr, issued, cache, synced>>
        /\ \A v \in Workers \ {w} : fresh'[v] = fresh[v]
    BY <1>a, <1>15 DEF PublishCreated, OnlyMoves, RolesStay, TypeOK
  <2>2. InCreation(w)' => InCreation(w)
    BY <1>a, <1>15 DEF PublishCreated, InCreation, TypeOK
  <2>3. FreshInv(w)'
    BY <1>a, <1>b, <1>15 DEF PublishCreated, WorkerInv, FreshInv, SameIDs, StepInv, BeforePending, TypeOK
  <2>4. StepInv(w)'
    BY <1>a, <1>b, <1>15 DEF PublishCreated, WorkerInv, StepInv, BeforePending, IDsKnown, TypeOK
  <2>5. CreationInv(w)'
    BY <1>a, <1>b, <1>15 DEF PublishCreated, WorkerInv, CreationInv, InCreation, TypeOK
  <2> QED  BY <2>1, <2>2, <2>3, <2>4, <2>5, QuietStep DEF WorkerInv
<1>16. CASE UpdateRole(w)
  <2>1. OnlyMoves(w) /\ RolesStay /\ UNCHANGED <<cr, issued, cache, synced>>
        /\ \A v \in Workers \ {w} : fresh'[v] = fresh[v]
    BY <1>a, <1>16 DEF UpdateRole, OnlyMoves, RolesStay, TypeOK
  <2>2. InCreation(w)' => InCreation(w)
    BY <1>a, <1>16 DEF UpdateRole, InCreation, TypeOK
  <2>3. FreshInv(w)'
    BY <1>a, <1>b, <1>16 DEF UpdateRole, WorkerInv, FreshInv, SameIDs, StepInv, BeforePending, TypeOK
  <2>4. StepInv(w)'
    BY <1>a, <1>b, <1>16 DEF UpdateRole, WorkerInv, StepInv, BeforePending, IDsKnown, TypeOK
  <2>5. CreationInv(w)'
    BY <1>a, <1>b, <1>16 DEF UpdateRole, WorkerInv, CreationInv, InCreation, TypeOK
  <2> QED  BY <2>1, <2>2, <2>3, <2>4, <2>5, QuietStep DEF WorkerInv
<1>17. CASE DeleteKey(w)
  <2>1. OnlyMoves(w) /\ RolesStay /\ UNCHANGED <<cr, issued, cache, synced>>
        /\ \A v \in Workers \ {w} : fresh'[v] = fresh[v]
    BY <1>a, <1>17 DEF DeleteKey, OnlyMoves, RolesStay, TypeOK
  <2>2. InCreation(w)' => InCreation(w)
    BY <1>a, <1>17 DEF DeleteKey, InCreation, TypeOK
  <2>3. FreshInv(w)'
    BY <1>a, <1>b, <1>17 DEF DeleteKey, WorkerInv, FreshInv, SameIDs, StepInv, BeforePending, TypeOK
  <2>4. StepInv(w)'
    BY <1>a, <1>b, <1>17 DEF DeleteKey, WorkerInv, StepInv, BeforePending, IDsKnown, TypeOK
  <2>5. CreationInv(w)'
    BY <1>a, <1>b, <1>17 DEF DeleteKey, WorkerInv, CreationInv, InCreation, TypeOK
  <2> QED  BY <2>1, <2>2, <2>3, <2>4, <2>5, QuietStep DEF WorkerInv
<1>18. CASE DeleteKeyFails(w)
  <2>1. OnlyMoves(w) /\ RolesStay /\ UNCHANGED <<cr, issued, cache, synced>>
        /\ \A v \in Workers \ {w} : fresh'[v] = fresh[v]
    BY <1>a, <1>18 DEF DeleteKeyFails, OnlyMoves, RolesStay, TypeOK
  <2>2. InCreation(w)' => InCreation(w)
    BY <1>a, <1>18 DEF DeleteKeyFails, InCreation, TypeOK
  <2>3. FreshInv(w)'
    BY <1>a, <1>b, <1>18 DEF DeleteKeyFails, WorkerInv, FreshInv, SameIDs, StepInv, BeforePending, TypeOK
  <2>4. StepInv(w)'
    BY <1>a, <1>b, <1>18 DEF DeleteKeyFails, WorkerInv, StepInv, BeforePending, IDsKnown, TypeOK
  <2>5. CreationInv(w)'
    BY <1>a, <1>b, <1>18 DEF DeleteKeyFails, WorkerInv, CreationInv, InCreation, TypeOK
  <2> QED  BY <2>1, <2>2, <2>3, <2>4, <2>5, QuietStep DEF WorkerInv
<1>19. CASE DeleteRole(w)
  <2>1. OnlyMoves(w) /\ RolesStay /\ UNCHANGED <<cr, issued, cache, synced>>
        /\ \A v \in Workers \ {w} : fresh'[v] = fresh[v]
    BY <1>a, <1>19 DEF DeleteRole, OnlyMoves, RolesStay, TypeOK
  <2>2. InCreation(w)' => InCreation(w)
    BY <1>a, <1>19 DEF DeleteRole, InCreation, TypeOK
  <2>3. FreshInv(w)'
    BY <1>a, <1>b, <1>19 DEF DeleteRole, WorkerInv, FreshInv, SameIDs, StepInv, BeforePending, TypeOK
  <2>4. StepInv(w)'
    BY <1>a, <1>b, <1>19 DEF DeleteRole, WorkerInv, StepInv, BeforePending, IDsKnown, TypeOK
  <2>5. CreationInv(w)'
    BY <1>a, <1>b, <1>19 DEF DeleteRole, WorkerInv, CreationInv, InCreation, TypeOK
  <2> QED  BY <2>1, <2>2, <2>3, <2>4, <2>5, QuietStep DEF WorkerInv
<1>20. CASE CallFails(w)
  <2>1. OnlyMoves(w) /\ RolesStay /\ UNCHANGED <<cr, issued, cache, synced>>
        /\ \A v \in Workers \ {w} : fresh'[v] = fresh[v]
    BY <1>a, <1>20 DEF CallFails, OnlyMoves, RolesStay, TypeOK
  <2>2. InCreation(w)' => InCreation(w)
    BY <1>a, <1>20 DEF CallFails, InCreation, TypeOK
  <2>3. FreshInv(w)'
    BY <1>a, <1>b, <1>20 DEF CallFails, WorkerInv, FreshInv, SameIDs, StepInv, BeforePending, TypeOK
  <2>4. StepInv(w)'
    BY <1>a, <1>b, <1>20 DEF CallFails, WorkerInv, StepInv, BeforePending, IDsKnown, TypeOK
  <2>5. CreationInv(w)'
    BY <1>a, <1>b, <1>20 DEF CallFails, WorkerInv, CreationInv, InCreation, TypeOK
  <2> QED  BY <2>1, <2>2, <2>3, <2>4, <2>5, QuietStep DEF WorkerInv
<1>21. CASE Crash(w)
  <2>1. OnlyMoves(w) /\ RolesStay /\ UNCHANGED <<cr, issued, cache, synced>>
        /\ \A v \in Workers \ {w} : fresh'[v] = fresh[v]
    BY <1>a, <1>21 DEF Crash, End, OnlyMoves, RolesStay, TypeOK
  <2>2. InCreation(w)' => InCreation(w)
    BY <1>a, <1>21 DEF Crash, End, InCreation, TypeOK
  <2>3. FreshInv(w)'
    BY <1>a, <1>b, <1>21 DEF Crash, End, WorkerInv, FreshInv, SameIDs, StepInv, BeforePending, TypeOK
  <2>4. StepInv(w)'
    BY <1>a, <1>b, <1>21 DEF Crash, End, WorkerInv, StepInv, BeforePending, IDsKnown, TypeOK
  <2>5. CreationInv(w)'
    BY <1>a, <1>b, <1>21 DEF Crash, End, WorkerInv, CreationInv, InCreation, TypeOK
  <2> QED  BY <2>1, <2>2, <2>3, <2>4, <2>5, QuietStep DEF WorkerInv
<1> QED  BY <1>1, <1>2, <1>3, <1>4, <1>5, <1>6, <1>7, <1>8, <1>9, <1>10, <1>11, <1>12, <1>13, <1>14, <1>15, <1>16, <1>17, <1>18, <1>19, <1>20, <1>21

\* What an attempt to create relies on.
CreationKept ==
    /\ cr'.exists = cr.exists /\ cr'.fin = cr.fin /\ cr'.create = cr.create
    /\ cr'.keyAnn = cr.keyAnn /\ cr'.keySt = cr.keySt

\* A step of w that stores a version: the copies of the others are outdated,
\* and an attempt of another worker to create is not disturbed.
LEMMA StoringStep ==
    ASSUME IInv, NEW w \in Workers, TypeOK', OnlyMoves(w),
           UNCHANGED <<issued, roleOf, cache>>,
           \/ UNCHANGED <<cr, fresh, synced>>
           \/ (\A v \in Workers : ~synced'[v]) /\ (\A v \in Workers \ {w} : ~fresh'[v]),
           StoredInv', WorkerInv(w)', KeyRecorded',
           InCreation(w)' => InCreation(w) \/ cr.create # "pending",
           \A v \in Workers \ {w} : InCreation(v) => CreationKept
    PROVE  IInv'
<1>1. CacheInv'  BY DEF IInv, CacheInv
<1>2. ASSUME NEW v \in Workers  PROVE WorkerInv(v)'
  <2>1. CASE v = w  BY <2>1
  <2>2. CASE v # w
    <3>1. FreshInv(v)'  BY <2>2 DEF IInv, OnlyMoves, FreshInv, SameIDs
    <3>2. StepInv(v)'  BY <2>2 DEF IInv, OnlyMoves, StepInv, IDsKnown
    <3>3. CreationInv(v)'
      <4>1. CASE InCreation(v)  BY <2>2, <4>1 DEF IInv, OnlyMoves, CreationInv, InCreation, CreationKept
      <4>2. CASE ~InCreation(v)  BY <2>2, <4>2 DEF IInv, OnlyMoves, CreationInv, InCreation
      <4> QED  BY <4>1, <4>2
    <3> QED  BY <3>1, <3>2, <3>3 DEF WorkerInv
  <2> QED  BY <2>1, <2>2
<1>3. OneCreator'
  <2>1. \A v \in Workers \ {w} : InCreation(v)' <=> InCreation(v)
    BY DEF OnlyMoves, InCreation
  <2>2. \A v \in Workers : InCreation(v) => cr.create = "pending"
    BY DEF IInv, CreationInv
  <2> QED  BY <2>1, <2>2 DEF IInv, OneCreator
<1>4. OneKey'  BY DEF IInv, OneKey
<1> QED  BY <1>1, <1>2, <1>3, <1>4 DEF IInv, WorkerInv

\* An Update that is refused ends the reconcile and changes nothing else.
LEMMA RefusedUpdate ==
    ASSUME IInv, NEW w \in Workers, TypeOK', ~fresh[w], ~InCreation(w),
           Goto(w, "status"), UNCHANGED <<cr, cloud, mem, fresh, cache, synced, local>>
    PROVE  IInv'
<1>1. TypeOK /\ WorkerInv(w)  BY DEF IInv, WorkerInv
<1>2. pc'[w] = "status" /\ OnlyMoves(w) /\ RolesStay
  BY <1>1 DEF Goto, OnlyMoves, RolesStay, TypeOK, cloud, local
<1>3. WorkerInv(w)' /\ ~InCreation(w)'
  BY <1>1, <1>2 DEF WorkerInv, FreshInv, StepInv, CreationInv, InCreation, BeforePending
<1> QED  BY <1>2, <1>3, QuietStep DEF cloud, local

\* A resource without a finalizer has no key, so that the finalizer is all the
\* Update adds.
LEMMA AddFinalizerStep ==
    ASSUME IInv, NEW w \in Workers, TypeOK', AddFinalizer(w)
    PROVE  IInv'
<1>a. TypeOK /\ WorkerInv(w) /\ StoredInv  BY DEF IInv, WorkerInv
<1>b. mem[w] \in Resource /\ cr \in Resource  BY <1>a DEF TypeOK
<1>c. pc[w] = "finalizer" /\ ~InCreation(w)  BY DEF AddFinalizer, InCreation
<1>1. CASE mem[w].fin
  <2>1. Goto(w, AfterFinalizer(w)) /\ UNCHANGED <<cr, fresh, synced, mem>>
    BY <1>1 DEF AddFinalizer, UpdateResource
  <2>2. pc'[w] = AfterFinalizer(w) /\ OnlyMoves(w) /\ RolesStay
    BY <1>a, <2>1 DEF AddFinalizer, Goto, OnlyMoves, RolesStay, TypeOK, cloud, local
  <2>3. UNCHANGED <<obs, newRole, tries>>  BY DEF AddFinalizer, local
  <2>4. FreshInv(w)'
    BY <1>a, <1>c, <2>1, <2>2, <2>3
    DEF WorkerInv, FreshInv, SameIDs, BeforePending, AfterFinalizer
  <2>5. StepInv(w)'
    BY <1>a, <1>c, <1>1, <2>1, <2>2, <2>3 DEF WorkerInv, StepInv, BeforePending, AfterFinalizer
  <2>6. CreationInv(w)' /\ ~InCreation(w)'
    BY <2>2, <2>3 DEF CreationInv, InCreation, AfterFinalizer
  <2> QED
    BY <2>1, <2>2, <2>3, <2>4, <2>5, <2>6, QuietStep DEF AddFinalizer, WorkerInv, cloud
<1>2. CASE ~mem[w].fin /\ fresh[w]
  <2> DEFINE m == [mem[w] EXCEPT !.fin = TRUE]
  <2>1. m \in Resource /\ m.fin = TRUE /\ m.create = mem[w].create
        /\ m.keyAnn = mem[w].keyAnn /\ m.roleAnn = mem[w].roleAnn
    BY <1>b DEF Resource
  <2> HIDE DEF m
  <2>2. /\ Store(w, Merged(m))
        /\ mem' = [mem EXCEPT ![w] = Merged(m)]
        /\ Goto(w, AfterFinalizer(w))
        /\ UNCHANGED <<cloud, cache, local>>
    BY <1>2 DEF AddFinalizer, UpdateResource, m
  <2>3. /\ cr.exists /\ ~cr.fin /\ cr.keyAnn = None /\ cr.roleAnn = None
        /\ cr.keySt = None /\ cr.roleSt = None /\ cr.create # "pending"
    BY <1>a, <1>b, <1>c, <1>2, FieldTyping DEF WorkerInv, FreshInv, StoredInv
  <2>4. obs[w] = "absent" /\ mem[w].keyAnn = None /\ mem[w].roleAnn = None
        /\ mem[w].create = cr.create
    BY <1>a, <1>c, <1>2, <2>3
    DEF WorkerInv, FreshInv, StepInv, SameIDs, IDsKnown, BeforePending
  <2>5. /\ cr'.exists = cr.exists /\ cr'.fin = TRUE /\ cr'.create = cr.create
        /\ cr'.keyAnn = None /\ cr'.roleAnn = None
        /\ cr'.keySt = None /\ cr'.roleSt = None
    BY <1>b, <2>1, <2>2, <2>3, <2>4, MergedFields DEF Store
  <2>6. pc'[w] = "pending" /\ mem'[w] = cr' /\ obs'[w] = "absent"
        /\ newRole'[w] = newRole[w]
    BY <1>a, <2>2, <2>4 DEF Store, Goto, AfterFinalizer, TypeOK, local
  <2>7. OnlyMoves(w)  BY <1>a, <2>2 DEF Goto, OnlyMoves, TypeOK, local
  <2>8. StoredInv'  BY <2>3, <2>5 DEF StoredInv
  <2>9. WorkerInv(w)'
    BY <1>a, <1>c, <2>3, <2>5, <2>6
    DEF WorkerInv, FreshInv, SameIDs, StepInv, CreationInv, InCreation, BeforePending
  <2>10. KeyRecorded'  BY <2>2, <2>3, <2>5 DEF IInv, KeyRecorded, cloud
  <2>11. \A v \in Workers : ~InCreation(v)  BY <2>3 DEF IInv, CreationInv
  <2>12. ~InCreation(w)'  BY <2>6 DEF InCreation
  <2>13. \/ UNCHANGED <<cr, fresh, synced>>
         \/ (\A v \in Workers : ~synced'[v]) /\ (\A v \in Workers \ {w} : ~fresh'[v])
    BY <2>2 DEF Store
  <2> QED
    BY <2>2, <2>7, <2>8, <2>9, <2>10, <2>11, <2>12, <2>13, StoringStep DEF cloud
<1>3. CASE ~mem[w].fin /\ ~fresh[w]
  <2>1. Goto(w, "status") /\ UNCHANGED <<cr, cloud, mem, fresh, cache, synced, local>>
    BY <1>3 DEF AddFinalizer, UpdateResource
  <2> QED  BY <1>3, <1>c, <2>1, RefusedUpdate
<1> QED  BY <1>1, <1>2, <1>3, <1>b, FieldTyping

\* The pending annotation is only stored over a version that has none and that
\* names no key.
LEMMA SetPendingStep ==
    ASSUME IInv, NEW w \in Workers, TypeOK', SetPending(w)
    PROVE  IInv'
<1>a. TypeOK /\ WorkerInv(w) /\ StoredInv  BY DEF IInv, WorkerInv
<1>b. mem[w] \in Resource /\ cr \in Resource  BY <1>a DEF TypeOK
<1>c. pc[w] = "pending" /\ ~InCreation(w)  BY DEF SetPending, InCreation
<1>1. CASE fresh[w]
  <2> DEFINE m == [mem[w] EXCEPT !.create = "pending"]
  <2>1. m \in Resource /\ m.fin = mem[w].fin /\ m.create = "pending"
        /\ m.keyAnn = mem[w].keyAnn /\ m.roleAnn = mem[w].roleAnn
    BY <1>b DEF Resource
  <2> HIDE DEF m
  <2>2. /\ Store(w, Merged(m))
        /\ mem' = [mem EXCEPT ![w] = Merged(m)]
        /\ Goto(w, "create")
        /\ UNCHANGED <<cloud, cache, local>>
    BY <1>1 DEF SetPending, UpdateResource, m
  <2>3. /\ obs[w] = "absent" /\ cr.exists /\ cr.create # "pending" /\ cr.fin
        /\ mem[w].fin = cr.fin /\ cr.keyAnn = None
        /\ mem[w].keyAnn = None /\ mem[w].roleAnn = None /\ newRole[w] = None
    BY <1>a, <1>c, <1>1 DEF WorkerInv, FreshInv, StepInv, BeforePending
  <2>4. cr.roleAnn = None /\ cr.roleSt = None
    BY <1>a, <2>3 DEF StoredInv
  <2>5. /\ cr'.exists = cr.exists /\ cr'.fin = cr.fin /\ cr'.create = "pending"
        /\ cr'.keyAnn = None /\ cr'.roleAnn = None
        /\ cr'.keySt = cr.keySt /\ cr'.roleSt = cr.roleSt
    BY <1>b, <2>1, <2>2, <2>3, MergedFields DEF Store
  <2>6. pc'[w] = "create" /\ mem'[w] = cr' /\ newRole'[w] = None /\ issued' = issued
    BY <1>a, <2>2, <2>3 DEF Store, Goto, TypeOK, local, cloud
  <2>7. OnlyMoves(w)  BY <1>a, <2>2 DEF Goto, OnlyMoves, TypeOK, local
  <2>8. StoredInv'  BY <1>a, <2>3, <2>4, <2>5 DEF StoredInv
  <2>9. issued \subseteq {cr.keyAnn, cr.keySt}  BY <2>3 DEF IInv, KeyRecorded
  <2>10. FreshInv(w)' /\ StepInv(w)'
    BY <2>3, <2>5, <2>6 DEF FreshInv, SameIDs, StepInv, BeforePending
  <2>11. CreationInv(w)'
    BY <2>3, <2>5, <2>6, <2>9 DEF CreationInv, InCreation
  <2>12. KeyRecorded'  BY <2>5 DEF KeyRecorded
  <2>13. \A v \in Workers : ~InCreation(v)  BY <2>3 DEF IInv, CreationInv
  <2>14. \/ UNCHANGED <<cr, fresh, synced>>
         \/ (\A v \in Workers : ~synced'[v]) /\ (\A v \in Workers \ {w} : ~fresh'[v])
    BY <2>2 DEF Store
  <2> QED
    BY <2>2, <2>3, <2>7, <2>8, <2>10, <2>11, <2>12, <2>13, <2>14, StoringStep
    DEF cloud, WorkerInv
<1>2. CASE ~fresh[w]
  <2>1. Goto(w, "status") /\ UNCHANGED <<cr, cloud, mem, fresh, cache, synced, local>>
    BY <1>2 DEF SetPending, UpdateResource
  <2> QED  BY <1>2, <1>c, <2>1, RefusedUpdate
<1> QED  BY <1>1, <1>2

\* The key is the first one, and the worker that got it holds it.
LEMMA CreateKeyStep ==
    ASSUME IInv, NEW w \in Workers, TypeOK', CreateKey(w)
    PROVE  IInv'
<1>a. TypeOK /\ WorkerInv(w) /\ StoredInv  BY DEF IInv, WorkerInv
<1>b. mem[w] \in Resource /\ cr \in Resource  BY <1>a DEF TypeOK
<1>c. pc[w] = "createKey" /\ InCreation(w)  BY DEF CreateKey, InCreation
<1>1. PICK k \in Keys \ issued :
        /\ issued' = issued \cup {k}
        /\ roleOf' = [roleOf EXCEPT ![k] = newRole[w]]
        /\ mem' = [mem EXCEPT ![w].keyAnn = k, ![w].roleAnn = newRole[w]]
  BY IssuedIDs DEF CreateKey
<1>2. mem'[w] = [mem[w] EXCEPT !.keyAnn = k, !.roleAnn = newRole[w]]
  BY <1>a, <1>1 DEF TypeOK
<1>3. /\ mem'[w].keyAnn = k /\ mem'[w].roleAnn = newRole[w]
      /\ mem'[w].keySt = mem[w].keySt /\ mem'[w].roleSt = mem[w].roleSt
      /\ mem'[w].fin = mem[w].fin /\ mem'[w].create = mem[w].create
  BY <1>b, <1>2 DEF Resource
<1>4. /\ cr.exists /\ cr.fin /\ cr.create = "pending" /\ cr.keyAnn = None
      /\ cr.keySt = None /\ mem[w].keyAnn = None /\ newRole[w] # None
      /\ mem[w].keySt = cr.keySt
      /\ issued \subseteq {mem[w].keyAnn, cr.keySt}
  BY <1>a, <1>c DEF WorkerInv, CreationInv
<1>5. issued = {}  BY <1>a, <1>4 DEF TypeOK
<1>6. /\ pc'[w] = "writeSecret" /\ OnlyMoves(w)
      /\ UNCHANGED <<cr, fresh, cache, synced, obs, newRole, tries>>
  BY <1>a, <1>1 DEF CreateKey, Goto, OnlyMoves, TypeOK, local
<1>7. roleOf'[k] = newRole[w]  BY <1>a, <1>1 DEF TypeOK
<1>8. StoredInv'  BY <1>a, <1>4, <1>6 DEF StoredInv
<1>9. CacheInv'  BY <1>6 DEF IInv, CacheInv
<1>10. FreshInv(w)'
  BY <1>a, <1>c, <1>3, <1>6 DEF WorkerInv, FreshInv, SameIDs, BeforePending
<1>11. StepInv(w)'  BY <1>6 DEF StepInv, BeforePending
<1>12. CreationInv(w)'
  BY <1>1, <1>3, <1>4, <1>5, <1>6, <1>7 DEF CreationInv, InCreation
<1>13. ASSUME NEW v \in Workers, v # w  PROVE WorkerInv(v)'
  <2>1. ~InCreation(v)  BY <1>c, <1>13 DEF IInv, OneCreator
  <2>2. FreshInv(v)'  BY <1>6, <1>13 DEF IInv, OnlyMoves, FreshInv, SameIDs
  <2>3. StepInv(v)'  BY <1>6, <1>13 DEF IInv, OnlyMoves, StepInv, IDsKnown
  <2>4. CreationInv(v)'  BY <1>6, <1>13, <2>1 DEF OnlyMoves, CreationInv, InCreation
  <2> QED  BY <2>2, <2>3, <2>4 DEF WorkerInv
<1>14. OneCreator'
  <2>1. \A v \in Workers : InCreation(v)' => InCreation(v)
    BY <1>c, <1>6 DEF OnlyMoves, InCreation
  <2> QED  BY <2>1 DEF IInv, OneCreator
<1>15. KeyRecorded'  BY <1>4, <1>6 DEF KeyRecorded
<1>16. OneKey'  BY <1>1, <1>5 DEF OneKey
<1>17. \A v \in Workers : (FreshInv(v) /\ StepInv(v) /\ CreationInv(v))'
  BY <1>10, <1>11, <1>12, <1>13 DEF WorkerInv
<1> QED  BY <1>8, <1>9, <1>14, <1>15, <1>16, <1>17 DEF IInv

\* The outcome of Create is stored together with the IDs the worker holds.
LEMMA CriticalStep ==
    ASSUME IInv, NEW w \in Workers, TypeOK', CriticalAnnotations(w)
    PROVE  IInv'
<1>a. TypeOK /\ WorkerInv(w) /\ StoredInv  BY DEF IInv, WorkerInv
<1>b. mem[w] \in Resource /\ cr \in Resource  BY <1>a DEF TypeOK
<1>c. pc[w] = "critical" /\ InCreation(w)  BY DEF CriticalAnnotations, InCreation
<1> DEFINE m == [mem[w] EXCEPT !.fin = cr.fin]
<1>1. m \in Resource /\ m.fin = cr.fin /\ m.create = mem[w].create
      /\ m.keyAnn = mem[w].keyAnn /\ m.roleAnn = mem[w].roleAnn
  BY <1>b DEF Resource
<1> HIDE DEF m
<1>2. /\ Store(w, Merged(m))
      /\ mem' = [mem EXCEPT ![w] = [Merged(m) EXCEPT !.ready = "Creating"]]
      /\ Goto(w, IF mem[w].create = "succeeded" THEN "publishCreated" ELSE "status")
      /\ UNCHANGED <<cloud, cache, local>>
  BY DEF CriticalAnnotations, m
<1>3. /\ cr.exists /\ cr.fin /\ cr.keyAnn = None /\ mem[w].create # "pending"
      /\ mem[w].keyAnn = None <=> mem[w].roleAnn = None
      /\ issued \subseteq {mem[w].keyAnn, cr.keySt}
      /\ mem[w].keyAnn # None => /\ cr.keySt = None
                                 /\ mem[w].keyAnn \in issued
                                 /\ roleOf[mem[w].keyAnn] = mem[w].roleAnn
      /\ mem[w].create = "succeeded" /\ newRole[w] # None => mem[w].keyAnn # None
  BY <1>a, <1>c DEF WorkerInv, CreationInv
<1>4. cr.roleSt = None  BY <1>a, <1>3 DEF StoredInv
<1>5. /\ cr'.exists = cr.exists /\ cr'.fin = cr.fin /\ cr'.create = mem[w].create
      /\ cr'.keyAnn = mem[w].keyAnn /\ cr'.roleAnn = mem[w].roleAnn
      /\ cr'.keySt = cr.keySt /\ cr'.roleSt = cr.roleSt
  BY <1>b, <1>1, <1>2, MergedFields DEF Store
<1>6. mem'[w] = [cr' EXCEPT !.ready = "Creating"] /\ cr' \in Resource
  BY <1>a, <1>2 DEF Store, TypeOK
<1>7. /\ mem'[w].fin = cr'.fin /\ mem'[w].create = cr'.create
      /\ mem'[w].keyAnn = cr'.keyAnn /\ mem'[w].keySt = cr'.keySt
      /\ mem'[w].roleSt = cr'.roleSt
  BY <1>6 DEF Resource
<1>8. /\ pc'[w] = IF mem[w].create = "succeeded" THEN "publishCreated" ELSE "status"
      /\ UNCHANGED <<issued, roleOf, newRole, obs, tries, cache>>
      /\ OnlyMoves(w)
  BY <1>a, <1>2 DEF Goto, OnlyMoves, TypeOK, local, cloud
<1>9. StoredInv'  BY <1>3, <1>4, <1>5, <1>8 DEF StoredInv
<1>10. FreshInv(w)'
  BY <1>3, <1>5, <1>7, <1>8 DEF FreshInv, SameIDs, BeforePending
<1>11. StepInv(w)'
  BY <1>3, <1>5, <1>7, <1>8 DEF StepInv, BeforePending
<1>12. CreationInv(w)' /\ ~InCreation(w)'
  BY <1>8 DEF CreationInv, InCreation
<1>13. KeyRecorded'  BY <1>3, <1>5, <1>8 DEF KeyRecorded
<1>14. \A v \in Workers \ {w} : ~InCreation(v)  BY <1>c DEF IInv, OneCreator
<1>15. \/ UNCHANGED <<cr, fresh, synced>>
       \/ (\A v \in Workers : ~synced'[v]) /\ (\A v \in Workers \ {w} : ~fresh'[v])
  BY <1>2 DEF Store
<1> QED
  BY <1>8, <1>9, <1>10, <1>11, <1>12, <1>13, <1>14, <1>15, StoringStep DEF WorkerInv

\* Nobody is creating when the finalizer goes.
LEMMA RemoveFinalizerStep ==
    ASSUME IInv, NEW w \in Workers, TypeOK', RemoveFinalizer(w)
    PROVE  IInv'
<1>a. TypeOK /\ WorkerInv(w) /\ StoredInv  BY DEF IInv, WorkerInv
<1>b. cr \in Resource  BY <1>a DEF TypeOK
<1>c. pc[w] = "removeFinalizer" /\ ~InCreation(w)  BY DEF RemoveFinalizer, InCreation
<1>1. CASE fresh[w]
  <2>1. /\ cr' = [cr EXCEPT !.exists = FALSE, !.fin = FALSE]
        /\ fresh' = [v \in Workers |-> FALSE]
        /\ synced' = [v \in Workers |-> FALSE]
        /\ End(w)
        /\ UNCHANGED <<cloud, cache>>
    BY <1>1 DEF RemoveFinalizer
  <2>2. /\ ~cr'.exists
        /\ cr'.keyAnn = cr.keyAnn /\ cr'.roleAnn = cr.roleAnn
        /\ cr'.keySt = cr.keySt /\ cr'.roleSt = cr.roleSt
    BY <1>b, <2>1 DEF Resource
  <2>3. cr.create # "pending"
    BY <1>a, <1>c, <1>1 DEF WorkerInv, FreshInv, StepInv, BeforePending
  <2>4. pc'[w] = "idle" /\ obs'[w] = "none" /\ newRole'[w] = None /\ OnlyMoves(w)
    BY <1>a, <2>1 DEF End, OnlyMoves, TypeOK
  <2>5. StoredInv'  BY <1>a, <2>1, <2>2 DEF StoredInv, cloud
  <2>6. WorkerInv(w)' /\ ~InCreation(w)'
    BY <2>4 DEF WorkerInv, FreshInv, StepInv, CreationInv, InCreation, BeforePending
  <2>7. KeyRecorded'  BY <2>2 DEF KeyRecorded
  <2>8. \A v \in Workers : ~InCreation(v)  BY <2>3 DEF IInv, CreationInv
  <2> QED  BY <2>1, <2>4, <2>5, <2>6, <2>7, <2>8, StoringStep DEF cloud
<1>2. CASE ~fresh[w]
  <2>1. Goto(w, "status") /\ UNCHANGED <<cr, cloud, mem, fresh, cache, synced, local>>
    BY <1>2 DEF RemoveFinalizer
  <2> QED  BY <1>2, <1>c, <2>1, RefusedUpdate
<1> QED  BY <1>1, <1>2

\* The status that is stored repeats the annotations.
LEMMA WriteStatusStep ==
    ASSUME IInv, NEW w \in Workers, TypeOK', WriteStatus(w)
    PROVE  IInv'
<1>a. TypeOK /\ WorkerInv(w) /\ StoredInv  BY DEF IInv, WorkerInv
<1>b. mem[w] \in Resource /\ cr \in Resource  BY <1>a DEF TypeOK
<1>c. pc[w] = "status" /\ ~InCreation(w)  BY DEF WriteStatus, InCreation
<1>d. /\ pc'[w] = "idle" /\ obs'[w] = "none" /\ newRole'[w] = None /\ OnlyMoves(w)
      /\ UNCHANGED <<cloud, cache>>
  BY <1>a DEF WriteStatus, End, OnlyMoves, TypeOK
<1>e. WorkerInv(w)' /\ ~InCreation(w)'
  BY <1>d DEF WorkerInv, FreshInv, StepInv, CreationInv, InCreation, BeforePending
<1>1. CASE fresh[w]
  <2>1. Store(w, MergedStatus(mem[w]))  BY <1>1 DEF WriteStatus
  <2>2. /\ cr'.exists = cr.exists /\ cr'.fin = cr.fin /\ cr'.create = cr.create
        /\ cr'.keyAnn = cr.keyAnn /\ cr'.roleAnn = cr.roleAnn
        /\ cr'.keySt = mem[w].keySt /\ cr'.roleSt = mem[w].roleSt
    BY <1>b, <2>1, MergedFields DEF Store
  <2>3. SameIDs(mem[w])  BY <1>a, <1>c, <1>1 DEF WorkerInv, FreshInv
  <2>4. StoredInv'
    BY <1>a, <1>d, <2>2, <2>3 DEF StoredInv, SameIDs, cloud
  <2>5. KeyRecorded'
    BY <1>a, <1>d, <2>2, <2>3 DEF IInv, KeyRecorded, SameIDs, TypeOK, cloud
  <2>6. ASSUME NEW v \in Workers, InCreation(v)  PROVE CreationKept
    <3>1. cr.keyAnn = None  BY <2>6 DEF IInv, CreationInv
    <3> QED  BY <2>2, <2>3, <3>1 DEF CreationKept, SameIDs
  <2>7. \/ UNCHANGED <<cr, fresh, synced>>
        \/ (\A v \in Workers : ~synced'[v]) /\ (\A v \in Workers \ {w} : ~fresh'[v])
    BY <2>1 DEF Store
  <2> QED  BY <1>d, <1>e, <2>4, <2>5, <2>6, <2>7, StoringStep DEF cloud
<1>2. CASE ~fresh[w]
  <2>1. UNCHANGED <<cr, fresh, synced>>  BY <1>2 DEF WriteStatus
  <2> QED  BY <1>d, <1>e, <2>1, QuietStep DEF cloud, RolesStay
<1> QED  BY <1>1, <1>2

\* Versions stored by users outdate every copy and leave creation alone.
LEMMA UserStep ==
    ASSUME IInv, TypeOK', UserDelete \/ UserEdit
    PROVE  IInv'
<1>a. TypeOK /\ StoredInv /\ cr \in Resource  BY DEF IInv, TypeOK
<1>1. /\ fresh' = [v \in Workers |-> FALSE]
      /\ synced' = [v \in Workers |-> FALSE]
      /\ UNCHANGED <<cloud, pc, mem, cache, local>>
  BY DEF UserDelete, UserEdit, StoreByUser
<1>2. /\ cr'.exists = cr.exists \/ (~cr'.exists /\ ~cr.fin)
      /\ cr'.fin = cr.fin /\ cr'.create = cr.create
      /\ cr'.keyAnn = cr.keyAnn /\ cr'.roleAnn = cr.roleAnn
      /\ cr'.keySt = cr.keySt /\ cr'.roleSt = cr.roleSt
  <2>1. CASE UserDelete  BY <1>a, <2>1 DEF UserDelete, StoreByUser, Resource
  <2>2. CASE UserEdit
    <3>1. PICK b \in BucketLists : cr' = [cr EXCEPT !.buckets = b]
      BY <2>2 DEF UserEdit, StoreByUser
    <3> QED  BY <1>a, <3>1 DEF Resource
  <2> QED  BY <2>1, <2>2
<1>3. StoredInv'  BY <1>a, <1>1, <1>2 DEF StoredInv, cloud
<1>4. CacheInv'  BY <1>1 DEF CacheInv
<1>5. ASSUME NEW v \in Workers  PROVE (FreshInv(v) /\ StepInv(v) /\ CreationInv(v))'
  <2>1. FreshInv(v)'  BY <1>1 DEF FreshInv
  <2>2. StepInv(v)'  BY <1>1 DEF IInv, StepInv, IDsKnown, local
  <2>3. CreationInv(v)'
    BY <1>1, <1>2 DEF IInv, CreationInv, InCreation, local, cloud
  <2> QED  BY <2>1, <2>2, <2>3
<1>6. OneCreator'  BY <1>1 DEF IInv, OneCreator, InCreation
<1>7. KeyRecorded' /\ OneKey'  BY <1>1, <1>2 DEF IInv, KeyRecorded, OneKey, cloud
<1> QED  BY <1>3, <1>4, <1>5, <1>6, <1>7 DEF IInv

\* The initial resources satisfy the invariant.
LEMMA InitInv == Init => IInv
<1> SUFFICES ASSUME Init PROVE IInv
  OBVIOUS
<1>1. /\ cr \in Resource
      /\ cr.keyAnn = None /\ cr.roleAnn = None /\ cr.roleSt = None
      /\ cr.exists /\ cr.create # "pending"
      /\ issued \subseteq Keys /\ keys \subseteq Keys
      /\ secret \in {"none", "empty", "other"} \cup Keys
      /\ \A k \in issued : issued = {k} /\ cr.keySt = k
      /\ ~cr.fin => cr.keySt = None
  <2>1. CASE InitNew
    BY <2>1 DEF InitNew, NewResource, Resource
  <2>2. CASE InitLegacy
    <3>1. PICK b \in BucketLists, k \in Keys :
            cr = LegacyResource(b, k) /\ secret = k /\ keys = {k} /\ issued = {k}
      <4>1. Keys \in (SUBSET Keys) \cup (SUBSET Roles)  OBVIOUS
      <4>2. Issue(Keys) \subseteq Keys  BY <4>1, IssueAssumption, Zenon
      <4> QED  BY <2>2, <4>2 DEF InitLegacy
    <3>2. cr = [exists |-> TRUE, deleting |-> FALSE, fin |-> TRUE,
                create |-> "succeeded", keyAnn |-> None, roleAnn |-> None,
                keySt |-> k, roleSt |-> None, ready |-> "Available",
                buckets |-> b, stBuckets |-> b]
      BY <3>1 DEF LegacyResource, NewResource
    <3>3. cr \in Resource  BY <3>2 DEF Resource
    <3> QED  BY <3>1, <3>2, <3>3
  <2> QED  BY <2>1, <2>2 DEF Init
<1>2. NewResource(NoBuckets) \in Resource  BY <1>1, StoredTyping
<1>3. TypeOK
  <2>1. /\ pc \in [Workers -> Steps]
        /\ mem \in [Workers -> Resource] /\ cache \in [Workers -> Resource]
        /\ fresh \in [Workers -> BOOLEAN] /\ synced \in [Workers -> BOOLEAN]
    BY <1>1, <1>2 DEF Init, Steps
  <2>2. /\ obs \in [Workers -> {"none", "absent", "gone", "stale", "current"}]
        /\ newRole \in [Workers -> Roles \cup {None}]
        /\ tries \in [Workers -> 0 .. MaxTries]
    BY DEF Init
  <2>3. /\ roles \subseteq Roles /\ roleOf \in [Keys -> Roles \cup {None}]
        /\ policy \in [Roles -> BucketLists \cup {None}]
    BY DEF Init
  <2>4. blind \in BOOLEAN  BY DEF Init
  <2>5. faults \in 0 .. MaxFaults /\ edits \in 0 .. MaxEdits  BY DEF Init
  <2> QED  BY <1>1, <2>1, <2>2, <2>3, <2>4, <2>5 DEF TypeOK
<1>4. StoredInv  BY <1>1 DEF StoredInv
<1>5. CacheInv  BY DEF Init, CacheInv
<1>6. ASSUME NEW w \in Workers  PROVE FreshInv(w) /\ StepInv(w) /\ CreationInv(w)
  <2>1. pc[w] = "idle" /\ obs[w] = "none" /\ newRole[w] = None  BY DEF Init
  <2> QED  BY <2>1 DEF FreshInv, StepInv, CreationInv, InCreation, BeforePending
<1>7. OneCreator  BY DEF Init, OneCreator, InCreation
<1>8. KeyRecorded /\ OneKey  BY <1>1 DEF KeyRecorded, OneKey
<1> QED  BY <1>3, <1>4, <1>5, <1>6, <1>7, <1>8 DEF IInv

\* Every step keeps the invariant.
LEMMA NextInv == IInv /\ [Next]_vars => IInv'
<1> SUFFICES ASSUME IInv, [Next]_vars PROVE IInv'
  OBVIOUS
<1>t. TypeOK'  BY NextTyping DEF IInv
<1>1. ASSUME NEW w \in Workers, Reconcile(w)  PROVE IInv'
  BY <1>t, <1>1, QuietActions, AddFinalizerStep, SetPendingStep, CreateKeyStep,
     CriticalStep, RemoveFinalizerStep, WriteStatusStep DEF Reconcile
<1>2. ASSUME NEW w \in Workers, Crash(w)  PROVE IInv'
  BY <1>t, <1>2, QuietActions
<1>3. ASSUME NEW w \in Workers, CacheSync(w)  PROVE IInv'
  <2>1. CacheInv'  BY <1>3 DEF IInv, CacheInv, CacheSync, TypeOK
  <2> QED
    BY <1>t, <1>3, <2>1
    DEF IInv, CacheSync, cloud, local, StoredInv, FreshInv, SameIDs, StepInv, IDsKnown,
        CreationInv, InCreation, OneCreator, KeyRecorded, OneKey
<1>4. CASE UserDelete \/ UserEdit
  BY <1>t, <1>4, UserStep
<1>5. CASE UserSecret
  BY <1>t, <1>5
  DEF IInv, UserSecret, cloud, local, StoredInv, CacheInv, FreshInv, SameIDs, StepInv,
      IDsKnown, CreationInv, InCreation, OneCreator, KeyRecorded, OneKey
<1>6. CASE UNCHANGED vars
  BY <1>t, <1>6
  DEF IInv, vars, cloud, local, StoredInv, CacheInv, FreshInv, SameIDs, StepInv,
      IDsKnown, CreationInv, InCreation, OneCreator, KeyRecorded, OneKey
<1> QED  BY <1>1, <1>2, <1>3, <1>4, <1>5, <1>6 DEF Next

-----------------------------------------------------------------------------
(* Theorems.                                                               *)

\* The inductive invariant holds in every state.
THEOREM Invariance == Spec => []IInv
<1>1. Init => IInv  BY InitInv
<1>2. IInv /\ [Next]_vars => IInv'  BY NextInv
<1> QED  BY <1>1, <1>2, PTL DEF Spec

\* Type correctness of the reconcile loop and of the Exoscale state.
THEOREM TypeCorrect == Spec => []TypeOK
<1>1. IInv => TypeOK  BY DEF IInv
<1> QED  BY <1>1, Invariance, PTL

\* Create never makes Exoscale confirm a second key for a resource, for any
\* number of operator processes, faults and edits.
THEOREM AtMostOneKey == Spec => []OneKey
<1>1. IInv => OneKey  BY DEF IInv
<1> QED  BY <1>1, Invariance, PTL

\* A confirmed key is recorded in the resource, or the resource is marked.
THEOREM NoKeyForgotten == Spec => []KeyRecorded
<1>1. IInv => KeyRecorded  BY DEF IInv
<1> QED  BY <1>1, Invariance, PTL

\* Two operator processes never run Create for a resource at the same time.
THEOREM CreatorsExclude == Spec => []OneCreator
<1>1. IInv => OneCreator  BY DEF IInv
<1> QED  BY <1>1, Invariance, PTL

\* Delete removes the role that its key was created with.
THEOREM RoleMatchesKey == Spec => []RoleOfKeyRecorded
<1>1. IInv => RoleOfKeyRecorded  BY DEF IInv, StoredInv, RoleOfKeyRecorded
<1> QED  BY <1>1, Invariance, PTL
=============================================================================
