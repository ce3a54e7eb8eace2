---------------------------- MODULE BucketProofs ----------------------------
(***************************************************************************)
(* What is proved of module Bucket, for any number of operator processes,  *)
(* Bucket resources, names, faults and edits: the invariants a run checks  *)
(* follow from BInv, which every step preserves.                           *)
(***************************************************************************)
EXTENDS BucketInv, TLAPS

(* Copies and versions.                                                    *)

\* A worker in a reconcile has a resource and a copy of it.
LEMMA Working ==
    ASSUME TypeOK, NEW w \in Workers, StepInv(w), pc[w] # "idle"
    PROVE  job[w] \in Resources /\ mem[w] \in Resource /\ cr[job[w]] \in Resource
<1>1. job[w] \in Resources  BY DEF TypeOK, StepInv
<1>2. job[w] # None  BY <1>1, NamesAssumption
<1> QED  BY <1>1, <1>2 DEF TypeOK

\* Assignments of the handlers to a copy make a copy.
LEMMA CopyTyping ==
    ASSUME NEW m \in Resource
    PROVE  /\ \A a \in {"none", "Creating", "Available", "Deleting"},
                 s \in {"none", "success", "error"} :
                 [m EXCEPT !.ready = a, !.sync = s] \in Resource
           /\ [m EXCEPT !.stName = m.name, !.ready = "Available", !.found = TRUE] \in Resource
           /\ [m EXCEPT !.fin = TRUE] \in Resource
           /\ [m EXCEPT !.create = "pending"] \in Resource
           /\ [m EXCEPT !.lock = TRUE, !.create = "succeeded", !.ready = "Creating",
                        !.sync = "success"] \in Resource
           /\ [m EXCEPT !.create = "failed", !.ready = "Creating", !.sync = "error"]
                 \in Resource
BY DEF Resource

\* The conditions of a copy.
LEMMA CopyConditions ==
    ASSUME NEW m \in Resource, NEW a, NEW s
    PROVE  LET x == [m EXCEPT !.ready = a, !.sync = s]
           IN /\ x.ready = a /\ x.sync = s
              /\ x.exists = m.exists /\ x.deleting = m.deleting /\ x.fin = m.fin
              /\ x.create = m.create /\ x.lock = m.lock /\ x.name = m.name
              /\ x.policy = m.policy /\ x.stName = m.stName /\ x.found = m.found
BY DEF Resource

\* What Update and Status().Update store.
LEMMA MergedFields ==
    ASSUME NEW r \in Resources, cr[r] \in Resource, NEW m \in Resource
    PROVE  /\ Merged(r, m) \in Resource /\ MergedStatus(r, m) \in Resource
           /\ Merged(r, m).fin = m.fin /\ Merged(r, m).create = m.create
           /\ Merged(r, m).lock = m.lock /\ Merged(r, m).exists = cr[r].exists
           /\ Merged(r, m).deleting = cr[r].deleting /\ Merged(r, m).name = cr[r].name
           /\ Merged(r, m).policy = cr[r].policy /\ Merged(r, m).stName = cr[r].stName
           /\ Merged(r, m).ready = cr[r].ready /\ Merged(r, m).sync = cr[r].sync
           /\ MergedStatus(r, m).fin = cr[r].fin /\ MergedStatus(r, m).create = cr[r].create
           /\ MergedStatus(r, m).exists = cr[r].exists
           /\ MergedStatus(r, m).deleting = cr[r].deleting
           /\ MergedStatus(r, m).name = cr[r].name
           /\ MergedStatus(r, m).policy = cr[r].policy
           /\ MergedStatus(r, m).stName = m.stName
           /\ MergedStatus(r, m).ready = m.ready /\ MergedStatus(r, m).sync = m.sync
           /\ MergedStatus(r, m).lock = cr[r].lock
<1>1. /\ Merged(r, m) \in Resource
      /\ Merged(r, m).fin = m.fin /\ Merged(r, m).create = m.create
      /\ Merged(r, m).lock = m.lock /\ Merged(r, m).exists = cr[r].exists
      /\ Merged(r, m).deleting = cr[r].deleting /\ Merged(r, m).name = cr[r].name
      /\ Merged(r, m).policy = cr[r].policy /\ Merged(r, m).stName = cr[r].stName
      /\ Merged(r, m).ready = cr[r].ready /\ Merged(r, m).sync = cr[r].sync
  BY DEF Merged, Resource
<1>2. /\ MergedStatus(r, m) \in Resource
      /\ MergedStatus(r, m).fin = cr[r].fin /\ MergedStatus(r, m).create = cr[r].create
      /\ MergedStatus(r, m).exists = cr[r].exists
      /\ MergedStatus(r, m).deleting = cr[r].deleting
      /\ MergedStatus(r, m).name = cr[r].name
      /\ MergedStatus(r, m).policy = cr[r].policy
      /\ MergedStatus(r, m).stName = m.stName
      /\ MergedStatus(r, m).ready = m.ready /\ MergedStatus(r, m).sync = m.sync
      /\ MergedStatus(r, m).lock = cr[r].lock
  BY DEF MergedStatus, Resource
<1> QED  BY <1>1, <1>2

-----------------------------------------------------------------------------
(* Type correctness.                                                       *)

\* The copy of one worker changes, or is dropped.
LEMMA MemTyping ==
    ASSUME TypeOK, NEW w \in Workers, NEW m \in Resource,
           mem' = [mem EXCEPT ![w] = m], UNCHANGED job
    PROVE  /\ mem' \in [Workers -> Resource \cup {None}]
           /\ \A v \in Workers : job'[v] # None => mem'[v] \in Resource
           /\ mem'[w] = m
           /\ \A v \in Workers \ {w} : mem'[v] = mem[v]
BY DEF TypeOK

\* The conditions of the copy of one worker change.
LEMMA ConditionsTyping ==
    ASSUME TypeOK, NEW w \in Workers, mem[w] \in Resource, UNCHANGED job,
           NEW a \in {"none", "Creating", "Available", "Deleting"},
           NEW s \in {"none", "success", "error"}, Conditions(w, a, s)
    PROVE  /\ mem' \in [Workers -> Resource \cup {None}]
           /\ \A v \in Workers : job'[v] # None => mem'[v] \in Resource
           /\ mem'[w] = [mem[w] EXCEPT !.ready = a, !.sync = s]
           /\ \A v \in Workers \ {w} : mem'[v] = mem[v]
<1>1. mem' = [mem EXCEPT ![w] = [mem[w] EXCEPT !.ready = a, !.sync = s]]
  BY DEF Conditions, TypeOK
<1>2. [mem[w] EXCEPT !.ready = a, !.sync = s] \in Resource  BY CopyTyping
<1> QED  BY <1>1, <1>2, MemTyping

\* A reconcile ends.
LEMMA EndTyping ==
    ASSUME TypeOK, NEW w \in Workers, End(w)
    PROVE  /\ pc' \in [Workers -> Steps]
           /\ job' \in [Workers -> Resources \cup {None}]
           /\ mem' \in [Workers -> Resource \cup {None}]
           /\ \A v \in Workers : job'[v] # None => mem'[v] \in Resource
           /\ fresh' \in [Workers -> BOOLEAN]
BY DEF TypeOK, End, Steps

\* A version is stored.
LEMMA StoredTyping ==
    ASSUME TypeOK, NEW r \in Resources, NEW new \in Resource, Stored(r, new)
    PROVE  /\ cr' \in [Resources -> Resource]
           /\ synced' \in [Workers -> [Resources -> BOOLEAN]]
           /\ cr'[r] = new
           /\ \A s \in Resources \ {r} : cr'[s] = cr[s]
BY DEF TypeOK, Stored

\* ... by a worker or a user.
LEMMA StoreTyping ==
    ASSUME TypeOK, NEW r \in Resources, NEW w, NEW new \in Resource, Store(r, w, new)
    PROVE  /\ cr' \in [Resources -> Resource]
           /\ synced' \in [Workers -> [Resources -> BOOLEAN]]
           /\ fresh' \in [Workers -> BOOLEAN]
BY StoredTyping DEF Store

\* What a worker does within a reconcile.
LEMMA ContinueTyping ==
    ASSUME TypeOK, NEW w \in Workers, StepInv(w),
           Continue(w) \/ CallFails(w) \/ Crash(w)
    PROVE  TypeOK'
<1> USE DEF Goto, Steps, store, copies, users, budgets, Fault
<1>a. pc[w] # "idle"
  BY DEF Continue, Connect, Observe, AddFinalizer, SetPending, MakeBucket, RecheckBucket,
     CriticalAnnotations, DeleteObjects, RemoveBucket, RemoveFinalizer, WriteStatus,
     CallFails, Crash
<1>b. /\ job[w] \in Resources /\ mem[w] \in Resource /\ cr[job[w]] \in Resource
      /\ mem[w].ready \in {"none", "Creating", "Available", "Deleting"}
      /\ mem[w].sync \in {"none", "success", "error"} /\ mem[w].name \in Names
  <2>1. job[w] \in Resources /\ mem[w] \in Resource /\ cr[job[w]] \in Resource
    BY <1>a, Working
  <2> QED  BY <2>1 DEF Resource
<1> DEFINE Typed == /\ mem' \in [Workers -> Resource \cup {None}]
                    /\ \A v \in Workers : job'[v] # None => mem'[v] \in Resource
           Moved == pc' \in [Workers -> Steps]
<1>f. ASSUME Failed(w), UNCHANGED job  PROVE Typed /\ Moved
  <2>1. Conditions(w, mem[w].ready, "error")  BY <1>f DEF Failed
  <2>2. Typed  BY <1>b, <1>f, <2>1, ConditionsTyping
  <2>3. Moved  BY <1>f DEF Failed, TypeOK
  <2> QED  BY <2>2, <2>3
<1>c. ASSUME UNCHANGED job, CreateSucceeds(w) \/ CreateFails(w)  PROVE Typed /\ Moved
  <2>1. Moved  BY <1>c DEF CreateSucceeds, CreateFails, TypeOK
  <2>2. CASE CreateSucceeds(w)
    <3>1. mem' = [mem EXCEPT ![w] = [mem[w] EXCEPT !.lock = TRUE, !.create = "succeeded",
                                        !.ready = "Creating", !.sync = "success"]]
      BY <2>2 DEF CreateSucceeds, TypeOK
    <3> QED  BY <1>b, <1>c, <2>1, <3>1, CopyTyping, MemTyping
  <2>3. CASE CreateFails(w)
    <3>1. mem' = [mem EXCEPT ![w] = [mem[w] EXCEPT !.create = "failed",
                                        !.ready = "Creating", !.sync = "error"]]
      BY <2>3 DEF CreateFails, TypeOK
    <3> QED  BY <1>b, <1>c, <2>1, <3>1, CopyTyping, MemTyping
  <2> QED  BY <1>c, <2>2, <2>3
<1>u. ASSUME NEW m \in Resource, NEW next \in Steps, UpdateResource(w, m, next), UNCHANGED job
      PROVE  /\ Typed /\ Moved /\ cr' \in [Resources -> Resource]
             /\ synced' \in [Workers -> [Resources -> BOOLEAN]]
             /\ fresh' \in [Workers -> BOOLEAN]
  <2> DEFINE new == Merged(job[w], m)
             x == [new EXCEPT !.found = m.found]
  <2>1. new \in Resource  BY <1>b, <1>u, MergedFields
  <2>2. x \in Resource  BY <2>1, <1>u DEF Resource
  <2>3. CASE fresh[w]
    <3>1. /\ Store(job[w], w, new) /\ mem' = [mem EXCEPT ![w] = x] /\ Goto(w, next)
      BY <1>u, <2>3 DEF UpdateResource
    <3> HIDE DEF new, x
    <3>2. Typed  BY <1>u, <2>2, <3>1, MemTyping
    <3>3. Moved  BY <1>u, <3>1 DEF TypeOK
    <3> QED  BY <1>b, <2>1, <3>1, <3>2, <3>3, StoreTyping
  <2>4. CASE ~fresh[w]
    <3>1. Failed(w) /\ UNCHANGED <<cr, fresh, synced>>
      BY <1>u, <2>4 DEF UpdateResource
    <3> QED  BY <1>f, <1>u, <3>1 DEF TypeOK
  <2> QED  BY <2>3, <2>4
<1>1. CASE Connect(w)
  <2>1. Typed /\ Moved
    BY <1>1, <1>f DEF Connect, NoopClient, TypeOK
  <2> QED  BY <1>1, <2>1 DEF Connect, TypeOK
<1>2. CASE Observe(w)
  <2>1. Typed /\ Moved
    <3>1. CASE Exists(mem[w].name) /\ mem[w].lock
      <4>1. mem' = [mem EXCEPT ![w] = [mem[w] EXCEPT !.stName = mem[w].name,
                                          !.ready = "Available", !.found = TRUE]]
            /\ UNCHANGED job
        BY <1>2, <3>1 DEF Observe, TypeOK
      <4>2. Typed  BY <1>b, <4>1, CopyTyping, MemTyping
      <4>3. Moved  BY <1>2, <3>1 DEF Observe, TypeOK
      <4> QED  BY <4>2, <4>3
    <3>2. CASE Exists(mem[w].name) /\ ~mem[w].lock  BY <1>2, <1>f, <3>2 DEF Observe
    <3>3. CASE ~Exists(mem[w].name)  BY <1>2, <3>3 DEF Observe, TypeOK
    <3> QED  BY <3>1, <3>2, <3>3
  <2> QED  BY <1>2, <2>1 DEF Observe, TypeOK
<1>3. CASE AddFinalizer(w)
  <2>1. UNCHANGED <<store, job, cache, budgets>>  BY <1>3 DEF AddFinalizer
  <2>2. CASE ~mem[w].fin
    <3>1. UpdateResource(w, [mem[w] EXCEPT !.fin = TRUE], "finalizer")
      BY <1>3, <2>2 DEF AddFinalizer
    <3> QED  BY <1>b, <1>u, <2>1, <3>1, CopyTyping DEF TypeOK
  <2>3. CASE mem[w].fin /\ ~mem[w].found
    BY <1>3, <2>1, <2>3 DEF AddFinalizer, TypeOK
  <2>4. CASE mem[w].fin /\ mem[w].found
    <3>1. /\ Conditions(w, mem[w].ready, "success") /\ Goto(w, "status")
          /\ UNCHANGED <<cr, fresh, synced>>
      BY <1>3, <2>4 DEF AddFinalizer
    <3>2. Typed  BY <1>b, <2>1, <3>1, ConditionsTyping
    <3> QED  BY <2>1, <3>1, <3>2 DEF TypeOK
  <2> QED  BY <2>2, <2>3, <2>4
<1>4. CASE SetPending(w)
  <2>1. /\ UNCHANGED <<store, job, cache, budgets>>
        /\ UpdateResource(w, [mem[w] EXCEPT !.create = "pending"], "create")
    BY <1>4 DEF SetPending
  <2> QED  BY <1>b, <1>u, <2>1, CopyTyping DEF TypeOK
<1>m. ASSUME Made(mem[w].name, job[w])
      PROVE  maker' \in [Names -> Resources \cup {None}] /\ full' \in [Names -> BOOLEAN]
  BY <1>b, <1>m DEF Made, TypeOK
<1>5. CASE MakeBucket(w)
  <2>1. UNCHANGED <<cr, job, fresh, copies, users>>  BY <1>5 DEF MakeBucket
  <2>2. Typed /\ Moved  BY <1>5, <1>c, <2>1 DEF MakeBucket, TypeOK
  <2>3. maker' \in [Names -> Resources \cup {None}] /\ full' \in [Names -> BOOLEAN]
    BY <1>5, <1>m DEF MakeBucket, TypeOK
  <2>4. faults' \in 0 .. MaxFaults  BY <1>5, BoundsAssumption DEF MakeBucket, TypeOK
  <2> QED  BY <2>1, <2>2, <2>3, <2>4 DEF TypeOK
<1>6. CASE RecheckBucket(w)
  <2>1. UNCHANGED <<cr, store, job, fresh, copies, users>>  BY <1>6 DEF RecheckBucket
  <2>2. Typed /\ Moved  BY <1>6, <1>c, <2>1 DEF RecheckBucket
  <2>3. faults' \in 0 .. MaxFaults  BY <1>6, BoundsAssumption DEF RecheckBucket, TypeOK
  <2> QED  BY <2>1, <2>2, <2>3 DEF TypeOK
<1>7. CASE CriticalAnnotations(w)
  <2> DEFINE m == [mem[w] EXCEPT !.fin = cr[job[w]].fin]
             new == Merged(job[w], m)
             x == [new EXCEPT !.ready = "Creating", !.sync = mem[w].sync]
  <2>1. m \in Resource  BY <1>b DEF Resource
  <2>2. new \in Resource  BY <1>b, <2>1, MergedFields
  <2>3. x \in Resource  BY <1>b, <2>2, CopyTyping
  <2>4. /\ Store(job[w], w, new) /\ mem' = [mem EXCEPT ![w] = x] /\ Goto(w, "status")
        /\ UNCHANGED <<store, job, cache, budgets>>
    BY <1>7 DEF CriticalAnnotations
  <2> HIDE DEF m, new, x
  <2>5. Typed  BY <2>3, <2>4, MemTyping
  <2>6. /\ cr' \in [Resources -> Resource] /\ fresh' \in [Workers -> BOOLEAN]
        /\ synced' \in [Workers -> [Resources -> BOOLEAN]]
    BY <1>b, <2>2, <2>4, StoreTyping
  <2> QED  BY <2>4, <2>5, <2>6 DEF TypeOK
<1>8. CASE DeleteObjects(w)
  <2>1. UNCHANGED <<cr, maker, job, fresh, copies, users>>  BY <1>8 DEF DeleteObjects
  <2>2. full' \in [Names -> BOOLEAN]
    <3>1. full' = full \/ full' = [full EXCEPT ![mem[w].stName] = FALSE]
      BY <1>8 DEF DeleteObjects
    <3> QED  BY <3>1 DEF TypeOK
  <2>f. faults' \in 0 .. MaxFaults
    BY <1>8, BoundsAssumption DEF DeleteObjects, TypeOK
  <2>3. Moved  BY <1>8 DEF DeleteObjects, TypeOK
  <2>4. Typed
    <3>1. mem' = mem \/ Conditions(w, "Deleting", "error")  BY <1>8 DEF DeleteObjects
    <3> QED  BY <1>b, <2>1, <3>1, ConditionsTyping DEF TypeOK
  <2> QED  BY <2>1, <2>2, <2>3, <2>4, <2>f DEF TypeOK
<1>9. CASE RemoveBucket(w)
  <2>1. UNCHANGED <<cr, full, job, fresh, copies, users>> /\ Moved
    BY <1>9 DEF RemoveBucket, TypeOK
  <2>2. maker' \in [Names -> Resources \cup {None}] /\ faults' \in 0 .. MaxFaults
    BY <1>9, BoundsAssumption DEF RemoveBucket, Removed, TypeOK
  <2>3. Typed
    <3>1. Conditions(w, "Deleting", "success") \/ Conditions(w, "Deleting", "error")
      BY <1>9 DEF RemoveBucket
    <3> QED  BY <1>b, <2>1, <3>1, ConditionsTyping
  <2> QED  BY <2>1, <2>2, <2>3 DEF TypeOK
<1>10. CASE RemoveFinalizer(w)
  <2>1. UNCHANGED <<store, cache, budgets>>  BY <1>10 DEF RemoveFinalizer
  <2>2. CASE fresh[w]
    <3> DEFINE new == [cr[job[w]] EXCEPT !.exists = FALSE, !.fin = FALSE]
    <3>1. new \in Resource  BY <1>b DEF Resource
    <3>2. Stored(job[w], new) /\ End(w)  BY <1>10, <2>2 DEF RemoveFinalizer
    <3> HIDE DEF new
    <3> QED  BY <1>b, <2>1, <3>1, <3>2, StoredTyping, EndTyping DEF TypeOK
  <2>3. CASE ~fresh[w]
    <3>1. Failed(w) /\ UNCHANGED <<cr, job, fresh, synced>>
      BY <1>10, <2>3 DEF RemoveFinalizer
    <3> QED  BY <1>f, <2>1, <3>1 DEF TypeOK
  <2> QED  BY <2>2, <2>3
<1>11. CASE WriteStatus(w)
  <2> DEFINE new == IF fresh[w] THEN MergedStatus(job[w], mem[w]) ELSE cr[job[w]]
  <2>1. new \in Resource  BY <1>b, MergedFields
  <2>2. Stored(job[w], new) /\ End(w) /\ UNCHANGED <<store, cache, budgets>>
    BY <1>11 DEF WriteStatus
  <2> HIDE DEF new
  <2> QED  BY <1>b, <2>1, <2>2, StoredTyping, EndTyping DEF TypeOK
<1>12. CASE CallFails(w)
  <2>1. UNCHANGED <<cr, store, job, fresh, copies, users>> /\ Failed(w)
    BY <1>12 DEF CallFails
  <2>2. faults' \in 0 .. MaxFaults  BY <1>12, BoundsAssumption DEF CallFails, TypeOK
  <2> QED  BY <1>f, <2>1, <2>2 DEF TypeOK
<1>13. CASE Crash(w)
  <2>1. UNCHANGED <<cr, store, copies, users>> /\ End(w)  BY <1>13 DEF Crash
  <2>2. faults' \in 0 .. MaxFaults  BY <1>13, BoundsAssumption DEF Crash, TypeOK
  <2> QED  BY <2>1, <2>2, EndTyping DEF TypeOK
<1> QED  BY <1>1, <1>2, <1>3, <1>4, <1>5, <1>6, <1>7, <1>8, <1>9, <1>10, <1>11, <1>12, <1>13
         DEF Continue

\* Type correctness is preserved by every step.
LEMMA NextTyping ==
    ASSUME TypeOK, \A w \in Workers : StepInv(w), [Next]_vars
    PROVE  TypeOK'
<1> USE DEF store, copies, users, budgets
<1>1. ASSUME NEW w \in Workers, Continue(w) \/ CallFails(w) \/ Crash(w)  PROVE TypeOK'
  BY <1>1, ContinueTyping
<1>2. ASSUME NEW w \in Workers, NEW r \in Resources, StartReconcile(w, r)  PROVE TypeOK'
  <2>1. cache[w][r] \in Resource /\ r # None  BY NamesAssumption DEF TypeOK
  <2> DEFINE x == [cache[w][r] EXCEPT !.ready = "Creating", !.sync = "error"]
  <2>2. x \in Resource  BY <2>1, CopyTyping
  <2>3. \/ mem' = [mem EXCEPT ![w] = cache[w][r]]
        \/ mem' = [mem EXCEPT ![w] = x]
    BY <1>2 DEF StartReconcile
  <2> HIDE DEF x
  <2>4. job' = [job EXCEPT ![w] = r]  BY <1>2 DEF StartReconcile
  <2>5. /\ mem' \in [Workers -> Resource \cup {None}]
        /\ \A v \in Workers : job'[v] # None => mem'[v] \in Resource
    <3>1. PICK m \in Resource : mem' = [mem EXCEPT ![w] = m]  BY <2>1, <2>2, <2>3
    <3>2. mem' \in [Workers -> Resource \cup {None}]  BY <3>1 DEF TypeOK
    <3>3. ASSUME NEW v \in Workers, job'[v] # None  PROVE mem'[v] \in Resource
      <4>1. CASE v = w  BY <3>1, <4>1 DEF TypeOK
      <4>2. CASE v # w  BY <2>4, <3>1, <3>3, <4>2 DEF TypeOK
      <4> QED  BY <4>1, <4>2
    <3> QED  BY <3>2, <3>3
  <2>6. pc' \in [Workers -> Steps] /\ fresh' \in [Workers -> BOOLEAN]
    <3>1. pc' \in [Workers -> Steps]
      <4>1. Goto(w, "status") \/ Goto(w, "connect")  BY <1>2 DEF StartReconcile
      <4> QED  BY <4>1 DEF Goto, Steps, TypeOK
    <3>2. fresh' = [fresh EXCEPT ![w] = synced[w][r]]  BY <1>2 DEF StartReconcile
    <3>3. synced[w][r] \in BOOLEAN  BY DEF TypeOK
    <3> QED  BY <3>1, <3>2, <3>3 DEF TypeOK
  <2>7. UNCHANGED <<cr, store, copies, budgets>>  BY <1>2 DEF StartReconcile
  <2> QED  BY <2>4, <2>5, <2>6, <2>7 DEF TypeOK
<1>3. ASSUME NEW w \in Workers, NEW r \in Resources, CacheSync(w, r)  PROVE TypeOK'
  BY <1>3 DEF CacheSync, TypeOK
<1>4. ASSUME NEW r \in Resources, NEW new \in Resource, StoreByUser(r, new)
      PROVE  /\ cr' \in [Resources -> Resource] /\ fresh' \in [Workers -> BOOLEAN]
             /\ synced' \in [Workers -> [Resources -> BOOLEAN]] /\ purge' \subseteq Resources
             /\ UNCHANGED <<store, pc, job, mem, cache, faults, uploads, creds, losses>>
  BY <1>4, StoreTyping DEF StoreByUser, TypeOK
<1>5. ASSUME NEW r \in Resources, UserDelete(r) \/ UserEdit(r)  PROVE TypeOK'
  <2>1. cr[r] \in Resource  BY DEF TypeOK
  <2>2. CASE UserDelete(r)
    <3> DEFINE new == IF cr[r].fin THEN [cr[r] EXCEPT !.deleting = TRUE]
                                   ELSE [cr[r] EXCEPT !.exists = FALSE]
    <3>1. new \in Resource  BY <2>1 DEF Resource
    <3>2. StoreByUser(r, new) /\ UNCHANGED <<renames, edits>>  BY <2>2 DEF UserDelete
    <3> HIDE DEF new
    <3>3. deletes' \in 0 .. MaxDeletes  BY <2>2, BoundsAssumption DEF UserDelete, TypeOK
    <3> QED  BY <1>4, <3>1, <3>2, <3>3 DEF TypeOK
  <2>3. CASE UserEdit(r)
    <3>1. PICK n \in Names, p \in Policies :
             StoreByUser(r, [cr[r] EXCEPT !.name = n, !.policy = p])
      BY <2>3 DEF UserEdit
    <3>2. [cr[r] EXCEPT !.name = n, !.policy = p] \in Resource  BY <2>1 DEF Resource
    <3>3. renames' \in 0 .. MaxRenames /\ edits' \in 0 .. MaxEdits /\ deletes' = deletes
      BY <2>3, BoundsAssumption DEF UserEdit, TypeOK
    <3> QED  BY <1>4, <3>1, <3>2, <3>3 DEF TypeOK
  <2> QED  BY <1>5, <2>2, <2>3
<1>6. ASSUME NEW n \in Names, Upload(n)  PROVE TypeOK'
  BY <1>6, BoundsAssumption DEF Upload, TypeOK
<1>7. CASE UserCredentials
  BY <1>7, BoundsAssumption DEF UserCredentials, TypeOK
<1>8. CASE UNCHANGED vars
  BY <1>8 DEF vars, TypeOK
<1> QED  BY <1>1, <1>2, <1>3, <1>4, <1>5, <1>6, <1>7, <1>8 DEF Next

-----------------------------------------------------------------------------
(* What a step may do to the world of the workers that do not take it.     *)

\* Neither deletions nor that one asked for DeleteAll are taken back, names change only
\* with a rename, and the bucket of a tracked resource goes only in its deletion.
Frame ==
    /\ purge \subseteq purge'
    /\ \A r \in Resources : /\ cr[r].deleting => cr'[r].deleting
                            /\ renames' = 0 => renames = 0 /\ cr'[r].name = cr[r].name
    /\ Tracked => \A n \in Names, r \in Resources :
                     Exists(n) /\ ~Exists(n)' => cr'[r].deleting

\* A version stays one.
LEMMA VersionStays ==
    ASSUME Frame, NEW r \in Resources, NEW x \in Resource
    PROVE  Version(r, x) => Version(r, x)'
<1>1. x.name \in Names  BY DEF Resource
<1>2. Tracked' <=> Tracked  BY DEF Tracked, Some
<1> QED  BY <1>1, <1>2 DEF Version, Frame

\* The workers outside W do not move.
OthersStay(W) ==
    \A v \in Workers \ W : /\ pc'[v] = pc[v] /\ job'[v] = job[v]
                           /\ mem'[v] = mem[v]

\* The buckets change the way the workers change them: a bucket goes, or is made by
\* a worker in an attempt to create under the name of its copy.
StoreMoves(W) ==
    \A n \in Names :
        \/ maker'[n] = maker[n]
        \/ maker'[n] = None
        \/ \E w \in W : InCreation(w) /\ n = mem[w].name /\ maker'[n] = job[w]

\* A resource that nobody creates owns no more than before.
LEMMA NothingStays ==
    ASSUME NEW W, StoreMoves(W), NEW r \in Resources, Nothing(r),
           renames' = 0 => renames = 0, cr'[r].name = cr[r].name,
           \A w \in W : InCreation(w) => job[w] # r
    PROVE  Nothing(r)'
<1> SUFFICES ASSUME NEW n \in Names, maker'[n] = r, renames' = 0 \/ n = cr'[r].name
             PROVE  FALSE
  BY DEF Nothing, Owned
<1>1. maker[n] # r  BY DEF Nothing, Owned
<1> QED  BY <1>1, NamesAssumption DEF StoreMoves

\* A resource that is not stored again keeps what is true of it.
LEMMA StoredStays ==
    ASSUME BInv, Frame, NEW W \in SUBSET Workers, StoreMoves(W),
           NEW r \in Resources, cr'[r] = cr[r], renames' = 0 => renames = 0
    PROVE  StoredInv(r)'
<1>a. TypeOK /\ StoredInv(r) /\ cr[r] \in Resource  BY DEF BInv, TypeOK
<1>b. ASSUME NEW w \in W, InCreation(w), job[w] = r
      PROVE  cr[r].exists /\ cr[r].fin /\ ~isBucketAlreadyDeleted(cr[r])
  BY <1>b DEF BInv, CreationInv
<1>1. Version(r, cr[r])'
  <2>1. \A x \in Resource : Version(r, x) => Version(r, x)'  BY VersionStays
  <2>2. Version(r, cr[r])  BY <1>a DEF StoredInv
  <2> QED  BY <1>a, <2>1, <2>2 DEF Version
<1>2. ASSUME cr[r].exists, ~cr[r].fin, NEW n \in Names  PROVE maker'[n] # r
  <2>1. maker[n] # r  BY <1>a, <1>2 DEF StoredInv
  <2> QED  BY <1>b, <1>2, <2>1, NamesAssumption DEF StoreMoves
<1>3. ASSUME isBucketAlreadyDeleted(cr[r]) \/ ~cr[r].exists  PROVE Nothing(r)'
  <2>1. Nothing(r)  BY <1>a, <1>3 DEF StoredInv
  <2>2. \A w \in W : InCreation(w) => job[w] # r  BY <1>b, <1>3
  <2> QED  BY <2>1, <2>2, NothingStays
<1> QED  BY <1>a, <1>1, <1>2, <1>3 DEF StoredInv, isBucketAlreadyDeleted

\* A worker that does not move, and whose resource is not stored unless its copy
\* becomes outdated, keeps what it knows.
LEMMA OthersKeep ==
    ASSUME BInv, Frame, NEW W \in SUBSET Workers, StoreMoves(W), OthersStay(W),
           renames' = 0 => renames = 0, NEW v \in Workers \ W,
           fresh'[v] => fresh[v] /\ (job[v] # None => cr'[job[v]] = cr[job[v]])
    PROVE  StepInv(v)' /\ FreshInv(v)'
<1>a. TypeOK /\ StepInv(v) /\ FreshInv(v)  BY DEF BInv
<1>b. pc'[v] = pc[v] /\ job'[v] = job[v] /\ mem'[v] = mem[v]  BY DEF OthersStay
<1>c. ASSUME pc[v] # "idle"  PROVE job[v] \in Resources /\ mem[v] \in Resource /\ job[v] # None
  BY <1>a, <1>c, Working, NamesAssumption
<1>1. ASSUME pc[v] # "idle"  PROVE Version(job[v], mem[v])'
  <2>1. \A r \in Resources, x \in Resource : Version(r, x) => Version(r, x)'
    BY VersionStays
  <2>2. Version(job[v], mem[v])  BY <1>a, <1>1 DEF StepInv
  <2> QED  BY <1>1, <1>b, <1>c, <2>1, <2>2 DEF Version
<1>2. StepInv(v)'
  BY <1>a, <1>b, <1>1 DEF StepInv, PlaceInv
<1>3. ASSUME fresh'[v], pc[v] # "idle"  PROVE fresh[v] /\ cr'[job[v]] = cr[job[v]]
  BY <1>c, <1>3
<1>4. ASSUME fresh'[v], pc[v] # "idle", cr[job[v]].create # "pending", Nothing(job[v])
      PROVE  Nothing(job[v])'
  <2>1. \A w \in W : InCreation(w) => job[w] # job[v]  BY <1>4 DEF BInv, CreationInv
  <2>2. ASSUME NEW r \in Resources, r = job[v]  PROVE Nothing(r)'
    BY <1>3, <1>4, <2>1, <2>2, NothingStays
  <2>3. \A r \in Resources : r = job[v] => Nothing(r)'  BY <2>2
  <2> QED  BY <1>b, <1>c, <1>4, <2>3 DEF Nothing, Owned
<1>5. FreshInv(v)'
  <2> SUFFICES ASSUME fresh'[v], pc[v] # "idle"  PROVE FreshInv(v)'
    BY <1>b DEF FreshInv
  <2>1. fresh[v] /\ cr'[job'[v]] = cr[job[v]]  BY <1>b, <1>3
  <2>2. ASSUME pc[v] = "removeFinalizer"  PROVE Nothing(job[v])'
    <3>1. cr[job[v]].create # "pending" /\ Nothing(job[v])
      BY <1>a, <2>1, <2>2 DEF FreshInv, StepInv, PlaceInv, BeforePending
    <3> QED  BY <1>4, <3>1
  <2>3. ASSUME pc[v] = "status", isBucketAlreadyDeleted(mem[v])
        PROVE  Nothing(job[v])' /\ cr[job[v]].create # "pending"
    <3>1. cr[job[v]].create # "pending" /\ Nothing(job[v])
      BY <1>a, <2>1, <2>3 DEF FreshInv
    <3> QED  BY <1>4, <3>1
  <2> QED
    BY <1>a, <1>b, <2>1, <2>2, <2>3 DEF FreshInv, isBucketAlreadyDeleted
<1> QED  BY <1>2, <1>5

\* The step of one worker, or of none: what is left to show of an action.
LEMMA StepPreserves ==
    ASSUME BInv, TypeOK', Frame, NEW W \in SUBSET Workers, StoreMoves(W), OthersStay(W),
           renames' = 0 => renames = 0, UNCHANGED cache,
           \A n \in Names : full'[n] => maker'[n] # None,
           \A v \in Workers \ W :
              fresh'[v] => fresh[v] /\ (job[v] # None => cr'[job[v]] = cr[job[v]]),
           \A v \in Workers, r \in Resources :
              synced'[v][r] => synced[v][r] /\ cr'[r] = cr[r],
           \A v \in Workers \ W : CreationInv(v)',
           \A w \in W, v \in Workers :
              InCreation(w)' /\ InCreation(v)' /\ job'[v] = job'[w] => v = w,
           \A r \in Resources : StoredInv(r)',
           \A w \in W : StepInv(w)' /\ FreshInv(w)' /\ CreationInv(w)'
    PROVE  BInv'
<1>a. TypeOK  BY DEF BInv
<1>1. \A w \in Workers : StepInv(w)' /\ FreshInv(w)' /\ CreationInv(w)'
  BY OthersKeep
<1>2. CacheInv'
  <2> SUFFICES ASSUME NEW w \in Workers, NEW r \in Resources
               PROVE  /\ Version(r, cache[w][r])'
                      /\ synced'[w][r] => cache'[w][r] = cr'[r]
    BY DEF CacheInv
  <2>1. cache[w][r] \in Resource  BY <1>a DEF TypeOK
  <2>2. Version(r, cache[w][r]) /\ (synced[w][r] => cache[w][r] = cr[r])
    BY DEF BInv, CacheInv
  <2>3. \A x \in Resource : Version(r, x) => Version(r, x)'  BY VersionStays
  <2>4. Version(r, cache[w][r])'  BY <2>1, <2>2, <2>3 DEF Version
  <2> QED  BY <2>2, <2>4
<1>3. StoreInv'
  <2> SUFFICES ASSUME NEW n \in Names, renames' = 0, maker'[n] # None
               PROVE  n = cr'[maker'[n]].name
    BY DEF StoreInv, Exists
  <2>1. CASE maker'[n] = maker[n]
    <3>1. n = cr[maker[n]].name /\ maker[n] \in Resources
      BY <1>a, <2>1 DEF BInv, StoreInv, Exists, TypeOK
    <3> QED  BY <2>1, <3>1 DEF Frame
  <2>2. ASSUME NEW w \in W, InCreation(w), n = mem[w].name, maker'[n] = job[w]
        PROVE  n = cr'[maker'[n]].name
    <3>1. StepInv(w) /\ pc[w] # "idle"  BY <2>2 DEF BInv, InCreation
    <3>2. job[w] \in Resources /\ mem[w].name = cr[job[w]].name
      BY <1>a, <3>1, Working DEF StepInv, Version
    <3> QED  BY <2>2, <3>2 DEF Frame
  <2> QED  BY <2>1, <2>2 DEF StoreMoves
<1>4. OneCreator'
  <2> SUFFICES ASSUME NEW v \in Workers, NEW w \in Workers,
                      InCreation(v)', InCreation(w)', job'[v] = job'[w]
               PROVE  v = w
    BY DEF OneCreator
  <2>1. CASE v \in W \/ w \in W  BY <2>1
  <2>2. CASE v \notin W /\ w \notin W
    <3>1. InCreation(v) /\ InCreation(w) /\ job[v] = job[w]
      BY <2>2 DEF OthersStay, InCreation
    <3> QED  BY <3>1 DEF BInv, OneCreator
  <2> QED  BY <2>1, <2>2
<1> QED  BY <1>1, <1>2, <1>3, <1>4 DEF BInv

-----------------------------------------------------------------------------
(* Steps that store nothing.                                               *)

\* The buckets after a step of w that stores nothing in the cluster.
BucketsMove(w) ==
    /\ StoreMoves({w})
    /\ \A n \in Names : full'[n] => maker'[n] # None
    /\ Tracked => \A n \in Names, r \in Resources :
                     Exists(n) /\ ~Exists(n)' => cr[r].deleting

\* Nothing happens to the buckets.
LEMMA StoreRests ==
    ASSUME BInv, NEW w, UNCHANGED store
    PROVE  BucketsMove(w)
BY DEF BInv, StoreInv, StoreMoves, BucketsMove, Exists, store

\* A worker moves, and stores nothing.
LEMMA QuietStep ==
    ASSUME BInv, TypeOK', NEW w \in Workers, OthersStay({w}),
           \A v \in Workers \ {w} : fresh'[v] = fresh[v],
           UNCHANGED <<cr, cache, synced, renames, purge>>, BucketsMove(w),
           pc'[w] = "idle" <=> job'[w] = None,
           pc'[w] # "idle" => Version(job'[w], mem'[w]),
           PlaceInv(w)', FreshInv(w)',
           InCreation(w)' => InCreation(w) /\ job'[w] = job[w]
    PROVE  BInv'
<1>a. TypeOK /\ CreationInv(w) /\ OneCreator  BY DEF BInv
<1>1. Frame  BY DEF Frame, BucketsMove
<1>2. StepInv(w)'
  <2>1. ASSUME pc'[w] # "idle"  PROVE Version(job[w], mem[w])'
    <3>1. job'[w] \in Resources /\ mem'[w] \in Resource  BY <2>1 DEF TypeOK
    <3>2. \A r \in Resources, x \in Resource : Version(r, x) => Version(r, x)'
      BY <1>1, VersionStays
    <3> QED  BY <2>1, <3>1, <3>2 DEF Version
  <2> QED  BY <2>1 DEF StepInv
<1>3. CreationInv(w)'  BY <1>a DEF CreationInv, InCreation, isBucketAlreadyDeleted
<1>4. \A v \in Workers \ {w} : CreationInv(v)'
  BY DEF BInv, CreationInv, InCreation, OthersStay, isBucketAlreadyDeleted
<1>5. ASSUME NEW v \in Workers, InCreation(w)', InCreation(v)', job'[v] = job'[w]
      PROVE  v = w
  <2>1. CASE v # w
    <3>1. InCreation(v) /\ job[v] = job'[v]  BY <1>5, <2>1 DEF OthersStay, InCreation
    <3> QED  BY <1>a, <1>5, <3>1 DEF OneCreator
  <2> QED  BY <2>1
<1>6. \A r \in Resources : StoredInv(r)'
  <2>1. {w} \in SUBSET Workers  OBVIOUS
  <2> QED  BY <1>1, <2>1, StoredStays DEF BucketsMove
<1>7. \A x \in {w} : StepInv(x)' /\ FreshInv(x)' /\ CreationInv(x)'
  BY <1>2, <1>3
<1>8. {w} \in SUBSET Workers  OBVIOUS
<1> QED  BY <1>1, <1>4, <1>5, <1>6, <1>7, <1>8, StepPreserves DEF BucketsMove

\* A worker goes on with its reconcile, and stores nothing.
LEMMA MoveStep ==
    ASSUME BInv, TypeOK', NEW w \in Workers, OthersStay({w}), BucketsMove(w),
           UNCHANGED <<cr, job, fresh, cache, synced, renames, purge>>,
           pc[w] # "idle", pc'[w] \notin {"idle", "connect"},
           mem'[w].name = mem[w].name, mem'[w].deleting = mem[w].deleting,
           Version(job[w], mem'[w]), PlaceInv(w)', InCreation(w)' => InCreation(w),
           pc'[w] \in BeforePending => pc[w] \in BeforePending /\ mem'[w].create = mem[w].create,
           fresh[w] /\ pc'[w] \in {"observe", "finalizer", "pending"} =>
              ~isBucketAlreadyDeleted(cr[job[w]]),
           fresh[w] /\ pc'[w] = "removeFinalizer" => Nothing(job[w])',
           fresh[w] /\ pc'[w] = "status" /\ isBucketAlreadyDeleted(mem'[w]) =>
              Nothing(job[w])' /\ cr[job[w]].create # "pending"
    PROVE  BInv'
<1>a. TypeOK /\ StepInv(w) /\ FreshInv(w)  BY DEF BInv
<1>1. job'[w] = job[w] /\ job[w] # None  BY <1>a DEF StepInv
<1>2. FreshInv(w)'
  BY <1>a DEF FreshInv, isBucketAlreadyDeleted
<1> QED  BY <1>1, <1>2, QuietStep

\* A call fails: the error goes to the status.
LEMMA FailedStep ==
    ASSUME BInv, TypeOK', NEW w \in Workers, pc[w] # "idle", Failed(w),
           UNCHANGED <<cr, store, job, fresh, cache, synced, renames, purge>>
    PROVE  BInv'
<1>a. TypeOK /\ StepInv(w)  BY DEF BInv
<1>b. /\ mem[w] \in Resource
      /\ mem[w].ready \in {"none", "Creating", "Available", "Deleting"}
  <2>1. mem[w] \in Resource  BY <1>a, Working
  <2> QED  BY <2>1 DEF Resource
<1>1. Conditions(w, mem[w].ready, "error") /\ Goto(w, "status")  BY DEF Failed
<1>2. /\ mem'[w] = [mem[w] EXCEPT !.ready = mem[w].ready, !.sync = "error"]
      /\ \A v \in Workers \ {w} : mem'[v] = mem[v]
  BY <1>a, <1>b, <1>1, ConditionsTyping
<1>3. /\ mem'[w].ready = mem[w].ready /\ mem'[w].sync = "error"
      /\ mem'[w].deleting = mem[w].deleting /\ mem'[w].name = mem[w].name
      /\ mem'[w].policy = mem[w].policy /\ mem'[w].stName = mem[w].stName
  BY <1>b, <1>2, CopyConditions
<1>4. pc'[w] = "status" /\ OthersStay({w})
  BY <1>a, <1>1, <1>2 DEF Goto, OthersStay, TypeOK
<1>5. Version(job[w], mem'[w])  BY <1>a, <1>3 DEF StepInv, Version
<1>6. PlaceInv(w)' /\ ~InCreation(w)' /\ pc'[w] \notin BeforePending
  BY <1>4 DEF PlaceInv, InCreation, BeforePending
<1>7. ~isBucketAlreadyDeleted(mem'[w])  BY <1>3 DEF isBucketAlreadyDeleted
<1> QED  BY <1>3, <1>4, <1>5, <1>6, <1>7, StoreRests, MoveStep

\* A reconcile starts with what the cache holds.
LEMMA StartStep ==
    ASSUME BInv, TypeOK', NEW w \in Workers, NEW r \in Resources, StartReconcile(w, r)
    PROVE  BInv'
<1>a. /\ TypeOK /\ Version(r, cache[w][r]) /\ cache[w][r] \in Resource /\ r # None
      /\ synced[w][r] => cache[w][r] = cr[r]
  BY NamesAssumption DEF BInv, CacheInv, TypeOK
<1> DEFINE x == [cache[w][r] EXCEPT !.ready = "Creating", !.sync = "error"]
<1>1. /\ x.ready = "Creating" /\ x.sync = "error" /\ x.deleting = cache[w][r].deleting
      /\ x.name = cache[w][r].name /\ x.policy = cache[w][r].policy
      /\ x.stName = cache[w][r].stName /\ x.create = cache[w][r].create
  BY <1>a, CopyConditions
<1>2. /\ cache[w][r].exists /\ UNCHANGED <<cr, store, cache, synced, renames, purge>>
      /\ job' = [job EXCEPT ![w] = r] /\ fresh' = [fresh EXCEPT ![w] = synced[w][r]]
      /\ \/ /\ cache[w][r].create = "pending"
            /\ mem' = [mem EXCEPT ![w] = x] /\ Goto(w, "status")
         \/ /\ cache[w][r].create # "pending"
            /\ mem' = [mem EXCEPT ![w] = cache[w][r]] /\ Goto(w, "connect")
  BY DEF StartReconcile, store, copies, budgets, users
<1> HIDE DEF x
<1>3. /\ job'[w] = r /\ fresh'[w] = synced[w][r]
      /\ \/ mem'[w] = x /\ pc'[w] = "status"
         \/ mem'[w] = cache[w][r] /\ pc'[w] = "connect" /\ cache[w][r].create # "pending"
  BY <1>a, <1>2 DEF Goto, TypeOK
<1>4. OthersStay({w}) /\ \A v \in Workers \ {w} : fresh'[v] = fresh[v]
  BY <1>a, <1>2 DEF Goto, OthersStay, TypeOK
<1>5. Version(r, x)  BY <1>a, <1>1 DEF Version
<1>6. Version(job'[w], mem'[w])  BY <1>a, <1>3, <1>5
<1>7. PlaceInv(w)' /\ ~InCreation(w)'  BY <1>3 DEF PlaceInv, InCreation, BeforePending
<1>8. FreshInv(w)'
  <2>1. CASE mem'[w] = x /\ pc'[w] = "status"
    BY <1>a, <1>1, <1>2, <1>3, <2>1 DEF FreshInv, BeforePending, isBucketAlreadyDeleted
  <2>2. CASE mem'[w] = cache[w][r] /\ pc'[w] = "connect"
    BY <1>a, <1>2, <1>3, <2>2 DEF FreshInv, BeforePending
  <2> QED  BY <1>3, <2>1, <2>2
<1>9. BucketsMove(w)  BY <1>2, StoreRests
<1> QED  BY <1>a, <1>2, <1>3, <1>4, <1>6, <1>7, <1>8, <1>9, QuietStep

\* A copy with the conditions of a deleted bucket leads to the end of the resource
\* only if it is the stored version, whose bucket is gone.
LEMMA ConnectStep ==
    ASSUME BInv, TypeOK', NEW w \in Workers, Connect(w)
    PROVE  BInv'
<1>a. TypeOK /\ StepInv(w) /\ FreshInv(w) /\ pc[w] = "connect"
  BY DEF BInv, Connect
<1>b. UNCHANGED <<cr, store, job, fresh, cache, synced, renames, purge>>
  BY DEF Connect, store, copies, budgets, users
<1>c. job[w] \in Resources  BY <1>a, Working
<1>1. CASE Failed(w)  BY <1>a, <1>b, <1>1, FailedStep
<1>2. CASE ~Failed(w)
  <2>1. /\ UNCHANGED mem
        /\ \/ isBucketAlreadyDeleted(mem[w]) /\ Goto(w, "removeFinalizer")
           \/ ~isBucketAlreadyDeleted(mem[w]) /\ Goto(w, "observe")
    BY <1>2 DEF Connect, NoopClient
  <2>2. /\ OthersStay({w})
        /\ \/ isBucketAlreadyDeleted(mem[w]) /\ pc'[w] = "removeFinalizer"
           \/ ~isBucketAlreadyDeleted(mem[w]) /\ pc'[w] = "observe"
    BY <1>a, <1>b, <2>1 DEF Goto, OthersStay, TypeOK
  <2>3. Version(job[w], mem'[w])  BY <1>a, <2>1 DEF StepInv
  <2>4. PlaceInv(w)' /\ ~InCreation(w)'
    BY <1>a, <2>1, <2>2 DEF StepInv, PlaceInv, InCreation, BeforePending
  <2>5. fresh[w] => mem[w] = cr[job[w]]  BY <1>a DEF FreshInv
  <2>6. ASSUME fresh[w], pc'[w] = "removeFinalizer"  PROVE Nothing(job[w])'
    <3>1. Nothing(job[w])
      BY <1>c, <2>2, <2>5, <2>6 DEF BInv, StoredInv, isBucketAlreadyDeleted
    <3> QED  BY <1>b, <3>1 DEF Nothing, Owned, store
  <2>7. fresh[w] /\ pc'[w] = "observe" => ~isBucketAlreadyDeleted(cr[job[w]])
    BY <2>2, <2>5
  <2>8. BucketsMove(w)  BY <1>b, StoreRests
  <2> QED
    BY <1>a, <1>b, <2>1, <2>2, <2>3, <2>4, <2>6, <2>7, <2>8, MoveStep DEF BeforePending
<1> QED  BY <1>1, <1>2

\* Observe: when no bucket has the name of the spec, none is left of the resource.
LEMMA ObserveStep ==
    ASSUME BInv, TypeOK', NEW w \in Workers, Observe(w)
    PROVE  BInv'
<1>a. TypeOK /\ StepInv(w) /\ FreshInv(w) /\ pc[w] = "observe" /\ StoreInv
  BY DEF BInv, Observe
<1>b. UNCHANGED <<cr, store, job, fresh, cache, synced, renames, purge>>
  BY DEF Observe, store, copies, budgets, users
<1>c. job[w] \in Resources /\ mem[w] \in Resource  BY <1>a, Working
<1>d. /\ mem[w].create # "pending" /\ Version(job[w], mem[w])
      /\ fresh[w] => ~isBucketAlreadyDeleted(cr[job[w]])
  BY <1>a DEF StepInv, PlaceInv, FreshInv, BeforePending
<1>e. BucketsMove(w)  BY <1>b, StoreRests
<1>1. CASE Exists(mem[w].name) /\ mem[w].lock
  <2> DEFINE x == [mem[w] EXCEPT !.stName = mem[w].name, !.ready = "Available",
                                 !.found = TRUE]
  <2>1. /\ mem' = [mem EXCEPT ![w] = x]
        /\ Goto(w, IF mem[w].deleting THEN "deleteObjects" ELSE "finalizer")
    BY <1>a, <1>1 DEF Observe, TypeOK
  <2>2. /\ x.stName = mem[w].name /\ x.ready = "Available" /\ x.name = mem[w].name
        /\ x.deleting = mem[w].deleting /\ x.policy = mem[w].policy
        /\ x.create = mem[w].create
    BY <1>c DEF Resource
  <2> HIDE DEF x
  <2>3. /\ mem'[w] = x /\ OthersStay({w})
        /\ \/ mem[w].deleting /\ pc'[w] = "deleteObjects"
           \/ ~mem[w].deleting /\ pc'[w] = "finalizer"
    BY <1>a, <1>b, <2>1 DEF Goto, OthersStay, TypeOK
  <2>4. Version(job[w], mem'[w])  BY <1>1, <1>d, <2>2, <2>3 DEF Version
  <2>5. mem[w].name # None  BY <1>c, NamesAssumption DEF Resource
  <2>6. PlaceInv(w)' /\ ~InCreation(w)'
    BY <1>d, <2>2, <2>3, <2>5 DEF PlaceInv, InCreation
  <2> QED
    BY <1>a, <1>b, <1>d, <1>e, <2>2, <2>3, <2>4, <2>6, MoveStep DEF BeforePending
<1>2. CASE Exists(mem[w].name) /\ ~mem[w].lock
  <2>1. Failed(w)  BY <1>2 DEF Observe
  <2> QED  BY <1>a, <1>b, <2>1, FailedStep
<1>3. CASE ~Exists(mem[w].name)
  <2>1. /\ UNCHANGED mem
        /\ Goto(w, IF mem[w].deleting THEN "removeFinalizer" ELSE "finalizer")
    BY <1>3 DEF Observe
  <2>2. /\ OthersStay({w})
        /\ \/ mem[w].deleting /\ pc'[w] = "removeFinalizer"
           \/ ~mem[w].deleting /\ pc'[w] = "finalizer"
    BY <1>a, <1>b, <2>1 DEF Goto, OthersStay, TypeOK
  <2>3. PlaceInv(w)' /\ ~InCreation(w)'
    BY <1>d, <2>1, <2>2 DEF PlaceInv, InCreation
  <2>4. ASSUME fresh[w]  PROVE Nothing(job[w])'
    <3>1. mem[w].name = cr[job[w]].name  BY <1>a, <2>4 DEF FreshInv
    <3>2. ASSUME NEW n \in Names, maker[n] = job[w], renames = 0 \/ n = cr[job[w]].name
          PROVE  FALSE
      <4>1. Exists(n)  BY <1>c, <3>2, NamesAssumption DEF Exists
      <4>2. n = cr[job[w]].name  BY <1>a, <3>2, <4>1 DEF StoreInv
      <4> QED  BY <1>3, <3>1, <4>1, <4>2
    <3> QED  BY <1>b, <3>2 DEF Nothing, Owned, store
  <2> QED
    BY <1>a, <1>b, <1>d, <1>e, <2>1, <2>2, <2>3, <2>4, MoveStep DEF BeforePending
<1> QED  BY <1>1, <1>2, <1>3

\* Create returned: the outcome is in the copy.
LEMMA CreateReturns ==
    ASSUME BInv, TypeOK', NEW w \in Workers, pc[w] \in {"create", "recheck"},
           CreateSucceeds(w) \/ CreateFails(w), BucketsMove(w),
           UNCHANGED <<cr, job, fresh, cache, synced, renames, purge>>
    PROVE  BInv'
<1>a. TypeOK /\ StepInv(w)  BY DEF BInv
<1>b. mem[w] \in Resource /\ Version(job[w], mem[w])  BY <1>a, Working DEF StepInv
<1>1. /\ mem'[w].ready = "Creating" /\ mem'[w].create \in {"succeeded", "failed"}
      /\ mem'[w].deleting = mem[w].deleting /\ mem'[w].name = mem[w].name
      /\ mem'[w].policy = mem[w].policy /\ mem'[w].stName = mem[w].stName
      /\ pc'[w] = "critical" /\ OthersStay({w})
  <2>1. CASE CreateSucceeds(w)
    <3> DEFINE x == [mem[w] EXCEPT !.lock = TRUE, !.create = "succeeded",
                                   !.ready = "Creating", !.sync = "success"]
    <3>1. mem' = [mem EXCEPT ![w] = x] /\ Goto(w, "critical")
      BY <1>a, <2>1 DEF CreateSucceeds, TypeOK
    <3>2. /\ x.ready = "Creating" /\ x.create = "succeeded" /\ x.deleting = mem[w].deleting
          /\ x.name = mem[w].name /\ x.policy = mem[w].policy /\ x.stName = mem[w].stName
      BY <1>b DEF Resource
    <3> HIDE DEF x
    <3> QED  BY <1>a, <3>1, <3>2 DEF Goto, OthersStay, TypeOK
  <2>2. CASE CreateFails(w)
    <3> DEFINE x == [mem[w] EXCEPT !.create = "failed", !.ready = "Creating",
                                   !.sync = "error"]
    <3>1. mem' = [mem EXCEPT ![w] = x] /\ Goto(w, "critical")
      BY <1>a, <2>2 DEF CreateFails, TypeOK
    <3>2. /\ x.ready = "Creating" /\ x.create = "failed" /\ x.deleting = mem[w].deleting
          /\ x.name = mem[w].name /\ x.policy = mem[w].policy /\ x.stName = mem[w].stName
      BY <1>b DEF Resource
    <3> HIDE DEF x
    <3> QED  BY <1>a, <3>1, <3>2 DEF Goto, OthersStay, TypeOK
  <2> QED  BY <2>1, <2>2
<1>2. Version(job[w], mem'[w])  BY <1>b, <1>1 DEF Version
<1>3. PlaceInv(w)' /\ InCreation(w)  BY <1>1 DEF PlaceInv, BeforePending, InCreation
<1> QED  BY <1>1, <1>2, <1>3, MoveStep DEF BeforePending

\* MakeBucket makes the bucket of a resource that exists, while no other worker
\* can be about to drop it; or its answer is an error, which is looked into.
LEMMA MakeBucketStep ==
    ASSUME BInv, TypeOK', NEW w \in Workers, MakeBucket(w)
    PROVE  BInv'
<1>a. TypeOK /\ StepInv(w) /\ pc[w] = "create" /\ StoreInv /\ InCreation(w)
  BY DEF BInv, MakeBucket, InCreation
<1>b. UNCHANGED <<cr, job, fresh, cache, synced, renames, purge>>
  BY DEF MakeBucket, copies, users
<1>c. job[w] \in Resources /\ mem[w] \in Resource /\ mem[w].name \in Names
      /\ Version(job[w], mem[w])
  <2>1. job[w] \in Resources /\ mem[w] \in Resource  BY <1>a, Working
  <2> QED  BY <1>a, <2>1 DEF StepInv, Resource
<1>1. ASSUME ~Exists(mem[w].name), Made(mem[w].name, job[w])  PROVE BucketsMove(w)
  <2>1. /\ maker' = [maker EXCEPT ![mem[w].name] = job[w]]
        /\ full' = [full EXCEPT ![mem[w].name] = FALSE]
    BY <1>1 DEF Made
  <2>2. StoreMoves({w})  BY <1>a, <1>c, <2>1 DEF StoreMoves, TypeOK
  <2>3. ASSUME NEW n \in Names  PROVE full'[n] => maker'[n] # None
    BY <1>a, <1>c, <2>1 DEF StoreInv, Exists, TypeOK
  <2>4. ASSUME NEW n \in Names  PROVE Exists(n) => Exists(n)'
    BY <1>a, <1>c, <2>1, NamesAssumption DEF Exists, TypeOK
  <2> QED  BY <2>2, <2>3, <2>4 DEF BucketsMove
<1>2. BucketsMove(w)
  <2>1. UNCHANGED store \/ (~Exists(mem[w].name) /\ Made(mem[w].name, job[w]))
    BY DEF MakeBucket
  <2> QED  BY <1>1, <2>1, StoreRests
<1>3. CASE CreateSucceeds(w)
  BY <1>a, <1>b, <1>2, <1>3, CreateReturns
<1>4. CASE UNCHANGED mem /\ Goto(w, "recheck")
  <2>1. pc'[w] = "recheck" /\ OthersStay({w})
    BY <1>a, <1>b, <1>4 DEF Goto, OthersStay, TypeOK
  <2>2. PlaceInv(w)'  BY <2>1 DEF PlaceInv, BeforePending
  <2> QED  BY <1>a, <1>b, <1>c, <1>2, <1>4, <2>1, <2>2, MoveStep DEF BeforePending
<1> QED  BY <1>3, <1>4 DEF MakeBucket

\* The second look at the bucket decides.
LEMMA RecheckStep ==
    ASSUME BInv, TypeOK', NEW w \in Workers, RecheckBucket(w)
    PROVE  BInv'
<1>1. /\ pc[w] = "recheck"
      /\ CreateSucceeds(w) \/ CreateFails(w)
      /\ UNCHANGED <<cr, store, job, fresh, cache, synced, renames, purge>>
  BY DEF RecheckBucket, copies, users, store
<1>2. BucketsMove(w)  BY <1>1, StoreRests
<1> QED  BY <1>1, <1>2, CreateReturns

\* A step of Delete that ends the reconcile with a condition.
LEMMA DeleteReturns ==
    ASSUME BInv, TypeOK', NEW w \in Workers, pc[w] \in {"deleteObjects", "removeBucket"},
           NEW s \in {"success", "error"}, Conditions(w, "Deleting", s), Goto(w, "status"),
           BucketsMove(w), UNCHANGED <<cr, job, fresh, cache, synced, renames, purge>>,
           s = "success" /\ fresh[w] => Nothing(job[w])'
    PROVE  BInv'
<1>a. TypeOK /\ StepInv(w) /\ FreshInv(w)  BY DEF BInv
<1>b. mem[w] \in Resource /\ Version(job[w], mem[w]) /\ mem[w].deleting
      /\ mem[w].stName # None
  BY <1>a, Working DEF StepInv, PlaceInv
<1>1. /\ mem'[w] = [mem[w] EXCEPT !.ready = "Deleting", !.sync = s]
      /\ \A v \in Workers \ {w} : mem'[v] = mem[v]
  BY <1>a, <1>b, ConditionsTyping
<1>2. /\ mem'[w].ready = "Deleting" /\ mem'[w].sync = s
      /\ mem'[w].deleting = mem[w].deleting /\ mem'[w].name = mem[w].name
      /\ mem'[w].policy = mem[w].policy /\ mem'[w].stName = mem[w].stName
  BY <1>b, <1>1 DEF Resource
<1>3. pc'[w] = "status" /\ OthersStay({w})  BY <1>a, <1>1 DEF Goto, OthersStay, TypeOK
<1>4. Version(job[w], mem'[w])  BY <1>b, <1>2 DEF Version
<1>5. PlaceInv(w)' /\ ~InCreation(w)'  BY <1>3 DEF PlaceInv, BeforePending, InCreation
<1>6. ASSUME fresh[w], isBucketAlreadyDeleted(mem'[w])
      PROVE  Nothing(job[w])' /\ cr[job[w]].create # "pending"
  BY <1>a, <1>2, <1>6 DEF FreshInv, StepInv, PlaceInv, BeforePending, isBucketAlreadyDeleted
<1> QED  BY <1>2, <1>3, <1>4, <1>5, <1>6, MoveStep DEF BeforePending

\* Objects go, or cannot be listed or removed.
LEMMA DeleteObjectsStep ==
    ASSUME BInv, TypeOK', NEW w \in Workers, DeleteObjects(w)
    PROVE  BInv'
<1>a. TypeOK /\ StepInv(w) /\ pc[w] = "deleteObjects" /\ StoreInv
  BY DEF BInv, DeleteObjects
<1>b. UNCHANGED <<cr, maker, job, fresh, cache, synced, renames, purge>>
  BY DEF DeleteObjects, copies, users
<1>1. BucketsMove(w)
  <2>1. full' = full \/ full' = [full EXCEPT ![mem[w].stName] = FALSE]
    BY DEF DeleteObjects
  <2>2. \A n \in Names : full'[n] => full[n]  BY <1>a, <2>1 DEF TypeOK
  <2> QED  BY <1>a, <1>b, <2>2 DEF BucketsMove, StoreMoves, StoreInv, Exists
<1>2. CASE UNCHANGED mem /\ Goto(w, "removeBucket")
  <2>1. pc'[w] = "removeBucket" /\ OthersStay({w})
    BY <1>a, <1>b, <1>2 DEF Goto, OthersStay, TypeOK
  <2>2. PlaceInv(w)' /\ ~InCreation(w)' /\ Version(job[w], mem'[w])
    BY <1>a, <1>2, <2>1 DEF StepInv, PlaceInv, BeforePending, InCreation
  <2> QED  BY <1>a, <1>b, <1>1, <1>2, <2>1, <2>2, MoveStep DEF BeforePending
<1>3. CASE Conditions(w, "Deleting", "error") /\ Goto(w, "status")
  BY <1>a, <1>b, <1>1, <1>3, DeleteReturns
<1> QED  BY <1>2, <1>3 DEF DeleteObjects

\* The bucket goes: it was the last one of the resource, if the copy is current.
LEMMA RemoveBucketStep ==
    ASSUME BInv, TypeOK', NEW w \in Workers, RemoveBucket(w)
    PROVE  BInv'
<1>a. TypeOK /\ StepInv(w) /\ FreshInv(w) /\ pc[w] = "removeBucket" /\ StoreInv
  BY DEF BInv, RemoveBucket
<1>b. UNCHANGED <<cr, full, job, fresh, cache, synced, renames, purge>> /\ Goto(w, "status")
  BY DEF RemoveBucket, copies, users
<1>c. /\ job[w] \in Resources /\ mem[w].deleting /\ cr[job[w]].deleting
      /\ mem[w].stName = mem[w].name
  BY <1>a, Working DEF StepInv, PlaceInv, Version
<1> DEFINE n == mem[w].stName
<1>d. n \in Names
  <2>1. mem[w] \in Resource  BY <1>a, Working
  <2> QED  BY <1>c, <2>1 DEF Resource
<1>1. BucketsMove(w)
  <2>1. CASE UNCHANGED maker  BY <1>b, <2>1, StoreRests DEF store
  <2>2. CASE Removed(n)
    <3>1. maker' = [maker EXCEPT ![n] = None] /\ ~full[n]  BY <2>2 DEF Removed
    <3>2. StoreMoves({w})  BY <1>a, <1>d, <3>1 DEF StoreMoves, TypeOK
    <3>3. ASSUME NEW m \in Names  PROVE full'[m] => maker'[m] # None
      BY <1>a, <1>b, <1>d, <3>1 DEF StoreInv, Exists, TypeOK
    <3>4. ASSUME Tracked, NEW r \in Resources  PROVE cr[r].deleting
      BY <1>c, <3>4 DEF Tracked
    <3> QED  BY <3>2, <3>3, <3>4 DEF BucketsMove
  <2> QED  BY <2>1, <2>2 DEF RemoveBucket
<1>2. ASSUME Removed(n), fresh[w]  PROVE Nothing(job[w])'
  <2>1. maker' = [maker EXCEPT ![n] = None]  BY <1>2 DEF Removed
  <2>2. n = cr[job[w]].name  BY <1>a, <1>c, <1>2 DEF FreshInv
  <2>3. ASSUME NEW m \in Names, maker'[m] = job[w], renames = 0 \/ m = cr[job[w]].name
        PROVE  FALSE
    <3>1. m # n /\ maker[m] = job[w]
      BY <1>a, <1>c, <1>d, <2>1, <2>3, NamesAssumption DEF TypeOK
    <3>2. Exists(m)  BY <1>c, <3>1, NamesAssumption DEF Exists
    <3>3. m = cr[job[w]].name  BY <1>a, <2>3, <3>1, <3>2 DEF StoreInv
    <3> QED  BY <2>2, <3>1, <3>3
  <2> QED  BY <1>b, <2>3 DEF Nothing, Owned
<1> HIDE DEF n
<1>3. \/ Removed(n) /\ Conditions(w, "Deleting", "success")
      \/ Conditions(w, "Deleting", "error")
  BY DEF RemoveBucket, n
<1>4. CASE Removed(n) /\ Conditions(w, "Deleting", "success")
  BY <1>a, <1>b, <1>1, <1>2, <1>4, DeleteReturns
<1>5. CASE Conditions(w, "Deleting", "error")
  BY <1>a, <1>b, <1>1, <1>5, DeleteReturns
<1> QED  BY <1>3, <1>4, <1>5

\* A process dies and forgets its copy.
LEMMA CrashStep ==
    ASSUME BInv, TypeOK', NEW w \in Workers, Crash(w)
    PROVE  BInv'
<1>a. TypeOK  BY DEF BInv
<1>1. UNCHANGED <<cr, store, cache, synced, renames, purge>> /\ End(w)
  BY DEF Crash, store, copies, users
<1>2. pc'[w] = "idle" /\ job'[w] = None /\ OthersStay({w})
  BY <1>a, <1>1 DEF End, OthersStay, TypeOK
<1>3. \A v \in Workers \ {w} : fresh'[v] = fresh[v]  BY <1>a, <1>1 DEF End, TypeOK
<1>4. PlaceInv(w)' /\ FreshInv(w)' /\ ~InCreation(w)'
  BY <1>2 DEF PlaceInv, FreshInv, BeforePending, InCreation
<1>5. BucketsMove(w)  BY <1>1, StoreRests
<1> QED  BY <1>1, <1>2, <1>3, <1>4, <1>5, QuietStep

-----------------------------------------------------------------------------
(* Steps that store a version of a resource.                               *)

\* A worker of W, or a user, stores a version of r.
LEMMA StoringStep ==
    ASSUME BInv, TypeOK', NEW W \in SUBSET Workers, NEW r \in Resources,
           NEW new \in Resource, Stored(r, new), OthersStay(W),
           UNCHANGED <<store, cache>>, renames' = 0 => renames = 0,
           purge \subseteq purge', cr[r].deleting => new.deleting,
           renames' = 0 => new.name = cr[r].name,
           \A v \in Workers \ W : fresh'[v] => fresh[v] /\ (job[v] # r \/ new = cr[r]),
           \A v \in Workers \ W : InCreation(v) /\ job[v] = r =>
              /\ new.exists /\ new.fin /\ new.create = "pending"
              /\ ~isBucketAlreadyDeleted(new),
           \A w \in W, v \in Workers :
              InCreation(w)' /\ InCreation(v)' /\ job'[v] = job'[w] => v = w,
           StoredInv(r)',
           \A w \in W : StepInv(w)' /\ FreshInv(w)' /\ CreationInv(w)'
    PROVE  BInv'
<1>a. TypeOK  BY DEF BInv
<1>1. cr'[r] = new /\ \A s \in Resources \ {r} : cr'[s] = cr[s]
  BY <1>a, StoredTyping
<1>2. Frame  BY <1>1 DEF Frame, Exists, store
<1>3. StoreMoves(W) /\ \A n \in Names : full'[n] => maker'[n] # None
  BY DEF BInv, StoreInv, StoreMoves, Exists, store
<1>4. \A s \in Resources : StoredInv(s)'
  <2>1. ASSUME NEW s \in Resources \ {r}  PROVE StoredInv(s)'
    BY <1>1, <1>2, <1>3, StoredStays
  <2> QED  BY <2>1
<1>5. \A v \in Workers, s \in Resources : synced'[v][s] => synced[v][s] /\ cr'[s] = cr[s]
  <2> SUFFICES ASSUME NEW v \in Workers, NEW s \in Resources, synced'[v][s]
               PROVE  synced[v][s] /\ cr'[s] = cr[s]
    OBVIOUS
  <2>1. synced'[v] = [synced[v] EXCEPT ![r] = synced[v][r] /\ new = cr[r]]  BY DEF Stored
  <2>2. synced[v] \in [Resources -> BOOLEAN]  BY <1>a DEF TypeOK
  <2>3. CASE s = r  BY <1>1, <2>1, <2>2, <2>3
  <2>4. CASE s # r  BY <1>1, <2>1, <2>2, <2>4
  <2> QED  BY <2>3, <2>4
<1>6. ASSUME NEW v \in Workers \ W
      PROVE  fresh'[v] => fresh[v] /\ (job[v] # None => cr'[job[v]] = cr[job[v]])
  BY <1>a, <1>1 DEF TypeOK
<1>7. ASSUME NEW v \in Workers \ W  PROVE CreationInv(v)'
  <2>1. InCreation(v)' => InCreation(v) /\ job'[v] = job[v]
    BY DEF OthersStay, InCreation
  <2>2. CreationInv(v) /\ StepInv(v)  BY DEF BInv
  <2>3. InCreation(v) => job[v] \in Resources
    BY <1>a, <2>2, Working DEF InCreation
  <2>4. CASE job[v] = r  BY <1>1, <2>1, <2>4 DEF CreationInv, isBucketAlreadyDeleted
  <2>5. CASE job[v] # r
    BY <1>1, <2>1, <2>2, <2>3, <2>5 DEF CreationInv, isBucketAlreadyDeleted
  <2> QED  BY <2>4, <2>5
<1> QED  BY <1>2, <1>3, <1>4, <1>5, <1>6, <1>7, StepPreserves

\* A version that differs from the stored one in no field that matters is one.
LEMMA SameVersion ==
    ASSUME NEW r, NEW x, NEW y, Version(r, x),
           y.name = x.name, y.policy = x.policy, y.deleting = x.deleting,
           y.stName = x.stName, y.ready = x.ready \/ y.ready \in {"none", "Creating"}
    PROVE  Version(r, y)
BY DEF Version

\* Update by a worker that has the resource for itself: x is the copy it goes on
\* with.
LEMMA WorkerStores ==
    ASSUME BInv, TypeOK', NEW w \in Workers, NEW r \in Resources, r = job[w],
           NEW new \in Resource, NEW x \in Resource, NEW next \in Steps,
           Store(r, w, new), mem' = [mem EXCEPT ![w] = x], Goto(w, next),
           UNCHANGED <<store, job, cache, renames, purge>>,
           cr[r].exists, ~isBucketAlreadyDeleted(cr[r]),
           new.fin, new.exists = cr[r].exists, new.deleting = cr[r].deleting,
           new.name = cr[r].name, new.policy = cr[r].policy, new.stName = cr[r].stName,
           new.ready = cr[r].ready, new.sync = cr[r].sync,
           x.fin = new.fin, x.create = new.create, x.deleting = new.deleting,
           x.name = new.name, x.policy = new.policy, x.stName = new.stName,
           x.ready = new.ready \/ x.ready = "Creating",
           \/ next = "finalizer" /\ new.create # "pending" /\ ~new.deleting
           \/ next = "create" /\ new.create = "pending"
           \/ next = "status" /\ x.ready = "Creating",
           \A v \in Workers \ {w} : InCreation(v) => job[v] # r
    PROVE  BInv'
<1>a. TypeOK /\ StoredInv(r) /\ r # None  BY NamesAssumption DEF BInv
<1>b. cr[r] \in Resource  BY <1>a DEF TypeOK
<1>1. pc'[w] = next /\ mem'[w] = x /\ job'[w] = r /\ OthersStay({w})
  BY <1>a DEF Goto, OthersStay, TypeOK
<1>2. cr'[r] = new /\ \A s \in Resources \ {r} : cr'[s] = cr[s]
  BY <1>a, StoredTyping DEF Store
<1>3. Frame  BY <1>2 DEF Frame, Exists, store
<1>4. Version(r, new)' /\ Version(r, x)'
  <2>1. Version(r, cr[r])  BY <1>a DEF StoredInv
  <2>2. Version(r, new)  BY <2>1, SameVersion
  <2>3. Version(r, x)  BY <2>2, SameVersion
  <2> QED  BY <1>3, <2>2, <2>3, VersionStays
<1>5. StoredInv(r)'
  <2>1. Version(r, cr[r])'  BY <1>2, <1>4 DEF Version
  <2> QED  BY <1>2, <2>1 DEF StoredInv, isBucketAlreadyDeleted
<1>6. StepInv(w)'
  <2>1. Version(job[w], mem[w])'  BY <1>1, <1>4 DEF Version
  <2>2. PlaceInv(w)'  BY <1>1 DEF PlaceInv, BeforePending
  <2> QED  BY <1>a, <1>1, <2>1, <2>2 DEF StepInv
<1>7. FreshInv(w)'
  BY <1>1, <1>2 DEF FreshInv, BeforePending, isBucketAlreadyDeleted
<1>8. CreationInv(w)'
  BY <1>1, <1>2 DEF CreationInv, InCreation, isBucketAlreadyDeleted
<1>9. ASSUME NEW v \in Workers, InCreation(v)', job'[v] = job'[w]  PROVE v = w
  BY <1>1, <1>9 DEF OthersStay, InCreation
<1>10. \A v \in Workers \ {w} : fresh'[v] => fresh[v] /\ (job[v] # r \/ new = cr[r])
  BY DEF Store
<1>11. \A v \in {w} : StepInv(v)' /\ FreshInv(v)' /\ CreationInv(v)'
  BY <1>6, <1>7, <1>8
<1>12. \A u \in {w}, v \in Workers :
          InCreation(u)' /\ InCreation(v)' /\ job'[v] = job'[u] => v = u
  BY <1>9
<1>13. Stored(r, new) /\ {w} \in SUBSET Workers  BY DEF Store
<1> QED  BY <1>1, <1>5, <1>10, <1>11, <1>12, <1>13, StoringStep

\* Update of a copy that is current, before the attempt to create: nobody else is
\* creating the bucket.
LEMMA UpdateStep ==
    ASSUME BInv, TypeOK', NEW w \in Workers, pc[w] \in {"finalizer", "pending"},
           NEW m \in Resource, m.fin, NEW next \in {"finalizer", "create"},
           UpdateResource(w, m, next), UNCHANGED <<store, job, cache, renames, purge>>,
           next = "finalizer" => m.create = mem[w].create,
           next = "create" => m.create = "pending"
    PROVE  BInv'
<1>a. TypeOK /\ StepInv(w) /\ FreshInv(w)  BY DEF BInv
<1>1. CASE ~fresh[w]
  <2>1. Failed(w) /\ UNCHANGED <<cr, fresh, synced>>  BY <1>1 DEF UpdateResource
  <2> QED  BY <2>1, FailedStep
<1>2. CASE fresh[w]
  <2>1. PICK r \in Resources : r = job[w]  BY <1>a, Working
  <2>2. cr[r] \in Resource  BY <1>a DEF TypeOK
  <2>3. /\ cr[r].exists /\ cr[r].create # "pending" /\ ~isBucketAlreadyDeleted(cr[r])
        /\ ~cr[r].deleting /\ mem[w].create # "pending"
    BY <1>a, <1>2, <2>1 DEF FreshInv, StepInv, PlaceInv, BeforePending
  <2> DEFINE new == Merged(r, m)
             x == [new EXCEPT !.found = m.found]
  <2>4. Store(r, w, new) /\ mem' = [mem EXCEPT ![w] = x] /\ Goto(w, next)
    BY <1>2, <2>1 DEF UpdateResource
  <2>5. /\ new \in Resource /\ new.fin = m.fin /\ new.create = m.create
        /\ new.exists = cr[r].exists /\ new.deleting = cr[r].deleting
        /\ new.name = cr[r].name /\ new.policy = cr[r].policy
        /\ new.stName = cr[r].stName /\ new.ready = cr[r].ready /\ new.sync = cr[r].sync
    BY <2>2, MergedFields
  <2> HIDE DEF new
  <2>6. /\ x \in Resource
        /\ x.create = new.create /\ x.deleting = new.deleting /\ x.name = new.name
        /\ x.policy = new.policy /\ x.stName = new.stName /\ x.ready = new.ready
        /\ x.fin = new.fin
    BY <2>5 DEF Resource
  <2> HIDE DEF x
  <2>7. \A v \in Workers \ {w} : InCreation(v) => job[v] # r
    BY <2>3 DEF BInv, CreationInv
  <2>8. next \in Steps  BY DEF Steps
  <2> QED  BY <2>1, <2>3, <2>4, <2>5, <2>6, <2>7, <2>8, WorkerStores
<1> QED  BY <1>1, <1>2

\* AddFinalizer: a resource that is up to date is not being deleted.
LEMMA AddFinalizerStep ==
    ASSUME BInv, TypeOK', NEW w \in Workers, AddFinalizer(w)
    PROVE  BInv'
<1>a. TypeOK /\ StepInv(w) /\ FreshInv(w) /\ pc[w] = "finalizer"
  BY DEF BInv, AddFinalizer
<1>b. UNCHANGED <<store, job, cache, renames, purge>>
  BY DEF AddFinalizer, store, budgets, users
<1>c. mem[w] \in Resource /\ job[w] \in Resources  BY <1>a, Working
<1>d. /\ mem[w].create # "pending" /\ ~mem[w].deleting /\ Version(job[w], mem[w])
      /\ fresh[w] => ~isBucketAlreadyDeleted(cr[job[w]])
  BY <1>a DEF StepInv, PlaceInv, FreshInv, BeforePending
<1>1. CASE ~mem[w].fin
  <2> DEFINE m == [mem[w] EXCEPT !.fin = TRUE]
  <2>1. UpdateResource(w, m, "finalizer")  BY <1>1 DEF AddFinalizer
  <2>2. m \in Resource /\ m.fin /\ m.create = mem[w].create  BY <1>c DEF Resource
  <2> HIDE DEF m
  <2> QED  BY <1>a, <1>b, <2>1, <2>2, UpdateStep
<1>2. CASE mem[w].fin /\ ~mem[w].found
  <2>1. Goto(w, "pending") /\ UNCHANGED <<cr, fresh, synced, mem>>
    BY <1>2 DEF AddFinalizer
  <2>2. pc'[w] = "pending" /\ OthersStay({w})
    BY <1>a, <1>b, <2>1 DEF Goto, OthersStay, TypeOK
  <2>3. PlaceInv(w)' /\ ~InCreation(w)'
    BY <1>2, <1>d, <2>1, <2>2 DEF PlaceInv, InCreation
  <2> QED  BY <1>a, <1>b, <1>d, <2>1, <2>2, <2>3, StoreRests, MoveStep DEF BeforePending
<1>3. CASE mem[w].fin /\ mem[w].found
  <2>1. /\ Conditions(w, mem[w].ready, "success") /\ Goto(w, "status")
        /\ UNCHANGED <<cr, fresh, synced>>
    BY <1>3 DEF AddFinalizer
  <2>2. mem[w].ready \in {"none", "Creating", "Available", "Deleting"}
    BY <1>c DEF Resource
  <2>3. /\ mem'[w] = [mem[w] EXCEPT !.ready = mem[w].ready, !.sync = "success"]
        /\ \A v \in Workers \ {w} : mem'[v] = mem[v]
    BY <1>a, <1>b, <1>c, <2>1, <2>2, ConditionsTyping
  <2>4. /\ mem'[w].ready = mem[w].ready /\ mem'[w].deleting = mem[w].deleting
        /\ mem'[w].name = mem[w].name /\ mem'[w].policy = mem[w].policy
        /\ mem'[w].stName = mem[w].stName
    BY <1>c, <2>3 DEF Resource
  <2>5. pc'[w] = "status" /\ OthersStay({w})
    BY <1>a, <1>b, <2>1, <2>3 DEF Goto, OthersStay, TypeOK
  <2>6. Version(job[w], mem'[w]) /\ ~isBucketAlreadyDeleted(mem'[w])
    BY <1>d, <2>4 DEF Version, isBucketAlreadyDeleted
  <2>7. PlaceInv(w)' /\ ~InCreation(w)'  BY <2>5 DEF PlaceInv, InCreation, BeforePending
  <2> QED
    BY <1>a, <1>b, <2>1, <2>4, <2>5, <2>6, <2>7, StoreRests, MoveStep DEF BeforePending
<1> QED  BY <1>1, <1>2, <1>3

\* The annotation that marks the attempt is stored: the worker has the resource for
\* itself.
LEMMA SetPendingStep ==
    ASSUME BInv, TypeOK', NEW w \in Workers, SetPending(w)
    PROVE  BInv'
<1>a. TypeOK /\ StepInv(w) /\ pc[w] = "pending"  BY DEF BInv, SetPending
<1> DEFINE m == [mem[w] EXCEPT !.create = "pending"]
<1>1. UpdateResource(w, m, "create") /\ UNCHANGED <<store, job, cache, renames, purge>>
  BY DEF SetPending, store, budgets, users
<1>2. m \in Resource /\ m.fin /\ m.create = "pending"
  <2>1. mem[w] \in Resource /\ mem[w].fin  BY <1>a, Working DEF StepInv, PlaceInv
  <2> QED  BY <2>1 DEF Resource
<1> HIDE DEF m
<1> QED  BY <1>a, <1>1, <1>2, UpdateStep

\* The outcome of the attempt is stored by the only worker that creates.
LEMMA CriticalStep ==
    ASSUME BInv, TypeOK', NEW w \in Workers, CriticalAnnotations(w)
    PROVE  BInv'
<1>a. TypeOK /\ StepInv(w) /\ CreationInv(w) /\ OneCreator /\ pc[w] = "critical"
  BY DEF BInv, CriticalAnnotations
<1>1. PICK r \in Resources : r = job[w]  BY <1>a, Working
<1>2. cr[r] \in Resource /\ mem[w] \in Resource  BY <1>a, Working DEF TypeOK
<1>3. cr[r].exists /\ cr[r].fin /\ ~isBucketAlreadyDeleted(cr[r]) /\ InCreation(w)
  BY <1>a, <1>1 DEF CreationInv, InCreation
<1> DEFINE m == [mem[w] EXCEPT !.fin = cr[r].fin]
           new == Merged(r, m)
           x == [new EXCEPT !.ready = "Creating", !.sync = mem[w].sync]
<1>4. /\ Store(r, w, new) /\ mem' = [mem EXCEPT ![w] = x] /\ Goto(w, "status")
      /\ UNCHANGED <<store, job, cache, renames, purge>>
  BY <1>1 DEF CriticalAnnotations, budgets, users
<1>5. m \in Resource /\ m.fin  BY <1>2, <1>3 DEF Resource
<1> HIDE DEF m
<1>6. /\ new \in Resource /\ new.fin = m.fin
      /\ new.exists = cr[r].exists /\ new.deleting = cr[r].deleting
      /\ new.name = cr[r].name /\ new.policy = cr[r].policy
      /\ new.stName = cr[r].stName /\ new.ready = cr[r].ready /\ new.sync = cr[r].sync
  BY <1>2, <1>5, MergedFields
<1> HIDE DEF new
<1>7. /\ x \in Resource
      /\ x.create = new.create /\ x.deleting = new.deleting /\ x.name = new.name
      /\ x.policy = new.policy /\ x.stName = new.stName /\ x.ready = "Creating"
      /\ x.fin = new.fin
  BY <1>2, <1>6 DEF Resource
<1> HIDE DEF x
<1>8. \A v \in Workers \ {w} : InCreation(v) => job[v] # r
  BY <1>a, <1>1, <1>3 DEF OneCreator
<1> QED
  BY <1>1, <1>3, <1>4, <1>5, <1>6, <1>7, <1>8, WorkerStores DEF Steps

\* The reconcile of w ends with a version of its resource.
LEMMA EndStores ==
    ASSUME BInv, TypeOK', NEW w \in Workers, NEW r \in Resources, r = job[w],
           NEW new \in Resource, Stored(r, new), End(w),
           UNCHANGED <<store, cache, renames, purge>>,
           new.deleting = cr[r].deleting, new.name = cr[r].name, StoredInv(r)',
           \A v \in Workers \ {w} : InCreation(v) /\ job[v] = r =>
              /\ new.exists /\ new.fin /\ new.create = "pending"
              /\ ~isBucketAlreadyDeleted(new)
    PROVE  BInv'
<1>a. TypeOK  BY DEF BInv
<1>1. pc'[w] = "idle" /\ job'[w] = None /\ OthersStay({w})
  BY <1>a DEF End, OthersStay, TypeOK
<1>2. ASSUME NEW v \in Workers \ {w}, fresh'[v]
      PROVE  fresh[v] /\ (job[v] # r \/ new = cr[r])
  <2>1. cr'[r] = new  BY <1>a, StoredTyping
  <2> QED  BY <1>2, <2>1 DEF End
<1>3. StepInv(w)' /\ FreshInv(w)' /\ CreationInv(w)' /\ ~InCreation(w)'
  BY <1>1 DEF StepInv, PlaceInv, FreshInv, CreationInv, InCreation, BeforePending
<1>4. \A v \in {w} : StepInv(v)' /\ FreshInv(v)' /\ CreationInv(v)'  BY <1>3
<1>5. \A u \in {w}, v \in Workers :
         InCreation(u)' /\ InCreation(v)' /\ job'[v] = job'[u] => v = u
  BY <1>3
<1>6. {w} \in SUBSET Workers  OBVIOUS
<1> QED  BY <1>1, <1>2, <1>4, <1>5, <1>6, StoringStep

\* Versions of the stored resource after a step that stores one.
LEMMA VersionStored ==
    ASSUME BInv, NEW r \in Resources, NEW new \in Resource, Stored(r, new),
           UNCHANGED <<maker, renames, purge>>,
           cr[r].deleting => new.deleting, new.name = cr[r].name, Version(r, new)
    PROVE  cr'[r] = new /\ Version(r, cr[r])'
<1>1. cr'[r] = new /\ \A s \in Resources \ {r} : cr'[s] = cr[s]
  BY StoredTyping DEF BInv
<1>2. Frame  BY <1>1 DEF Frame, Exists
<1>3. Version(r, new)'  BY <1>2, VersionStays
<1> QED  BY <1>1, <1>3 DEF Version

\* The finalizer goes, and the resource with it: nothing is left.
LEMMA RemoveFinalizerStep ==
    ASSUME BInv, TypeOK', NEW w \in Workers, RemoveFinalizer(w)
    PROVE  BInv'
<1>a. TypeOK /\ StepInv(w) /\ FreshInv(w) /\ pc[w] = "removeFinalizer"
  BY DEF BInv, RemoveFinalizer
<1>b. UNCHANGED <<store, cache, renames, purge>>  BY DEF RemoveFinalizer, budgets, users
<1>1. CASE ~fresh[w]
  <2>1. Failed(w) /\ UNCHANGED <<cr, job, fresh, synced>>  BY <1>1 DEF RemoveFinalizer
  <2> QED  BY <1>a, <1>b, <2>1, FailedStep
<1>2. CASE fresh[w]
  <2>1. PICK r \in Resources : r = job[w]  BY <1>a, Working
  <2>2. cr[r] \in Resource /\ StoredInv(r)  BY <1>a DEF BInv, TypeOK
  <2>3. cr[r].create # "pending" /\ Nothing(r)
    BY <1>a, <1>2, <2>1 DEF FreshInv, StepInv, PlaceInv, BeforePending
  <2> DEFINE new == [cr[r] EXCEPT !.exists = FALSE, !.fin = FALSE]
  <2>4. Stored(r, new) /\ End(w)  BY <1>2, <2>1 DEF RemoveFinalizer
  <2>5. /\ new \in Resource /\ ~new.exists /\ new.deleting = cr[r].deleting
        /\ new.name = cr[r].name /\ new.policy = cr[r].policy
        /\ new.stName = cr[r].stName /\ new.ready = cr[r].ready
    BY <2>2 DEF Resource
  <2> HIDE DEF new
  <2>6. Version(r, new)  BY <2>2, <2>5, SameVersion DEF StoredInv
  <2>7. cr'[r] = new /\ Version(r, cr[r])'
    BY <1>b, <2>4, <2>5, <2>6, VersionStored DEF store
  <2>8. Nothing(r)'  BY <1>b, <2>3, <2>5, <2>7 DEF Nothing, Owned, store
  <2>9. StoredInv(r)'  BY <2>5, <2>7, <2>8 DEF StoredInv
  <2>10. \A v \in Workers \ {w} : InCreation(v) => job[v] # r
    BY <2>3 DEF BInv, CreationInv
  <2> QED  BY <1>b, <2>1, <2>4, <2>5, <2>9, <2>10, EndStores
<1> QED  BY <1>1, <1>2

\* The status is stored, if the copy is current.
LEMMA WriteStatusStep ==
    ASSUME BInv, TypeOK', NEW w \in Workers, WriteStatus(w)
    PROVE  BInv'
<1>a. TypeOK /\ StepInv(w) /\ FreshInv(w) /\ pc[w] = "status"
  BY DEF BInv, WriteStatus
<1>b. UNCHANGED <<store, cache, renames, purge>> /\ End(w)
  BY DEF WriteStatus, budgets, users
<1>1. PICK r \in Resources : r = job[w]  BY <1>a, Working
<1>2. cr[r] \in Resource /\ StoredInv(r) /\ mem[w] \in Resource
  BY <1>a, Working DEF BInv, TypeOK
<1>3. CASE ~fresh[w]
  <2>1. Stored(r, cr[r])  BY <1>1, <1>3 DEF WriteStatus
  <2>2. cr'[r] = cr[r] /\ \A s \in Resources \ {r} : cr'[s] = cr[s]
    BY <1>a, <1>2, <2>1, StoredTyping
  <2>3. Frame  BY <1>b, <2>2 DEF Frame, Exists, store
  <2>4. StoredInv(r)'
    <3>1. {} \in SUBSET Workers /\ StoreMoves({})  BY <1>b DEF StoreMoves, store
    <3> QED  BY <1>b, <2>2, <2>3, <3>1, StoredStays
  <2>5. \A v \in Workers \ {w} : InCreation(v) /\ job[v] = r =>
           /\ cr[r].exists /\ cr[r].fin /\ cr[r].create = "pending"
           /\ ~isBucketAlreadyDeleted(cr[r])
    BY DEF BInv, CreationInv
  <2> QED  BY <1>b, <1>1, <1>2, <2>1, <2>4, <2>5, EndStores
<1>4. CASE fresh[w]
  <2> DEFINE new == MergedStatus(r, mem[w])
  <2>1. Stored(r, new)  BY <1>1, <1>4 DEF WriteStatus
  <2>2. /\ new \in Resource /\ new.fin = cr[r].fin /\ new.create = cr[r].create
        /\ new.exists = cr[r].exists /\ new.deleting = cr[r].deleting
        /\ new.name = cr[r].name /\ new.policy = cr[r].policy
        /\ new.stName = mem[w].stName /\ new.ready = mem[w].ready
        /\ new.sync = mem[w].sync
    BY <1>2, MergedFields
  <2> HIDE DEF new
  <2>3. /\ cr[r].exists /\ mem[w].name = cr[r].name /\ mem[w].deleting = cr[r].deleting
        /\ Version(r, mem[w])
        /\ isBucketAlreadyDeleted(mem[w]) => Nothing(r) /\ cr[r].create # "pending"
    BY <1>a, <1>1, <1>4 DEF FreshInv, StepInv
  <2>4. Version(r, new)
    <3>1. Version(r, cr[r])  BY <1>2 DEF StoredInv
    <3> QED  BY <2>2, <2>3, <3>1 DEF Version
  <2>5. cr'[r] = new /\ Version(r, cr[r])'
    BY <1>b, <2>1, <2>2, <2>4, VersionStored DEF store
  <2>6. isBucketAlreadyDeleted(new) => Nothing(r) /\ cr[r].create # "pending"
    BY <2>2, <2>3 DEF isBucketAlreadyDeleted
  <2>7. StoredInv(r)'
    <3>1. Nothing(r) => Nothing(r)'  BY <1>b, <2>2, <2>5 DEF Nothing, Owned, store
    <3>2. \A n \in Names : maker'[n] = maker[n]  BY <1>b DEF store
    <3>3. isBucketAlreadyDeleted(cr'[r]) => Nothing(r)'  BY <2>5, <2>6, <3>1
    <3> QED
      BY <1>2, <2>2, <2>3, <2>5, <3>2, <3>3 DEF StoredInv, isBucketAlreadyDeleted
  <2>8. \A v \in Workers \ {w} : InCreation(v) /\ job[v] = r =>
           /\ new.exists /\ new.fin /\ new.create = "pending"
           /\ ~isBucketAlreadyDeleted(new)
    BY <2>2, <2>6 DEF BInv, CreationInv
  <2> QED  BY <1>b, <1>1, <2>1, <2>2, <2>7, <2>8, EndStores
<1> QED  BY <1>3, <1>4

\* A user stores a version of r: no worker moves.
LEMMA UserStores ==
    ASSUME BInv, TypeOK', NEW r \in Resources, NEW new \in Resource, Store(r, None, new),
           UNCHANGED <<store, pc, job, mem, cache>>, renames' = 0 => renames = 0,
           purge \subseteq purge', cr[r].deleting => new.deleting,
           renames' = 0 => new.name = cr[r].name, StoredInv(r)',
           cr[r].exists /\ cr[r].fin /\ cr[r].create = "pending"
              /\ ~isBucketAlreadyDeleted(cr[r]) =>
              new.exists /\ new.fin /\ new.create = "pending" /\ ~isBucketAlreadyDeleted(new)
    PROVE  BInv'
<1>1. OthersStay({}) /\ {} \in SUBSET Workers  BY DEF OthersStay
<1>2. \A v \in Workers : fresh'[v] => fresh[v] /\ (job[v] # r \/ new = cr[r])
  BY NamesAssumption DEF Store
<1>3. \A v \in Workers : InCreation(v) /\ job[v] = r =>
         new.exists /\ new.fin /\ new.create = "pending" /\ ~isBucketAlreadyDeleted(new)
  BY DEF BInv, CreationInv
<1>4. Stored(r, new)  BY DEF Store
<1> QED  BY <1>1, <1>2, <1>3, <1>4, StoringStep

\* A resource without a finalizer, which goes at once, has made nothing.
LEMMA UserDeleteStep ==
    ASSUME BInv, TypeOK', NEW r \in Resources, UserDelete(r)
    PROVE  BInv'
<1>a. cr[r] \in Resource /\ StoredInv(r)  BY DEF BInv, TypeOK
<1>b. UNCHANGED <<store, pc, job, mem, cache, renames>> /\ cr[r].exists
  BY DEF UserDelete, StoreByUser
<1>c. Version(r, cr[r])  BY <1>a DEF StoredInv
<1>1. CASE cr[r].fin
  <2> DEFINE new == [cr[r] EXCEPT !.deleting = TRUE]
  <2>1. /\ Store(r, None, new) /\ purge \subseteq purge'
        /\ new.deleting /\ new.policy = "DeleteAll" => r \in purge'
    BY <1>1 DEF UserDelete, StoreByUser
  <2>2. /\ new \in Resource /\ new.deleting /\ new.exists /\ new.fin
        /\ new.create = cr[r].create /\ new.name = cr[r].name
        /\ new.policy = cr[r].policy /\ new.stName = cr[r].stName
        /\ new.ready = cr[r].ready /\ new.sync = cr[r].sync
    BY <1>1, <1>a, <1>b DEF Resource
  <2> HIDE DEF new
  <2>3. cr'[r] = new  BY <2>1, <2>2, StoredTyping DEF BInv, Store
  <2>4. Version(r, cr[r])'  BY <1>b, <1>c, <2>1, <2>2, <2>3 DEF Version
  <2>5. StoredInv(r)'
    <3>1. isBucketAlreadyDeleted(cr'[r]) => Nothing(r)
      BY <1>a, <2>2, <2>3 DEF StoredInv, isBucketAlreadyDeleted
    <3>2. Nothing(r) => Nothing(r)'  BY <1>b, <2>2, <2>3 DEF Nothing, Owned, store
    <3> QED  BY <2>2, <2>3, <2>4, <3>1, <3>2 DEF StoredInv, isBucketAlreadyDeleted
  <2>6. isBucketAlreadyDeleted(new) <=> isBucketAlreadyDeleted(cr[r])
    BY <2>2 DEF isBucketAlreadyDeleted
  <2> QED  BY <1>b, <2>1, <2>2, <2>5, <2>6, UserStores
<1>2. CASE ~cr[r].fin
  <2> DEFINE new == [cr[r] EXCEPT !.exists = FALSE]
  <2>1. Store(r, None, new) /\ UNCHANGED purge
    <3>1. ~cr[r].deleting  BY DEF UserDelete
    <3>2. ~new.deleting  BY <1>a, <3>1 DEF Resource
    <3>3. StoreByUser(r, new)  BY <1>2 DEF UserDelete
    <3> HIDE DEF new
    <3> QED  BY <3>2, <3>3 DEF StoreByUser
  <2>2. /\ new \in Resource /\ ~new.exists /\ new.deleting = cr[r].deleting
        /\ new.name = cr[r].name
        /\ new.policy = cr[r].policy /\ new.stName = cr[r].stName
        /\ new.ready = cr[r].ready /\ new.sync = cr[r].sync
    BY <1>a DEF Resource
  <2> HIDE DEF new
  <2>3. Stored(r, new)  BY <2>1 DEF Store
  <2>4. Version(r, new)  BY <1>c, <2>2, SameVersion
  <2>5. cr'[r] = new /\ Version(r, cr[r])'
    BY <1>b, <2>1, <2>2, <2>3, <2>4, VersionStored DEF store
  <2>6. Nothing(r)'
    <3>1. \A n \in Names : maker[n] # r  BY <1>2, <1>a, <1>b DEF StoredInv
    <3> QED  BY <1>b, <3>1 DEF Nothing, Owned, store
  <2>7. StoredInv(r)'  BY <2>2, <2>5, <2>6 DEF StoredInv
  <2> QED  BY <1>2, <1>b, <2>1, <2>2, <2>7, UserStores
<1> QED  BY <1>1, <1>2

\* The name changes only while the status has none: nothing was recorded yet.  With
\* another policy the deletion asks for something else from now on.
LEMMA UserEditStep ==
    ASSUME BInv, TypeOK', NEW r \in Resources, UserEdit(r)
    PROVE  BInv'
<1>a. cr[r] \in Resource /\ StoredInv(r) /\ TypeOK  BY DEF BInv, TypeOK
<1>b. UNCHANGED <<store, pc, job, mem, cache>> /\ cr[r].exists
  BY DEF UserEdit, StoreByUser
<1>c. Version(r, cr[r])  BY <1>a DEF StoredInv
<1>1. PICK n \in Names, p \in Policies :
         LET x == [cr[r] EXCEPT !.name = n, !.policy = p]
         IN /\ ValidateUpdate(cr[r], x) /\ StoreByUser(r, x)
            /\ IF n = cr[r].name THEN UNCHANGED renames
                                 ELSE renames < MaxRenames /\ renames' = renames + 1
  BY DEF UserEdit
<1> DEFINE new == [cr[r] EXCEPT !.name = n, !.policy = p]
<1>2. ValidateUpdate(cr[r], new) /\ StoreByUser(r, new)  BY <1>1
<1>3. /\ new \in Resource /\ new.deleting = cr[r].deleting /\ new.exists
      /\ new.fin = cr[r].fin /\ new.create = cr[r].create
      /\ new.name = n /\ new.stName = cr[r].stName
      /\ new.ready = cr[r].ready /\ new.sync = cr[r].sync
  BY <1>a, <1>b DEF Resource
<1> HIDE DEF new
<1>4. /\ Store(r, None, new) /\ purge \subseteq purge'
      /\ new.deleting /\ new.policy = "DeleteAll" => r \in purge'
  BY <1>2 DEF StoreByUser
<1>5. cr'[r] = new  BY <1>3, <1>4, StoredTyping DEF BInv, Store
<1>6. IF n = cr[r].name THEN renames' = renames
      ELSE renames' # 0 /\ MaxRenames # 0 /\ cr[r].stName = None /\ cr[r].ready # "Deleting"
  <2>1. renames \in Nat /\ MaxRenames \in Nat  BY <1>a, BoundsAssumption DEF TypeOK
  <2>2. cr[r].stName # None => n = cr[r].name
    BY <1>2, <1>3, <1>c DEF ValidateUpdate, Version
  <2>3. cr[r].ready = "Deleting" => cr[r].stName # None  BY <1>c DEF Version
  <2> QED  BY <1>1, <2>1, <2>2, <2>3
<1>7. Version(r, cr[r])'
  BY <1>b, <1>c, <1>3, <1>4, <1>5, <1>6 DEF Version, Tracked, Some, Exists, store
<1>8. StoredInv(r)'
  <2>1. \A m \in Names : maker'[m] = maker[m]  BY <1>b DEF store
  <2>2. ASSUME isBucketAlreadyDeleted(cr'[r])  PROVE Nothing(r)'
    <3>1. Nothing(r)  BY <1>a, <1>3, <1>5, <2>2 DEF StoredInv, isBucketAlreadyDeleted
    <3>2. renames' = renames /\ cr'[r].name = cr[r].name
      BY <1>3, <1>5, <1>6, <2>2 DEF isBucketAlreadyDeleted
    <3> QED  BY <2>1, <3>1, <3>2 DEF Nothing, Owned
  <2> QED  BY <1>a, <1>b, <1>3, <1>5, <1>7, <2>1, <2>2 DEF StoredInv, isBucketAlreadyDeleted
<1>9. isBucketAlreadyDeleted(new) <=> isBucketAlreadyDeleted(cr[r])
  BY <1>3 DEF isBucketAlreadyDeleted
<1> QED  BY <1>b, <1>3, <1>4, <1>6, <1>8, <1>9, UserStores

-----------------------------------------------------------------------------
(* The other steps.                                                        *)

\* Nothing changes but what the buckets hold, or what users and faults have left.
LEMMA RestStep ==
    ASSUME BInv, TypeOK', UNCHANGED <<cr, maker, pc, job, mem, fresh, cache, synced, renames, purge>>,
           \A n \in Names : full'[n] => maker'[n] # None
    PROVE  BInv'
<1>1. OthersStay({}) /\ {} \in SUBSET Workers /\ StoreMoves({}) /\ Frame
  BY DEF OthersStay, StoreMoves, Frame, Exists
<1>2. \A v \in Workers : CreationInv(v)'
  BY DEF BInv, CreationInv, InCreation, isBucketAlreadyDeleted
<1>3. \A r \in Resources : StoredInv(r)'  BY <1>1, StoredStays
<1> QED  BY <1>1, <1>2, <1>3, StepPreserves

\* The informer brings the stored version.
LEMMA CacheSyncStep ==
    ASSUME BInv, TypeOK', NEW w \in Workers, NEW r \in Resources, CacheSync(w, r)
    PROVE  BInv'
<1>a. TypeOK  BY DEF BInv
<1>b. UNCHANGED <<cr, maker, full, pc, job, mem, fresh, renames, purge>>
  BY DEF CacheSync, store, budgets, users
<1>1. \A s \in Resources : StoredInv(s)'
  BY <1>b DEF BInv, StoredInv, Version, isBucketAlreadyDeleted, Nothing, Owned, Exists,
     Tracked, Some
<1>2. StoreInv' /\ OneCreator'
  BY <1>b DEF BInv, StoreInv, OneCreator, InCreation, Exists
<1>3. \A v \in Workers : StepInv(v)' /\ CreationInv(v)'
  BY <1>b DEF BInv, StepInv, CreationInv, InCreation, Version, PlaceInv,
     isBucketAlreadyDeleted, Exists, Tracked, Some
<1>4. \A v \in Workers : FreshInv(v)'
  BY <1>b DEF BInv, FreshInv, isBucketAlreadyDeleted, Nothing, Owned
<1>5. CacheInv'
  <2> SUFFICES ASSUME NEW v \in Workers, NEW s \in Resources
               PROVE  /\ Version(s, cache[v][s])'
                      /\ synced'[v][s] => cache'[v][s] = cr'[s]
    BY DEF CacheInv
  <2>1. cache[w] \in [Resources -> Resource] /\ synced[w] \in [Resources -> BOOLEAN]
    BY <1>a DEF TypeOK
  <2>2. \A x \in Resource : Version(s, x) => Version(s, x)'
    BY <1>b DEF Version, Exists, Tracked, Some
  <2>3. CASE v = w /\ s = r
    <3>1. cache'[v][s] = cr[s]  BY <1>a, <2>1, <2>3 DEF CacheSync, TypeOK
    <3>2. Version(s, cr[s]) /\ cr[s] \in Resource  BY <1>a DEF BInv, StoredInv, TypeOK
    <3> QED  BY <1>b, <2>2, <3>1, <3>2 DEF Version
  <2>4. CASE ~(v = w /\ s = r)
    <3>1. cache'[v][s] = cache[v][s] /\ synced'[v][s] = synced[v][s]
      BY <1>a, <2>1, <2>4 DEF CacheSync, TypeOK
    <3>2. /\ Version(s, cache[v][s]) /\ cache[v][s] \in Resource
          /\ synced[v][s] => cache[v][s] = cr[s]
      BY <1>a DEF BInv, CacheInv, TypeOK
    <3> QED  BY <1>b, <2>2, <3>1, <3>2 DEF Version
  <2> QED  BY <2>3, <2>4
<1> QED  BY <1>1, <1>2, <1>3, <1>4, <1>5 DEF BInv

\* Objects go into a bucket that exists.
LEMMA UploadStep ==
    ASSUME BInv, TypeOK', NEW n \in Names, Upload(n)
    PROVE  BInv'
<1>1. UNCHANGED <<cr, maker, pc, job, mem, fresh, cache, synced, renames, purge>>
  BY DEF Upload, copies
<1>2. \A m \in Names : full'[m] => maker'[m] # None
  BY <1>1 DEF BInv, TypeOK, StoreInv, Upload, Exists
<1> QED  BY <1>1, <1>2, RestStep

-----------------------------------------------------------------------------
(* The invariant and what follows from it.                                 *)

\* Resources that users have just made satisfy it.
LEMMA InitInv == Init => BInv
<1> SUFFICES ASSUME Init  PROVE BInv
  OBVIOUS
<1>1. PICK n \in [Resources -> Names], p \in [Resources -> Policies] :
         cr = [r \in Resources |-> NewResource(n[r], p[r])]
  BY DEF Init
<1>2. ASSUME NEW r \in Resources
      PROVE  /\ cr[r] \in Resource /\ cr[r].exists /\ cr[r].create = "none"
             /\ cr[r].stName = None /\ cr[r].ready = "none" /\ ~cr[r].deleting
  BY <1>1 DEF NewResource, Resource
<1>3. /\ maker = [m \in Names |-> None] /\ full = [m \in Names |-> FALSE]
      /\ pc = [w \in Workers |-> "idle"] /\ job = [w \in Workers |-> None]
      /\ mem = [w \in Workers |-> None] /\ fresh = [w \in Workers |-> FALSE]
      /\ cache = [w \in Workers |-> cr]
      /\ synced = [w \in Workers |-> [r \in Resources |-> TRUE]]
  BY DEF Init
<1>4. cr \in [Resources -> Resource]  BY <1>1, <1>2
<1>5. TypeOK  BY <1>3, <1>4, BoundsAssumption DEF Init, TypeOK, Steps
<1>6. \A r \in Resources : Version(r, cr[r])  BY <1>2 DEF Version
<1>7. \A r \in Resources : StoredInv(r)
  BY <1>2, <1>3, <1>6, NamesAssumption DEF StoredInv, isBucketAlreadyDeleted
<1>8. StoreInv  BY <1>3 DEF StoreInv, Exists
<1>9. CacheInv  BY <1>3, <1>6 DEF CacheInv
<1>10. \A w \in Workers : StepInv(w) /\ FreshInv(w) /\ CreationInv(w) /\ ~InCreation(w)
  BY <1>3 DEF StepInv, PlaceInv, BeforePending, FreshInv, CreationInv, InCreation
<1> QED  BY <1>5, <1>7, <1>8, <1>9, <1>10 DEF BInv, OneCreator

\* Every step preserves the invariant: one case per action.
LEMMA NextInv == BInv /\ [Next]_vars => BInv'
<1> SUFFICES ASSUME BInv, [Next]_vars  PROVE BInv'
  OBVIOUS
<1>t. TypeOK'  BY NextTyping DEF BInv
<1>1. ASSUME NEW w \in Workers, Continue(w)  PROVE BInv'
  BY <1>1, <1>t, ConnectStep, ObserveStep, AddFinalizerStep, SetPendingStep,
     MakeBucketStep, RecheckStep, CriticalStep, DeleteObjectsStep, RemoveBucketStep,
     RemoveFinalizerStep, WriteStatusStep DEF Continue
<1>2. ASSUME NEW w \in Workers, CallFails(w)  PROVE BInv'
  <2>1. /\ pc[w] # "idle" /\ Failed(w)
        /\ UNCHANGED <<cr, store, job, fresh, cache, synced, renames, purge>>
    BY <1>2 DEF CallFails, copies, users
  <2> QED  BY <1>t, <2>1, FailedStep
<1>3. ASSUME NEW w \in Workers, Crash(w)  PROVE BInv'
  BY <1>3, <1>t, CrashStep
<1>4. ASSUME NEW w \in Workers, NEW r \in Resources, StartReconcile(w, r)  PROVE BInv'
  BY <1>4, <1>t, StartStep
<1>5. ASSUME NEW w \in Workers, NEW r \in Resources, CacheSync(w, r)  PROVE BInv'
  BY <1>5, <1>t, CacheSyncStep
<1>6. ASSUME NEW r \in Resources, UserDelete(r)  PROVE BInv'
  BY <1>6, <1>t, UserDeleteStep
<1>7. ASSUME NEW r \in Resources, UserEdit(r)  PROVE BInv'
  BY <1>7, <1>t, UserEditStep
<1>8. ASSUME NEW n \in Names, Upload(n)  PROVE BInv'
  BY <1>8, <1>t, UploadStep
<1>9. CASE UserCredentials \/ UNCHANGED vars
  <2>1. UNCHANGED <<cr, maker, full, pc, job, mem, fresh, cache, synced, renames, purge>>
    BY <1>9 DEF UserCredentials, vars, store, copies, budgets, users
  <2>2. \A n \in Names : full'[n] => maker'[n] # None
    BY <2>1 DEF BInv, StoreInv, Exists
  <2> QED  BY <1>t, <2>1, <2>2, RestStep
<1> QED  BY <1>1, <1>2, <1>3, <1>4, <1>5, <1>6, <1>7, <1>8, <1>9 DEF Next

\* The inductive invariant holds in every reachable state.
THEOREM BucketInvariance == Spec => []BInv
<1> QED  BY InitInv, NextInv, PTL DEF Spec

\* The copies, the caches and the status always hold what they are declared to hold.
THEOREM BucketTypes == Spec => []TypeOK
<1>1. BInv => TypeOK  BY DEF BInv
<1> QED  BY <1>1, BucketInvariance, PTL

\* The name that Delete takes from the status is the name that Observe looked for.
THEOREM StatusIsOfSpec == Spec => []StatusNamesBucket
<1>1. BInv => StatusNamesBucket  BY DEF BInv, StoredInv, Version, StatusNamesBucket
<1> QED  BY <1>1, BucketInvariance, PTL

\* The client that finds nothing is given only to a resource whose bucket is gone.
THEOREM DeletedIsDeleted == Spec => []DeletedConditionsTrue
<1>1. BInv => DeletedConditionsTrue
  BY DEF BInv, StoredInv, DeletedConditionsTrue, Nothing
<1> QED  BY <1>1, BucketInvariance, PTL

\* The finalizer outlives the bucket.
THEOREM BucketGoneFirst == Spec => []NoBucketLeft
<1>1. BInv => NoBucketLeft  BY DEF BInv, StoredInv, NoBucketLeft, Nothing
<1> QED  BY <1>1, BucketInvariance, PTL

-----------------------------------------------------------------------------
(* What a step never does to buckets and objects.                          *)

\* The steps that change buckets.
LEMMA StoreSteps ==
    ASSUME [Next]_vars
    PROVE  \/ UNCHANGED store
           \/ \E w \in Workers : MakeBucket(w) \/ DeleteObjects(w) \/ RemoveBucket(w)
           \/ \E n \in Names : Upload(n)
<1>1. ASSUME NEW w \in Workers, Continue(w)
      PROVE  UNCHANGED store \/ MakeBucket(w) \/ DeleteObjects(w) \/ RemoveBucket(w)
  BY <1>1 DEF Continue, Connect, Observe, AddFinalizer, SetPending, RecheckBucket,
     CriticalAnnotations, RemoveFinalizer, WriteStatus
<1>2. ASSUME NEW w \in Workers, CallFails(w) \/ Crash(w)  PROVE UNCHANGED store
  BY <1>2 DEF CallFails, Crash
<1>3. ASSUME NEW w \in Workers, NEW r \in Resources, StartReconcile(w, r) \/ CacheSync(w, r)
      PROVE  UNCHANGED store
  BY <1>3 DEF StartReconcile, CacheSync
<1>4. ASSUME NEW r \in Resources, UserDelete(r) \/ UserEdit(r)  PROVE UNCHANGED store
  BY <1>4 DEF UserDelete, UserEdit, StoreByUser
<1>5. CASE UserCredentials \/ UNCHANGED vars  BY <1>5 DEF UserCredentials, vars
<1> QED  BY <1>1, <1>2, <1>3, <1>4, <1>5 DEF Next

\* Nobody asks for a bucket under two names, or nobody else asks for it.  With both,
\* a copy that was read before a change of the name removes a bucket that another
\* resource made, since the lock does not say for which name it is held.
OneClaim == MaxRenames = 0 \/ \A r, s \in Resources : r = s

\* A worker that deletes works for a resource that is being deleted and asks for the
\* bucket of its copy; a copy with DeleteAll was asked for in the deletion.
LEMMA DeleterAsks ==
    ASSUME BInv, OneClaim, NEW w \in Workers, pc[w] \in {"deleteObjects", "removeBucket"}
    PROVE  /\ mem[w].stName \in Names
           /\ Exists(mem[w].stName) =>
              \E r \in Resources : /\ cr[r].deleting /\ AsksFor(r, mem[w].stName)
                                   /\ mem[w].policy = "DeleteAll" => r \in purge
<1>a. TypeOK /\ StepInv(w) /\ StoreInv  BY DEF BInv
<1>b. job[w] \in Resources /\ mem[w] \in Resource  BY <1>a, Working
<1>1. /\ Version(job[w], mem[w]) /\ mem[w].deleting /\ mem[w].stName # None
  BY <1>a DEF StepInv, PlaceInv
<1>2. /\ cr[job[w]].deleting /\ (mem[w].policy = "DeleteAll" => job[w] \in purge)
      /\ mem[w].stName = mem[w].name /\ (renames = 0 => mem[w].name = cr[job[w]].name)
  BY <1>1 DEF Version
<1>3. mem[w].stName \in Names  BY <1>b, <1>1 DEF Resource
<1>4. CASE MaxRenames = 0
  <2>1. renames = 0  BY <1>a, <1>4 DEF TypeOK
  <2> QED  BY <1>b, <1>2, <1>3, <2>1 DEF AsksFor
<1>5. CASE \A r, s \in Resources : r = s
  <2>1. Exists(mem[w].stName) => maker[mem[w].stName] = job[w]
    BY <1>a, <1>b, <1>3, <1>5 DEF Exists, TypeOK
  <2> QED  BY <1>b, <1>2, <1>3, <2>1 DEF AsksFor
<1> QED  BY <1>4, <1>5 DEF OneClaim

\* Where nobody asks for a bucket under two names or nobody else asks for it, objects
\* go only in the deletion of a resource that asked for DeleteAll since it began.  An
\* outdated copy may still act on a policy that the user took back since, and on no other.
THEOREM ObjectsStay == ASSUME OneClaim  PROVE Spec => ObjectsKept
<1>1. ASSUME BInv, [Next]_vars, NEW n \in Names, full[n], ~full'[n]
      PROVE  \E r \in Resources : r \in purge /\ AsksFor(r, n)
  <2>a. TypeOK /\ Exists(n)  BY <1>1 DEF BInv, StoreInv
  <2>1. PICK w \in Workers : MakeBucket(w) \/ DeleteObjects(w) \/ RemoveBucket(w)
    <3>1. ASSUME NEW m \in Names, Upload(m)  PROVE full'[n] = full[n] \/ full'[n]
      BY <2>a, <3>1 DEF Upload, TypeOK
    <3> QED  BY <1>1, <3>1, StoreSteps DEF store
  <2>2. CASE MakeBucket(w)
    <3>1. full' = full \/ (~Exists(mem[w].name) /\ Made(mem[w].name, job[w]))
      BY <2>2 DEF MakeBucket, store
    <3> QED  BY <1>1, <2>a, <3>1 DEF Made, TypeOK
  <2>3. CASE RemoveBucket(w)  BY <1>1, <2>3 DEF RemoveBucket
  <2>4. CASE DeleteObjects(w)
    <3>1. /\ pc[w] = "deleteObjects" /\ mem[w].policy = "DeleteAll"
          /\ full' = [full EXCEPT ![mem[w].stName] = FALSE]
      BY <1>1, <2>4 DEF DeleteObjects
    <3>2. n = mem[w].stName  BY <1>1, <2>a, <3>1 DEF TypeOK
    <3> QED  BY <1>1, <2>a, <3>1, <3>2, DeleterAsks
  <2> QED  BY <2>1, <2>2, <2>3, <2>4
<1>2. BInv /\ [Next]_vars =>
        [\A n \in Names : full[n] /\ ~full'[n] =>
            \E r \in Resources : r \in purge /\ AsksFor(r, n)]_vars
  BY <1>1
<1> QED  BY <1>2, BucketInvariance, PTL DEF Spec, ObjectsKept

\* ... and none takes the bucket of a resource that nobody deletes, or one that holds
\* objects.
THEOREM BucketsStay == ASSUME OneClaim  PROVE Spec => BucketsKept
<1>1. ASSUME BInv, [Next]_vars, NEW n \in Names, Exists(n), ~Exists(n)'
      PROVE  ~full[n] /\ \E r \in Resources : cr[r].deleting /\ AsksFor(r, n)
  <2>a. TypeOK /\ maker'[n] = None /\ maker[n] # None  BY <1>1 DEF BInv, Exists
  <2>1. PICK w \in Workers : MakeBucket(w) \/ DeleteObjects(w) \/ RemoveBucket(w)
    <3>1. ASSUME NEW m \in Names, Upload(m)  PROVE maker' = maker
      BY <3>1 DEF Upload
    <3> QED  BY <1>1, <2>a, <3>1, StoreSteps DEF store
  <2>2. CASE MakeBucket(w)
    <3>1. maker' = maker \/ (~Exists(mem[w].name) /\ Made(mem[w].name, job[w]))
      BY <2>2 DEF MakeBucket, store
    <3> QED  BY <1>1, <2>a, <3>1 DEF Made, TypeOK
  <2>3. CASE DeleteObjects(w)  BY <2>a, <2>3 DEF DeleteObjects
  <2>4. CASE RemoveBucket(w)
    <3>1. pc[w] = "removeBucket" /\ Removed(mem[w].stName)
      BY <2>a, <2>4 DEF RemoveBucket
    <3>2. n = mem[w].stName /\ ~full[n]  BY <2>a, <3>1 DEF Removed, TypeOK
    <3> QED  BY <1>1, <3>1, <3>2, DeleterAsks
  <2> QED  BY <2>1, <2>2, <2>3, <2>4
<1>2. BInv /\ [Next]_vars =>
        [\A n \in Names : Exists(n) /\ ~Exists(n)' =>
            ~full[n] /\ \E r \in Resources : cr[r].deleting /\ AsksFor(r, n)]_vars
  BY <1>1
<1> QED  BY <1>2, BucketInvariance, PTL DEF Spec, BucketsKept

-----------------------------------------------------------------------------
(* Who manages a bucket.                                                   *)

\* While nothing is deleted a bucket stays the one of the resource that made it, and
\* so do the locks.
LEMMA LocksStay ==
    ASSUME BInv, Locks, [Next]_vars
    PROVE  /\ \A n \in Names : maker[n] # None => maker'[n] = maker[n]
           /\ \A r \in Resources, x \in Resource :
                 Holds(r, x) => (x.lock => maker'[x.name] = r)
<1>a. TypeOK  BY DEF BInv
<1>1. ASSUME NEW w \in Workers, RemoveBucket(w)  PROVE FALSE
  <2>1. StepInv(w) /\ pc[w] = "removeBucket"  BY <1>1 DEF BInv, RemoveBucket
  <2>2. job[w] \in Resources  BY <1>a, <2>1, Working
  <2> QED  BY <2>1, <2>2 DEF StepInv, PlaceInv, Version, Locks
<1>2. ASSUME NEW w \in Workers, MakeBucket(w)
      PROVE  \A n \in Names : maker[n] # None => maker'[n] = maker[n]
  <2>1. \/ maker' = maker
        \/ ~Exists(mem[w].name) /\ maker' = [maker EXCEPT ![mem[w].name] = job[w]]
    BY <1>2 DEF MakeBucket, store, Made
  <2> QED  BY <1>a, <2>1 DEF TypeOK, Exists
<1>3. \A n \in Names : maker[n] # None => maker'[n] = maker[n]
  BY <1>1, <1>2, StoreSteps DEF DeleteObjects, Upload, store
<1>4. \A x \in Resource : x.name \in Names  BY DEF Resource
<1> QED  BY <1>3, <1>4, NamesAssumption DEF Holds

\* What a worker does within a reconcile, of which there is one.
LEMMA LocksContinue ==
    ASSUME BInv, BInv', Locks, OneProcess, renames = 0, NEW w \in Workers,
           Continue(w) \/ CallFails(w) \/ Crash(w)
    PROVE  Locks'
<1>a. /\ TypeOK /\ TypeOK' /\ StepInv(w) /\ \A v \in Workers : v = w
      /\ \A r \in Resources : ~cr[r].deleting
  BY DEF BInv, OneProcess, Locks
<1>b. pc[w] # "idle"
  BY DEF Continue, Connect, Observe, AddFinalizer, SetPending, MakeBucket, RecheckBucket,
     CriticalAnnotations, DeleteObjects, RemoveBucket, RemoveFinalizer, WriteStatus,
     CallFails, Crash
<1>c. /\ job[w] \in Resources /\ mem[w] \in Resource /\ cr[job[w]] \in Resource
      /\ mem[w].name = cr[job[w]].name /\ mem[w].name \in Names /\ ~mem[w].deleting
  <2>1. job[w] \in Resources /\ mem[w] \in Resource /\ cr[job[w]] \in Resource
    BY <1>a, <1>b, Working
  <2> QED  BY <1>a, <1>b, <2>1 DEF StepInv, Version, Resource
<1>d. /\ \A n \in Names : maker[n] # None => maker'[n] = maker[n]
      /\ \A r \in Resources, x \in Resource :
            Holds(r, x) => (x.lock => maker'[x.name] = r)
  <2>1. Next  BY DEF Next
  <2> QED  BY <2>1, LocksStay
<1>e. /\ Holds(job[w], mem[w])
      /\ FoundFree(w) => ~Exists(mem[w].name)
      /\ pc[w] = "recheck" => maker[mem[w].name] \in {None, job[w]}
  BY <1>b DEF Locks, CopyInv
<1> DEFINE Stays == \A r \in Resources : ~cr'[r].deleting /\ Holds(r, cr[r])'
           Kept == mem'[w].lock => maker'[mem'[w].name] = job[w]
<1>f. cache' = cache => \A v \in Workers, r \in Resources : Holds(r, cache[v][r])'
  BY <1>a, <1>d DEF TypeOK, Locks, Holds
<1>g. cr' = cr => Stays
  BY <1>a, <1>d DEF TypeOK, Locks, Holds
<1>h. ASSUME NEW new \in Resource, Stored(job[w], new), ~new.deleting,
             new.lock => maker'[new.name] = job[w]
      PROVE  Stays
  <2>1. cr'[job[w]] = new /\ \A r \in Resources \ {job[w]} : cr'[r] = cr[r]
    BY <1>a, <1>c, <1>h, StoredTyping
  <2>2. \A r \in Resources : cr[r] \in Resource /\ Holds(r, cr[r])
    BY <1>a DEF TypeOK, Locks
  <2> QED  BY <1>a, <1>d, <1>h, <2>1, <2>2 DEF Holds
<1>i. Holds(job[w], mem[w]) /\ mem'[w].lock = mem[w].lock /\ mem'[w].name = mem[w].name
        => Kept
  BY <1>c, <1>d DEF Holds
<1>j. ASSUME UNCHANGED job, Failed(w)
      PROVE  /\ pc'[w] = "status" /\ Kept
             /\ mem'[w].lock = mem[w].lock /\ mem'[w].name = mem[w].name
  <2>1. Conditions(w, mem[w].ready, "error") /\ Goto(w, "status")  BY <1>j DEF Failed
  <2>2. /\ mem[w].ready \in {"none", "Creating", "Available", "Deleting"}
    BY <1>c DEF Resource
  <2>3. mem'[w] = [mem[w] EXCEPT !.ready = mem[w].ready, !.sync = "error"]
    BY <1>a, <1>c, <1>j, <2>1, <2>2, ConditionsTyping
  <2>4. mem'[w].lock = mem[w].lock /\ mem'[w].name = mem[w].name
    BY <1>c, <2>3, CopyConditions
  <2> QED  BY <1>a, <1>e, <1>i, <2>1, <2>4 DEF Goto, TypeOK
\* A copy at a step that asks nothing of it.
<1>k. ASSUME Stays, cache' = cache, job' = job, Kept,
             \/ pc'[w] \notin {"finalizer", "pending", "create", "recheck"}
             \/ pc'[w] = "finalizer" /\ mem'[w].found
      PROVE  Locks'
  BY <1>a, <1>f, <1>k DEF Locks, CopyInv, FoundFree, Holds
\* ... or that the name is free.
<1>l. ASSUME Stays, cache' = cache, job' = job, Kept, ~Exists(mem[w].name),
             maker' = maker, mem'[w].name = mem[w].name, pc'[w] # "recheck"
      PROVE  Locks'
  BY <1>a, <1>f, <1>l DEF Locks, CopyInv, FoundFree, Holds, Exists
<1>m. End(w) /\ Stays /\ cache' = cache => Locks'
  BY <1>a, <1>f DEF Locks, CopyInv, End, TypeOK
<1>n. ASSUME NEW m \in Resource, NEW step \in Steps, UpdateResource(w, m, step),
             m.lock = mem[w].lock, UNCHANGED <<store, job, cache>>
      PROVE  /\ Stays /\ Kept /\ mem'[w].name = mem[w].name
             /\ pc'[w] = "status" \/ (pc'[w] = step /\ mem'[w].found = m.found)
  <2>1. CASE fresh[w]
    <3> DEFINE new == Merged(job[w], m)
               x == [new EXCEPT !.found = m.found]
    <3>1. /\ new \in Resource /\ new.lock = mem[w].lock /\ new.name = mem[w].name
          /\ ~new.deleting
      BY <1>a, <1>c, <1>n, MergedFields
    <3>2. x.lock = new.lock /\ x.name = new.name /\ x.found = m.found
      BY <3>1 DEF Resource
    <3>3. Stored(job[w], new) /\ mem' = [mem EXCEPT ![w] = x] /\ Goto(w, step)
      BY <1>n, <2>1 DEF UpdateResource, Store
    <3> HIDE DEF new, x
    <3>4. mem'[w] = x /\ pc'[w] = step  BY <1>a, <3>3 DEF TypeOK, Goto
    <3>5. Kept  BY <1>e, <1>i, <3>1, <3>2, <3>4
    <3>6. Stays  BY <1>h, <3>1, <3>2, <3>3, <3>4, <3>5
    <3> QED  BY <3>1, <3>2, <3>4, <3>5, <3>6
  <2>2. CASE ~fresh[w]
    <3>1. Failed(w) /\ UNCHANGED <<cr, job>>  BY <1>n, <2>2 DEF UpdateResource
    <3> QED  BY <1>g, <1>j, <3>1
  <2> QED  BY <2>1, <2>2
<1>1. CASE Connect(w)
  <2>1. UNCHANGED <<cr, store, job, cache>>  BY <1>1 DEF Connect, copies
  <2>2. CASE Failed(w)  BY <1>g, <1>j, <1>k, <2>1, <2>2
  <2>3. CASE UNCHANGED mem /\ pc'[w] \in {NoopClient, "observe"}
    BY <1>e, <1>g, <1>i, <1>k, <2>1, <2>3 DEF NoopClient
  <2> QED  BY <1>1, <1>a, <2>2, <2>3 DEF Connect, Goto, TypeOK
<1>2. CASE Observe(w)
  <2>1. UNCHANGED <<cr, store, job, cache>>  BY <1>2 DEF Observe, copies
  <2>2. CASE Exists(mem[w].name) /\ mem[w].lock
    <3>1. /\ mem' = [mem EXCEPT ![w] = [mem[w] EXCEPT !.stName = mem[w].name,
                                           !.ready = "Available", !.found = TRUE]]
          /\ Goto(w, IF mem[w].deleting THEN "deleteObjects" ELSE "finalizer")
      BY <1>2, <1>a, <2>2 DEF Observe, TypeOK
    <3>2. /\ mem'[w].lock = mem[w].lock /\ mem'[w].name = mem[w].name /\ mem'[w].found
          /\ pc'[w] = "finalizer"
      BY <1>a, <1>c, <3>1 DEF Resource, Goto, TypeOK
    <3> QED  BY <1>e, <1>g, <1>i, <1>k, <2>1, <3>2
  <2>3. CASE Exists(mem[w].name) /\ ~mem[w].lock
    <3>1. Failed(w)  BY <1>2, <2>3 DEF Observe
    <3> QED  BY <1>g, <1>j, <1>k, <2>1, <3>1
  <2>4. CASE ~Exists(mem[w].name)
    <3>1. UNCHANGED mem /\ pc'[w] = "finalizer"
      BY <1>2, <1>a, <1>c, <2>4 DEF Observe, Goto, TypeOK
    <3> QED  BY <1>e, <1>g, <1>i, <1>l, <2>1, <2>4, <3>1 DEF store
  <2> QED  BY <2>2, <2>3, <2>4
<1>3. CASE AddFinalizer(w)
  <2>1. UNCHANGED <<store, job, cache>> /\ pc[w] = "finalizer"  BY <1>3 DEF AddFinalizer
  <2>2. CASE ~mem[w].fin
    <3> DEFINE m == [mem[w] EXCEPT !.fin = TRUE]
    <3>1. m \in Resource /\ m.lock = mem[w].lock /\ m.found = mem[w].found
      BY <1>c DEF Resource
    <3>2. UpdateResource(w, m, "finalizer")  BY <1>3, <2>2 DEF AddFinalizer
    <3> HIDE DEF m
    <3>3. /\ Stays /\ Kept /\ mem'[w].name = mem[w].name
          /\ pc'[w] = "status" \/ (pc'[w] = "finalizer" /\ mem'[w].found = mem[w].found)
      BY <1>n, <2>1, <3>1, <3>2 DEF Steps
    <3>4. CASE pc'[w] = "status" \/ mem'[w].found  BY <1>k, <2>1, <3>3, <3>4
    <3>5. CASE pc'[w] = "finalizer" /\ ~mem'[w].found
      <4>1. ~Exists(mem[w].name)  BY <1>e, <2>1, <3>3, <3>5 DEF FoundFree
      <4> QED  BY <1>l, <2>1, <3>3, <3>5, <4>1 DEF store
    <3> QED  BY <3>3, <3>4, <3>5
  <2>3. CASE mem[w].fin /\ ~mem[w].found
    <3>1. UNCHANGED <<cr, mem>> /\ pc'[w] = "pending"
      BY <1>3, <1>a, <2>3 DEF AddFinalizer, Goto, TypeOK
    <3>2. ~Exists(mem[w].name)  BY <1>e, <2>1, <2>3 DEF FoundFree
    <3> QED  BY <1>e, <1>g, <1>i, <1>l, <2>1, <3>1, <3>2 DEF store
  <2>4. CASE mem[w].fin /\ mem[w].found
    <3>1. UNCHANGED cr /\ pc'[w] = "status" /\ Conditions(w, mem[w].ready, "success")
      BY <1>3, <1>a, <2>4 DEF AddFinalizer, Goto, TypeOK
    <3>2. mem[w].ready \in {"none", "Creating", "Available", "Deleting"}
      BY <1>c DEF Resource
    <3>3. mem'[w] = [mem[w] EXCEPT !.ready = mem[w].ready, !.sync = "success"]
      BY <1>a, <1>c, <2>1, <3>1, <3>2, ConditionsTyping
    <3>4. mem'[w].lock = mem[w].lock /\ mem'[w].name = mem[w].name
      BY <1>c, <3>3, CopyConditions
    <3> QED  BY <1>e, <1>g, <1>i, <1>k, <2>1, <3>1, <3>4
  <2> QED  BY <2>2, <2>3, <2>4
<1>4. CASE SetPending(w)
  <2> DEFINE m == [mem[w] EXCEPT !.create = "pending"]
  <2>1. /\ UNCHANGED <<store, job, cache>> /\ pc[w] = "pending"
        /\ UpdateResource(w, m, "create")
    BY <1>4 DEF SetPending
  <2>2. m \in Resource /\ m.lock = mem[w].lock  BY <1>c DEF Resource
  <2> HIDE DEF m
  <2>3. Stays /\ Kept /\ mem'[w].name = mem[w].name /\ pc'[w] \in {"status", "create"}
    BY <1>n, <2>1, <2>2 DEF Steps
  <2>4. ~Exists(mem[w].name)  BY <1>e, <2>1 DEF FoundFree
  <2> QED  BY <1>l, <2>1, <2>3, <2>4 DEF store
\* The outcome of an attempt to create.
<1>o. ASSUME (CreateSucceeds(w) /\ maker'[mem[w].name] = job[w]) \/ CreateFails(w),
             UNCHANGED <<cr, job, cache>>
      PROVE  Locks'
  <2>1. /\ mem'[w].name = mem[w].name /\ pc'[w] = "critical"
        /\ mem'[w].lock = mem[w].lock \/ maker'[mem[w].name] = job[w]
    BY <1>o, <1>a, <1>c DEF CreateSucceeds, CreateFails, Goto, TypeOK, Resource
  <2>2. Kept
    <3>1. CASE mem'[w].lock = mem[w].lock  BY <1>e, <1>i, <2>1, <3>1
    <3>2. CASE maker'[mem[w].name] = job[w]  BY <2>1, <3>2
    <3> QED  BY <2>1, <3>1, <3>2
  <2> QED  BY <1>g, <1>k, <1>o, <2>1, <2>2
<1>5. CASE MakeBucket(w)
  <2>1. UNCHANGED <<cr, job, cache>> /\ pc[w] = "create"  BY <1>5 DEF MakeBucket, copies
  <2>2. ~Exists(mem[w].name)  BY <1>e, <2>1 DEF FoundFree
  <2>3. ASSUME Made(mem[w].name, job[w])  PROVE maker'[mem[w].name] = job[w]
    BY <1>a, <1>c, <2>3 DEF Made, TypeOK
  <2>4. CASE CreateSucceeds(w) /\ Made(mem[w].name, job[w])  BY <1>o, <2>1, <2>3, <2>4
  <2>5. CASE /\ pc'[w] = "recheck" /\ UNCHANGED mem
             /\ Made(mem[w].name, job[w]) \/ UNCHANGED store
    <3>1. maker'[mem[w].name] \in {None, job[w]}  BY <2>2, <2>3, <2>5 DEF Exists, store
    <3>2. Kept  BY <1>e, <1>i, <2>5
    <3>3. CopyInv(w)'
      BY <2>1, <2>5, <3>1, <3>2 DEF CopyInv, FoundFree, Holds
    <3> QED  BY <1>a, <1>f, <1>g, <2>1, <3>3 DEF Locks
  <2> QED  BY <1>5, <1>a, <2>2, <2>4, <2>5 DEF MakeBucket, Goto, TypeOK
<1>6. CASE RecheckBucket(w)
  <2>1. UNCHANGED <<cr, job, cache, maker>> /\ pc[w] = "recheck"
    BY <1>6 DEF RecheckBucket, copies, store
  <2>2. (Exists(mem[w].name) /\ CreateSucceeds(w)) \/ CreateFails(w)
    BY <1>6 DEF RecheckBucket
  <2>3. Exists(mem[w].name) => maker'[mem[w].name] = job[w]  BY <1>e, <2>1 DEF Exists
  <2> QED  BY <1>o, <2>1, <2>2, <2>3
<1>7. CASE CriticalAnnotations(w)
  <2> DEFINE m == [mem[w] EXCEPT !.fin = cr[job[w]].fin]
             new == Merged(job[w], m)
             x == [new EXCEPT !.ready = "Creating", !.sync = mem[w].sync]
  <2>1. /\ Stored(job[w], new) /\ mem' = [mem EXCEPT ![w] = x] /\ Goto(w, "status")
        /\ UNCHANGED <<store, job, cache>>
    BY <1>7 DEF CriticalAnnotations, Store
  <2>2. m \in Resource /\ m.lock = mem[w].lock  BY <1>c DEF Resource
  <2>3. /\ new \in Resource /\ new.lock = mem[w].lock /\ new.name = mem[w].name
        /\ ~new.deleting
    BY <1>a, <1>c, <2>2, MergedFields
  <2>4. x.lock = new.lock /\ x.name = new.name  BY <2>3, CopyConditions
  <2> HIDE DEF m, new, x
  <2>5. mem'[w] = x /\ pc'[w] = "status"  BY <1>a, <2>1 DEF TypeOK, Goto
  <2>6. Kept  BY <1>e, <1>i, <2>3, <2>4, <2>5
  <2>7. Stays  BY <1>h, <2>1, <2>3, <2>4, <2>5, <2>6
  <2> QED  BY <1>k, <2>1, <2>5, <2>6, <2>7
<1>8. CASE DeleteObjects(w) \/ RemoveBucket(w)
  <2>1. pc[w] \in {"deleteObjects", "removeBucket"}
    BY <1>8 DEF DeleteObjects, RemoveBucket
  <2> QED  BY <1>a, <1>c, <2>1 DEF StepInv, PlaceInv
<1>9. CASE RemoveFinalizer(w)
  <2>1. UNCHANGED <<store, cache>>  BY <1>9 DEF RemoveFinalizer
  <2>2. CASE fresh[w]
    <3> DEFINE new == [cr[job[w]] EXCEPT !.exists = FALSE, !.fin = FALSE]
    <3>1. /\ new \in Resource /\ new.lock = cr[job[w]].lock /\ new.name = cr[job[w]].name
          /\ new.deleting = cr[job[w]].deleting
      BY <1>c DEF Resource
    <3>2. Stored(job[w], new) /\ End(w)  BY <1>9, <2>2 DEF RemoveFinalizer
    <3> HIDE DEF new
    <3>3. Holds(job[w], cr[job[w]])  BY <1>c DEF Locks
    <3>4. Stays  BY <1>a, <1>c, <1>d, <1>h, <3>1, <3>2, <3>3
    <3> QED  BY <1>m, <2>1, <3>2, <3>4
  <2>3. CASE ~fresh[w]
    <3>1. Failed(w) /\ UNCHANGED <<cr, job>>  BY <1>9, <2>3 DEF RemoveFinalizer
    <3> QED  BY <1>g, <1>j, <1>k, <2>1, <3>1
  <2> QED  BY <2>2, <2>3
<1>10. CASE WriteStatus(w)
  <2> DEFINE new == IF fresh[w] THEN MergedStatus(job[w], mem[w]) ELSE cr[job[w]]
  <2>1. Stored(job[w], new) /\ End(w) /\ UNCHANGED <<store, cache>>
    BY <1>10 DEF WriteStatus
  <2>2. /\ new \in Resource /\ new.lock = cr[job[w]].lock /\ new.name = cr[job[w]].name
        /\ new.deleting = cr[job[w]].deleting
    BY <1>c, MergedFields
  <2> HIDE DEF new
  <2>3. Holds(job[w], cr[job[w]])  BY <1>c DEF Locks
  <2>4. Stays  BY <1>a, <1>c, <1>d, <1>h, <2>1, <2>2, <2>3
  <2> QED  BY <1>m, <2>1, <2>4
<1>11. CASE CallFails(w)
  <2>1. Failed(w) /\ UNCHANGED <<cr, job, cache>>  BY <1>11 DEF CallFails, copies
  <2> QED  BY <1>g, <1>j, <1>k, <2>1
<1>12. CASE Crash(w)
  <2>1. End(w) /\ UNCHANGED <<cr, cache>>  BY <1>12 DEF Crash, copies
  <2> QED  BY <1>g, <1>m, <2>1
<1> QED
  BY <1>1, <1>2, <1>3, <1>4, <1>5, <1>6, <1>7, <1>8, <1>9, <1>10, <1>11, <1>12 DEF Continue

\* A user who changes only the policy.
LEMMA LocksEdit ==
    ASSUME BInv, Locks, NEW r \in Resources, UserEdit(r), renames' = 0
    PROVE  Locks'
<1>1. PICK n \in Names, p \in Policies :
         /\ StoreByUser(r, [cr[r] EXCEPT !.name = n, !.policy = p])
         /\ n = cr[r].name \/ renames' = renames + 1
  BY DEF UserEdit
<1> DEFINE new == [cr[r] EXCEPT !.name = n, !.policy = p]
<1>2. TypeOK /\ cr[r] \in Resource /\ renames \in Nat
  BY BoundsAssumption DEF BInv, TypeOK
<1>3. /\ new \in Resource /\ new.lock = cr[r].lock /\ new.name = cr[r].name
      /\ new.deleting = cr[r].deleting
  <2>1. n = cr[r].name  BY <1>1, <1>2
  <2>2. /\ new \in Resource /\ new.lock = cr[r].lock /\ new.name = n
        /\ new.deleting = cr[r].deleting
    BY <1>2 DEF Resource
  <2> QED  BY <2>1, <2>2
<1>4. Store(r, None, new) /\ UNCHANGED <<store, pc, job, mem, cache>>
  BY <1>1 DEF StoreByUser
<1> HIDE DEF new
<1>5. cr'[r] = new /\ \A s \in Resources \ {r} : cr'[s] = cr[s]
  BY <1>2, <1>3, <1>4, StoredTyping DEF Store
<1>6. \A s \in Resources : ~cr'[s].deleting /\ Holds(s, cr[s])'
  BY <1>3, <1>4, <1>5 DEF Locks, Holds, store
<1>7. \A w \in Workers : CopyInv(w)'
  BY <1>4 DEF Locks, CopyInv, FoundFree, Holds, Exists, store
<1> QED  BY <1>4, <1>6, <1>7 DEF Locks, Holds, store

\* Everybody else, but for users who delete or edit.
LEMMA LocksRest ==
    ASSUME BInv, BInv', Locks, [Next]_vars,
           \/ \E w \in Workers, r \in Resources : StartReconcile(w, r) \/ CacheSync(w, r)
           \/ \E n \in Names : Upload(n)
           \/ UserCredentials
           \/ UNCHANGED vars
    PROVE  Locks'
<1>a. TypeOK /\ TypeOK'  BY DEF BInv
<1>b. \A r \in Resources, x \in Resource : Holds(r, x) => (x.lock => maker'[x.name] = r)
  BY LocksStay
<1>1. ASSUME NEW w \in Workers, NEW r \in Resources, StartReconcile(w, r)  PROVE Locks'
  <2>1. UNCHANGED <<cr, maker, cache>>  BY <1>1 DEF StartReconcile, store, copies
  <2>2. cache[w][r] \in Resource /\ Holds(r, cache[w][r])  BY <1>a DEF Locks, TypeOK
  <2> DEFINE x == [cache[w][r] EXCEPT !.ready = "Creating", !.sync = "error"]
  <2>a. x.lock = cache[w][r].lock /\ x.name = cache[w][r].name
    BY <2>2, CopyConditions
  <2>b. /\ job' = [job EXCEPT ![w] = r]
        /\ Goto(w, "status") \/ Goto(w, "connect")
        /\ mem' = [mem EXCEPT ![w] = cache[w][r]] \/ mem' = [mem EXCEPT ![w] = x]
    BY <1>1 DEF StartReconcile
  <2> HIDE DEF x
  <2>3. /\ job' = [job EXCEPT ![w] = r] /\ pc'[w] \in {"status", "connect"}
        /\ \A v \in Workers \ {w} : pc'[v] = pc[v] /\ mem'[v] = mem[v]
        /\ mem'[w] \in {cache[w][r], x}
    BY <1>a, <2>b DEF Goto, TypeOK
  <2>4. mem'[w].lock = cache[w][r].lock /\ mem'[w].name = cache[w][r].name
    BY <2>a, <2>3
  <2>5. job'[w] = r /\ \A v \in Workers \ {w} : job'[v] = job[v]
    BY <1>a, <2>3 DEF TypeOK
  <2>6. CopyInv(w)'
    BY <2>1, <2>2, <2>3, <2>4, <2>5 DEF CopyInv, FoundFree, Holds
  <2>7. \A v \in Workers \ {w} : CopyInv(v)'
    BY <2>1, <2>3, <2>5 DEF Locks, CopyInv, FoundFree, Holds, Exists
  <2> QED  BY <2>1, <2>6, <2>7 DEF Locks, Holds
<1>2. ASSUME NEW w \in Workers, NEW r \in Resources, CacheSync(w, r)  PROVE Locks'
  <2>1. /\ UNCHANGED <<cr, maker, pc, job, mem>>
        /\ cache' = [cache EXCEPT ![w][r] = cr[r]]
    BY <1>2 DEF CacheSync, store
  <2>2. \A v \in Workers, s \in Resources : cache'[v][s] \in {cache[v][s], cr[s]}
    BY <1>a, <2>1 DEF TypeOK
  <2>3. \A v \in Workers, s \in Resources : Holds(s, cache[v][s])'
    BY <2>1, <2>2 DEF Locks, Holds
  <2> QED  BY <2>1, <2>3 DEF Locks, CopyInv, FoundFree, Holds, Exists
<1>3. CASE \/ \E n \in Names : Upload(n)
           \/ UserCredentials
           \/ UNCHANGED vars
  <2>1. UNCHANGED <<cr, maker, pc, job, mem, cache>>
    BY <1>3 DEF Upload, UserCredentials, vars, store, copies
  <2> QED  BY <2>1 DEF Locks, CopyInv, FoundFree, Holds, Exists
<1> QED  BY <1>1, <1>2, <1>3

\* Deletions and renames are counted.
LEMMA Counted ==
    ASSUME TypeOK, [Next]_vars, deletes' = 0, renames' = 0
    PROVE  /\ deletes = 0 /\ renames = 0
           /\ \A r \in Resources : ~UserDelete(r)
<1>1. deletes \in Nat /\ renames \in Nat
  BY BoundsAssumption DEF TypeOK
<1>2. ASSUME NEW r \in Resources, UserDelete(r)  PROVE FALSE
  <2>1. deletes' = deletes + 1  BY <1>2 DEF UserDelete
  <2> QED  BY <1>1, <2>1
<1>3. ASSUME NEW r \in Resources, UserEdit(r)  PROVE UNCHANGED <<deletes, renames>>
  <2>1. deletes' = deletes /\ (renames' = renames \/ renames' = renames + 1)
    BY <1>3 DEF UserEdit
  <2> QED  BY <1>1, <2>1
<1>4. ASSUME NEW w \in Workers, Continue(w) \/ CallFails(w) \/ Crash(w)
      PROVE  UNCHANGED users
  BY <1>4 DEF Continue, Connect, Observe, AddFinalizer, SetPending, MakeBucket, RecheckBucket,
     CriticalAnnotations, DeleteObjects, RemoveBucket, RemoveFinalizer, WriteStatus,
     CallFails, Crash, budgets
<1>5. ASSUME NEW w \in Workers, NEW r \in Resources, StartReconcile(w, r) \/ CacheSync(w, r)
      PROVE  UNCHANGED users
  BY <1>5 DEF StartReconcile, CacheSync, budgets
<1>6. UNCHANGED <<deletes, renames>>
  BY <1>2, <1>3, <1>4, <1>5 DEF Next, Upload, UserCredentials, users, vars, budgets
<1> QED  BY <1>2, <1>6

\* With one process no lock is taken but by the resource that made the bucket.
LEMMA ManagerNext == BInv /\ BInv' /\ ManagerInv /\ [Next]_vars => ManagerInv'
<1> SUFFICES ASSUME BInv, BInv', ManagerInv, [Next]_vars, OneProcess, deletes' = 0,
                    renames' = 0
             PROVE  Locks'
  BY DEF ManagerInv, OneProcess
<1>1. deletes = 0 /\ renames = 0 /\ \A r \in Resources : ~UserDelete(r)
  BY Counted DEF BInv
<1>2. Locks  BY <1>1 DEF ManagerInv
<1>3. ASSUME NEW w \in Workers, Continue(w) \/ CallFails(w) \/ Crash(w)  PROVE Locks'
  BY <1>1, <1>2, <1>3, LocksContinue
<1> QED  BY <1>1, <1>2, <1>3, LocksEdit, LocksRest DEF Next

\* With one process, however many calls fail or are lost, every lock was taken by the
\* resource that made the bucket, until a user deletes a resource or renames a bucket.
THEOREM LocksTruthful == Spec => []ManagerInv
<1>1. Init => ManagerInv
  <2> SUFFICES ASSUME Init  PROVE Locks
    BY DEF ManagerInv
  <2>1. /\ \A r \in Resources : ~cr[r].deleting /\ ~cr[r].lock
        /\ cache = [w \in Workers |-> cr] /\ pc = [w \in Workers |-> "idle"]
    BY DEF Init, NewResource
  <2> QED  BY <2>1 DEF Locks, Holds, CopyInv
<1> QED  BY <1>1, ManagerNext, BucketInvariance, PTL DEF Spec

\* With one process two resources never manage one bucket, until a user deletes a
\* resource or renames a bucket.
THEOREM ManagersExclude == ASSUME OneProcess
                           PROVE  Spec => [](deletes = 0 /\ renames = 0 => OneManager)
<1>1. ManagerInv => (deletes = 0 /\ renames = 0 => OneManager)
  BY NamesAssumption DEF ManagerInv, Locks, Holds, OneManager, Manages
<1> QED  BY <1>1, LocksTruthful, PTL
=============================================================================
