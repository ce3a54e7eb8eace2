---------------------------- MODULE DBaaSProofs -----------------------------
(***************************************************************************)
(* What is proved of module DBaaS, for any number of operator processes,   *)
(* any set of kinds, specs, names and versions, and any number of faults,  *)
(* edits and upgrades: the invariants a run checks follow from DInv, which *)
(* every step preserves.                                                   *)
(***************************************************************************)
EXTENDS DBaaSInv, TLAPS

(* What the kinds have in common.                                          *)

\* Observe and Delete of every kind use the external name.
LEMMA FoundIsPlace ==
    ASSUME kind \in AllKinds, NEW m
    PROVE  Found(m) = Place(m)
BY Zenon DEF AllKinds, Found, Place, PG!ServiceName, MY!ServiceName, KA!ServiceName,
   OS!ServiceName, RE!ServiceName

\* Create and Update do, but for those of PostgreSQL.
LEMMA CallPlaces ==
    ASSUME kind \in AllKinds, ext \in ExternalNames, NEW m, m.spec \in Specs
    PROVE  /\ Place(m) \in Places /\ CreatePlace(m) \in Places /\ UpdatePlace(m) \in Places
           /\ SameNames => CreatePlace(m) = Place(m) /\ UpdatePlace(m) = Place(m)
<1>1. Place(m) \in Places /\ <<m.spec.zone, "name">> \in Places
  BY DEF Place, Places, Zones
<1>2. CASE kind = "PostgreSQL"
  <2>1. CreatePlace(m) = <<m.spec.zone, "name">> /\ UpdatePlace(m) = <<m.spec.zone, "name">>
    BY <1>2 DEF CreatePlace, UpdatePlace, PG!CreateName, PG!UpdateName
  <2> QED  BY <1>1, <1>2, <2>1 DEF SameNames, Place
<1>3. CASE kind # "PostgreSQL"
  BY <1>1, <1>3, FoundIsPlace DEF CreatePlace, UpdatePlace
<1> QED  BY <1>2, <1>3

\* The modules of the kinds compare addresses as sets.
LEMMA SameSets ==
    /\ \A a, b : /\ PG!IsSameStringSet(a, b) <=> IsSameStringSet(a, b)
                 /\ MY!IsSameStringSet(a, b) <=> IsSameStringSet(a, b)
                 /\ OS!IsSameStringSet(a, b) <=> IsSameStringSet(a, b)
                 /\ RE!IsSameStringSet(a, b) <=> IsSameStringSet(a, b)
    /\ \A a, b : IsSameStringSet(a, b) <=> IsSameStringSet(b, a)
    /\ \A a : IsSameStringSet(a, a)
BY DEF IsSameStringSet, elements, PG!IsSameStringSet, PG!elements, MY!IsSameStringSet,
   MY!elements, OS!IsSameStringSet, OS!elements, RE!IsSameStringSet, RE!elements

\* What Observe compares: what it reports up to date is the same in every parameter
\* but those named here, and what is the same in all of them is not reported stale.
LEMMA Comparison ==
    ASSUME kind \in AllKinds, NEW x, NEW t \in Service
    PROVE  /\ "current" \in Outcome(x, t) =>
                /\ IsSameStringSet(t.ips, x.ips) /\ x.setting = t.setting
                /\ kind # "OpenSearch" => t.tp = x.tp
                /\ kind \in {"PostgreSQL", "MySQL"} =>
                      /\ x.backup = ToBackupSpec(t.backup)
                      /\ CompareMajorVersion(x.version, t.version)
           /\ "stale" \in Outcome(x, t) =>
                ~(/\ x.ips = t.ips /\ x.setting = t.setting /\ x.tp = t.tp
                  /\ kind \in {"PostgreSQL", "MySQL"} =>
                        /\ x.backup = ToBackupSpec(t.backup)
                        /\ CompareMajorVersion(x.version, t.version))
<1>1. CASE kind = "PostgreSQL"
  <2>1. Outcome(x, t) = PG!Observe(x, t)  BY <1>1, Zenon DEF Outcome
  <2>2. /\ PG!mapParameters(t).ips = t.ips /\ PG!mapParameters(t).setting = t.setting
        /\ PG!mapParameters(t).tp = t.tp /\ PG!mapParameters(t).version = t.version
        /\ PG!mapParameters(t).backup = ToBackupSpec(t.backup)
    BY DEF Service, PG!mapParameters, PG!toBackupSpec, PG!ToBackupSpec, PG!TimeOfDay,
           ToBackupSpec, TimeOfDay
  <2>3. PG!Observe(x, t) = {IF PG!isUpToDate(x, PG!mapParameters(t)) THEN "current" ELSE "stale"}
    BY DEF PG!Observe, PG!connectionDetails
  <2>4. PG!isUpToDate(x, PG!mapParameters(t)) <=>
           /\ IsSameStringSet(x.ips, t.ips) /\ x.setting = t.setting /\ x.tp = t.tp
           /\ x.backup = ToBackupSpec(t.backup) /\ CompareMajorVersion(x.version, t.version)
    BY <2>2, SameSets DEF PG!isUpToDate, PG!CompareMajorVersion, CompareMajorVersion
  <2> QED  BY <1>1, <2>1, <2>3, <2>4, SameSets
<1>2. CASE kind = "MySQL"
  <2>1. Outcome(x, t) = MY!Observe(x, t)  BY <1>2, Zenon DEF Outcome
  <2>2. /\ MY!mapParameters(t).ips = t.ips /\ MY!mapParameters(t).setting = t.setting
        /\ MY!mapParameters(t).tp = t.tp /\ MY!mapParameters(t).version = t.version
        /\ MY!mapParameters(t).backup = ToBackupSpec(t.backup)
    BY DEF Service, MY!mapParameters, MY!toBackupSpec, MY!ToBackupSpec, MY!TimeOfDay,
           ToBackupSpec, TimeOfDay
  <2>3. MY!Observe(x, t) = {IF MY!isUpToDate(x, MY!mapParameters(t)) THEN "current" ELSE "stale"}
    BY DEF MY!Observe, MY!connectionDetails
  <2>4. MY!isUpToDate(x, MY!mapParameters(t)) <=>
           /\ IsSameStringSet(x.ips, t.ips) /\ x.setting = t.setting /\ x.tp = t.tp
           /\ x.backup = ToBackupSpec(t.backup) /\ CompareMajorVersion(x.version, t.version)
    BY <2>2, SameSets DEF MY!isUpToDate, MY!CompareMajorVersion, CompareMajorVersion
  <2> QED  BY <1>2, <2>1, <2>3, <2>4, SameSets
<1>3. CASE kind = "Kafka"
  <2>1. Outcome(x, t) = KA!Observe(x, t)  BY <1>3, Zenon DEF Outcome
  <2>2. /\ "current" \in Outcome(x, t) => KA!diffParameters(t, x)
        /\ "stale" \in Outcome(x, t) => ~KA!diffParameters(t, x)
    BY <2>1 DEF KA!Observe, KA!getConnectionDetails
  <2> QED  BY <1>3, <2>2, SameSets DEF KA!diffParameters
<1>4. CASE kind = "OpenSearch"
  <2>1. Outcome(x, t) = OS!Observe(x, t)  BY <1>4, Zenon DEF Outcome
  <2>2. /\ "current" \in Outcome(x, t) => OS!isUpToDate(x, OS!mapParameters(t))
        /\ "stale" \in Outcome(x, t) => ~OS!isUpToDate(x, OS!mapParameters(t))
    BY <2>1 DEF OS!Observe, OS!connectionDetails
  <2> QED
    BY <1>4, <2>2, SameSets DEF OS!isUpToDate, OS!mapParameters
<1>5. CASE kind = "Redis"
  <2>1. Outcome(x, t) = RE!Observe(x, t)  BY <1>5, Zenon DEF Outcome
  <2>2. RE!Observe(x, t) = {IF RE!isUpToDate(x, RE!mapParameters(t)) THEN "current" ELSE "stale"}
    BY DEF RE!Observe, RE!connectionDetails
  <2> QED
    BY <1>5, <2>1, <2>2, SameSets DEF RE!isUpToDate, RE!mapParameters
<1> QED  BY <1>1, <1>2, <1>3, <1>4, <1>5 DEF AllKinds

\* The spec as Observe compares it.
LEMMA SpecTyping ==
    ASSUME NEW s \in Specs
    PROVE  /\ s.tp \in BOOLEAN /\ s.backup \in Times \cup {None}
           /\ s.version \in Numbers \cup {None}
           /\ setSettingsDefaults(s).setting = SetDefaults(s.setting)
           /\ setSettingsDefaults(s).ips = s.ips /\ setSettingsDefaults(s).tp = s.tp
           /\ setSettingsDefaults(s).backup = s.backup
           /\ setSettingsDefaults(s).version = s.version
BY SpecsAssumption DEF setSettingsDefaults

\* The schedule gives back a time that is written as mapper writes it; a time that
\* is given back has its schedule.
LEMMA RoundTrip ==
    ASSUME NEW t \in Times
    PROVE  /\ t # None /\ ToBackupSchedule(t) \in Schedules
           /\ Canonical(t) => t = ToBackupSpec(ToBackupSchedule(t))
           /\ \A u \in Schedules \cup {None} :
                 t = ToBackupSpec(u) => u = ToBackupSchedule(t)
<1>1. t # None /\ \A u \in Schedules : u # None  BY TimesAssumption
<1>2. ToBackupSchedule(t) \in Schedules  BY DEF Times, Schedules, ToBackupSchedule
<1>3. \A u \in Schedules : /\ ToBackupSpec(u).hour = u.hour
                           /\ ToBackupSpec(u).minute = u.minute
                           /\ ToBackupSpec(u) = TimeOfDay(u.hour, u.minute, 0, 2)
  BY <1>1 DEF ToBackupSpec, TimeOfDay
<1>4. ASSUME Canonical(t)  PROVE t = ToBackupSpec(ToBackupSchedule(t))
  BY <1>1, <1>2, <1>3, <1>4 DEF Canonical, Times, ToBackupSchedule, TimeOfDay
<1>5. ASSUME NEW u \in Schedules \cup {None}, t = ToBackupSpec(u)
      PROVE  u = ToBackupSchedule(t)
  <2>1. u \in Schedules  BY <1>1, <1>5 DEF ToBackupSpec
  <2> QED  BY <1>3, <1>5, <2>1 DEF Schedules, ToBackupSchedule
<1> QED  BY <1>1, <1>2, <1>4, <1>5

\* What a kind asks for is what a service can have; kinds with a version ask for
\* the one of the spec.
LEMMA BodyTyping ==
    ASSUME kind \in AllKinds, NEW s \in Specs, Body(s) # None
    PROVE  /\ Body(s).ips = s.ips /\ Body(s).setting = s.setting /\ Body(s).tp = s.tp
           /\ Body(s).backup = None \/ (s.backup # None /\
                                        Body(s).backup = ToBackupSchedule(s.backup))
           /\ kind \in {"PostgreSQL", "MySQL"} =>
                s.backup # None /\ Body(s).backup = ToBackupSchedule(s.backup)
           /\ FixedFromStart => Body(s).version = s.version
<1>1. CASE kind = "PostgreSQL"
  <2>1. Body(s) = PG!fromSpecToCreateBody(s)  BY <1>1, Zenon DEF Body
  <2> QED  BY <2>1 DEF PG!fromSpecToCreateBody, PG!Parsed, PG!ToBackupSchedule,
           ToBackupSchedule
<1>2. CASE kind = "MySQL"
  <2>1. Body(s) = MY!createBody(s)  BY <1>2, Zenon DEF Body
  <2> QED  BY <2>1 DEF MY!createBody, MY!Parsed, MY!ToBackupSchedule, ToBackupSchedule
<1>3. CASE kind = "Kafka"
  <2>1. Body(s) = KA!createBody(s)  BY <1>3, Zenon DEF Body
  <2> QED  BY <1>3, <2>1 DEF KA!createBody
<1>4. CASE kind = "OpenSearch"
  <2>1. Body(s) = OS!createBody(s)  BY <1>4, Zenon DEF Body
  <2> QED  BY <1>4, <2>1 DEF OS!createBody
<1>5. CASE kind = "Redis"
  <2>1. Body(s) = RE!createBody(s)  BY <1>5, Zenon DEF Body
  <2> QED  BY <1>5, <2>1 DEF RE!createBody, FixedFromStart
<1> QED  BY <1>1, <1>2, <1>3, <1>4, <1>5 DEF AllKinds

\* ... and what it changes.
LEMMA UpdateBodyTyping ==
    ASSUME kind \in AllKinds, NEW s \in Specs, UpdateBody(s) # None
    PROVE  /\ UpdateBody(s).ips = s.ips /\ UpdateBody(s).setting = s.setting
           /\ UpdateBody(s).tp = s.tp
           /\ UpdateBody(s).backup = None \/
                 (s.backup # None /\ UpdateBody(s).backup = ToBackupSchedule(s.backup))
           /\ kind \in {"PostgreSQL", "MySQL"} =>
                s.backup # None /\ UpdateBody(s).backup = ToBackupSchedule(s.backup)
<1>1. CASE kind = "PostgreSQL"
  <2>1. UpdateBody(s) = PG!fromSpecToUpdateBody(s)  BY <1>1, Zenon DEF UpdateBody
  <2> QED  BY <2>1 DEF PG!fromSpecToUpdateBody, PG!Parsed, PG!ToBackupSchedule,
           ToBackupSchedule
<1>2. CASE kind = "MySQL"
  <2>1. UpdateBody(s) = MY!updateBody(s)  BY <1>2, Zenon DEF UpdateBody
  <2> QED  BY <2>1 DEF MY!updateBody, MY!Parsed, MY!ToBackupSchedule, ToBackupSchedule
<1>3. CASE kind = "Kafka"
  <2>1. UpdateBody(s) = KA!updateBody(s)  BY <1>3, Zenon DEF UpdateBody
  <2> QED  BY <1>3, <2>1 DEF KA!updateBody
<1>4. CASE kind = "OpenSearch"
  <2>1. UpdateBody(s) = OS!updateBody(s)  BY <1>4, Zenon DEF UpdateBody
  <2> QED  BY <1>4, <2>1 DEF OS!updateBody
<1>5. CASE kind = "Redis"
  <2>1. UpdateBody(s) = RE!updateBody(s)  BY <1>5, Zenon DEF UpdateBody
  <2> QED  BY <1>5, <2>1 DEF RE!updateBody
<1> QED  BY <1>1, <1>2, <1>3, <1>4, <1>5 DEF AllKinds

\* The webhooks: a resource that was reconciled, and one of a kind that fixes them
\* from the start, keeps its zone; the version is raised, if at all, to one that is
\* not later than the one in the status.
LEMMA UpdatesAdmitted ==
    ASSUME kind \in AllKinds, NEW old, NEW s, ValidateUpdate(old, s)
    PROVE  /\ old.ready # "none" \/ FixedFromStart => s.zone = old.spec.zone
           /\ FixedFromStart =>
                \/ s.version = old.spec.version
                \/ /\ old.stVersion # None /\ s.version # None
                   /\ \/ AtMost(s.version, old.stVersion)
                      \/ old.spec.version # None /\ AtMost(s.version, old.spec.version)
<1>1. CASE kind = "PostgreSQL"
  <2>1. PG!ValidateUpdate(old, s)  BY <1>1, Zenon DEF ValidateUpdate
  <2> QED  BY <2>1 DEF PG!ValidateUpdate, PG!validateImmutable, PG!compareVersion,
           PG!ValidateUpdateVersion, PG!AtMost, AtMost
<1>2. CASE kind = "MySQL"
  <2>1. MY!ValidateUpdate(old, s)  BY <1>2, Zenon DEF ValidateUpdate
  <2> QED  BY <2>1 DEF MY!ValidateUpdate, MY!validateImmutable, MY!compareVersion,
           MY!ValidateUpdateVersion, MY!AtMost, AtMost
<1>3. CASE kind = "Kafka"
  <2>1. KA!ValidateUpdate(old, s)  BY <1>3, Zenon DEF ValidateUpdate
  <2> QED  BY <2>1 DEF KA!ValidateUpdate, KA!validateImmutable, KA!compareVersion,
           KA!ValidateUpdateVersion, KA!AtMost, AtMost
<1>4. CASE kind = "OpenSearch"
  <2>1. OS!ValidateUpdate(old, s)  BY <1>4, Zenon DEF ValidateUpdate
  <2> QED  BY <1>4, <2>1 DEF OS!ValidateUpdate, OS!compare, OS!isCreated, FixedFromStart
<1>5. CASE kind = "Redis"
  <2>1. RE!ValidateUpdate(old, s)  BY <1>5, Zenon DEF ValidateUpdate
  <2> QED  BY <1>5, <2>1 DEF RE!ValidateUpdate, RE!compare, RE!isCreated, FixedFromStart
<1> QED  BY <1>1, <1>2, <1>3, <1>4, <1>5 DEF AllKinds

\* Versions are ordered.
LEMMA AtMostOrder ==
    ASSUME NEW u \in Numbers, NEW v \in Numbers, NEW w \in Numbers
    PROVE  /\ AtMost(v, v)
           /\ AtMost(u, v) \/ AtMost(v, u)
           /\ AtMost(u, v) /\ AtMost(v, w) => AtMost(u, w)
BY DEF AtMost, Numbers

-----------------------------------------------------------------------------
(* Type correctness.                                                       *)

\* Workers and their copies.
Copies ==
    /\ pc \in [Workers -> Steps]
    /\ mem \in [Workers -> Resource \cup {None}]
    /\ \A w \in Workers : pc[w] # "idle" => mem[w] \in Resource

\* Assignments to a copy, or to the stored resource, make one.
LEMMA ResourceTyping ==
    ASSUME NEW m \in Resource
    PROVE  /\ m.spec \in Specs
           /\ \A r \in {"none", "Creating", "Rebuilding", "Running", "Deleting"} :
                 /\ [m EXCEPT !.ready = r] \in Resource
                 /\ \A v \in Versions : [m EXCEPT !.stVersion = v, !.ready = r] \in Resource
           /\ \A c \in {"none", "pending", "succeeded", "failed"} :
                 /\ [m EXCEPT !.create = c] \in Resource
                 /\ [m EXCEPT !.create = c, !.ready = "Creating"] \in Resource
           /\ [m EXCEPT !.fin = TRUE] \in Resource
           /\ [m EXCEPT !.deleting = TRUE] \in Resource
           /\ [m EXCEPT !.exists = FALSE] \in Resource
           /\ [m EXCEPT !.exists = FALSE, !.fin = FALSE] \in Resource
           /\ \A s \in Specs : [m EXCEPT !.spec = s] \in Resource
           /\ \A x \in Resource : [m EXCEPT !.stVersion = x.stVersion, !.ready = x.ready]
                                     \in Resource
BY DEF Resource

\* A worker goes on, with a copy or without.
LEMMA MoveTyping ==
    ASSUME TypeOK, NEW w \in Workers, NEW step \in Steps, Goto(w, step)
    PROVE  /\ pc' \in [Workers -> Steps] /\ pc'[w] = step
           /\ \A v \in Workers \ {w} : pc'[v] = pc[v]
           /\ \A m \in Resource : Copy(w, m) =>
                 /\ Copies' /\ mem'[w] = m
                 /\ \A v \in Workers \ {w} : mem'[v] = mem[v]
           /\ UNCHANGED mem /\ pc[w] # "idle" => Copies'
<1>1. /\ pc' \in [Workers -> Steps] /\ pc'[w] = step
      /\ \A v \in Workers \ {w} : pc'[v] = pc[v]
  BY DEF TypeOK, Goto
<1>2. ASSUME NEW m \in Resource, Copy(w, m)
      PROVE  /\ Copies' /\ mem'[w] = m
             /\ \A v \in Workers \ {w} : mem'[v] = mem[v]
  BY <1>1, <1>2 DEF TypeOK, Copy, Copies
<1>3. UNCHANGED mem /\ pc[w] # "idle" => Copies'
  BY <1>1 DEF TypeOK, Copies
<1> QED  BY <1>1, <1>2, <1>3

\* A reconcile ends.
LEMMA EndTyping ==
    ASSUME TypeOK, NEW w \in Workers, End(w)
    PROVE  /\ Copies' /\ pc'[w] = "idle"
           /\ obs' \in [Workers -> {"none", "absent", "stale", "current"}]
           /\ fresh' \in [Workers -> BOOLEAN]
           /\ \A v \in Workers \ {w} : /\ pc'[v] = pc[v] /\ mem'[v] = mem[v]
                                       /\ obs'[v] = obs[v]
                                       /\ fresh'[v] <=> fresh[v] /\ cr' = cr
BY DEF TypeOK, End, Goto, Copy, Copies, Steps

\* A version is stored.
LEMMA StoreTyping ==
    ASSUME TypeOK, NEW new \in Resource
    PROVE  /\ Stored(new) => cr' \in Resource /\ synced' \in [Workers -> BOOLEAN]
           /\ \A by : Store(by, new) => /\ cr' \in Resource
                                        /\ synced' \in [Workers -> BOOLEAN]
                                        /\ fresh' \in [Workers -> BOOLEAN]
BY DEF TypeOK, Stored, Store

\* An update, accepted or refused.
LEMMA UpdateTyping ==
    ASSUME TypeOK, NEW w \in Workers, pc[w] # "idle", NEW new \in Resource, NEW step \in Steps,
           UpdateResource(w, new, step)
    PROVE  /\ Copies' /\ cr' \in Resource /\ synced' \in [Workers -> BOOLEAN]
           /\ fresh' \in [Workers -> BOOLEAN]
<1>1. CASE Store({w}, new) /\ Copy(w, new) /\ Goto(w, step)
  BY <1>1, MoveTyping, StoreTyping
<1>2. CASE Goto(w, "status") /\ UNCHANGED <<cr, fresh, synced, mem>>
  <2>1. Copies'  BY <1>2, MoveTyping DEF Steps
  <2> QED  BY <1>2, <2>1 DEF TypeOK
<1> QED  BY <1>1, <1>2 DEF UpdateResource

\* Exoscale makes and changes services for a kind.
LEMMA ServiceTyping ==
    ASSUME TypeOK, NEW p \in Places, NEW s \in Specs
    PROVE  /\ Body(s) # None /\ Made(p, Body(s)) =>
                svc' \in [Places -> Service \cup {None}] /\ made' \subseteq Places
           /\ UpdateBody(s) # None /\ Changed(p, UpdateBody(s)) =>
                /\ svc[p] \in Service
                /\ \E t \in Service : /\ t.version = svc[p].version /\ t.up = svc[p].up
                                     /\ svc' = [svc EXCEPT ![p] = t]
<1>a. kind \in AllKinds  BY KindsAssumption DEF TypeOK
<1>b. /\ s.ips \in {t.ips : t \in Specs} /\ s.tp \in BOOLEAN
      /\ SetDefaults(s.setting) \in ({t.setting : t \in Specs} \cup {Default}) \ {None}
      /\ s.backup # None => ToBackupSchedule(s.backup) \in Schedules
  BY SpecTyping, RoundTrip, DefaultAssumption DEF SetDefaults
<1>1. ASSUME Body(s) # None, Made(p, Body(s))
      PROVE  svc' \in [Places -> Service \cup {None}] /\ made' \subseteq Places
  <2>1. PICK v \in Versions :
           svc' = [svc EXCEPT ![p] =
                     [ips |-> Body(s).ips, setting |-> SetDefaults(Body(s).setting),
                      tp |-> Body(s).tp, backup |-> Body(s).backup, version |-> v,
                      up |-> FALSE]]
    BY <1>1 DEF Made
  <2>2. [ips |-> Body(s).ips, setting |-> SetDefaults(Body(s).setting), tp |-> Body(s).tp,
         backup |-> Body(s).backup, version |-> v, up |-> FALSE] \in Service
    BY <1>a, <1>b, <1>1, BodyTyping DEF Service
  <2> QED  BY <1>1, <2>1, <2>2 DEF Made, TypeOK
<1>2. ASSUME UpdateBody(s) # None, Changed(p, UpdateBody(s))
      PROVE  /\ svc[p] \in Service
             /\ \E t \in Service : /\ t.version = svc[p].version /\ t.up = svc[p].up
                                  /\ svc' = [svc EXCEPT ![p] = t]
  <2>1. /\ svc[p] \in Service
        /\ svc' = [svc EXCEPT ![p] = [svc[p] EXCEPT !.ips = UpdateBody(s).ips,
                                         !.setting = SetDefaults(UpdateBody(s).setting),
                                         !.tp = UpdateBody(s).tp,
                                         !.backup = UpdateBody(s).backup]]
    BY <1>2 DEF Changed, TypeOK
  <2> DEFINE t == [svc[p] EXCEPT !.ips = UpdateBody(s).ips,
                                 !.setting = SetDefaults(UpdateBody(s).setting),
                                 !.tp = UpdateBody(s).tp, !.backup = UpdateBody(s).backup]
  <2>2. t \in Service
    BY <1>a, <1>b, <1>2, <2>1, UpdateBodyTyping DEF Service
  <2>3. t.version = svc[p].version /\ t.up = svc[p].up  BY <2>1 DEF Service
  <2>4. svc' = [svc EXCEPT ![p] = t]  BY <2>1
  <2> HIDE DEF t
  <2> QED  BY <2>1, <2>2, <2>3, <2>4
<1> QED  BY <1>1, <1>2

\* What a worker does within a reconcile.
LEMMA WorkerTyping ==
    ASSUME TypeOK, NEW w \in Workers, Reconcile(w) \/ CallFails(w) \/ Crash(w)
    PROVE  TypeOK'
<1> USE DEF cloud, budgets, copies
<1>a. kind \in AllKinds /\ ext \in ExternalNames /\ cr \in Resource
  BY KindsAssumption DEF TypeOK
<1>b. pc[w] # "idle" => mem[w] \in Resource /\ mem[w].spec \in Specs
  BY ResourceTyping DEF TypeOK
<1>f. Fault => faults' \in 0 .. MaxFaults
  BY BoundsAssumption DEF Fault, TypeOK
<1>1. CASE StartReconcile(w)
  <2>1. cache[w] \in Resource /\ [cache[w] EXCEPT !.ready = "Creating"] \in Resource
    <3>1. cache[w] \in Resource  BY DEF TypeOK
    <3> QED  BY <3>1, ResourceTyping
  <2>2. \/ Goto(w, "status") /\ Copy(w, [cache[w] EXCEPT !.ready = "Creating"])
        \/ Goto(w, "observe") /\ Copy(w, cache[w])
    BY <1>1 DEF StartReconcile
  <2>3. Copies'  BY <2>1, <2>2, MoveTyping DEF Steps
  <2> QED  BY <1>1, <2>3 DEF StartReconcile, TypeOK, Copies
<1>2. CASE ObserveAbsent(w)
  <2>1. Copies'
    <3>1. pc[w] # "idle" /\ UNCHANGED mem
          /\ (Goto(w, "removeFinalizer") \/ Goto(w, "finalizer"))
      BY <1>2 DEF ObserveAbsent
    <3> QED  BY <3>1, MoveTyping DEF Steps
  <2> QED  BY <1>2, <2>1 DEF ObserveAbsent, TypeOK, Copies
<1>3. CASE ObserveService(w)
  <2> DEFINE s == svc[Found(mem[w])]
             observed == [mem[w] EXCEPT !.stVersion = s.version,
                                        !.ready = setConditionFromState(s)]
  <2>1. /\ pc[w] = "observe" /\ s # None
        /\ faults' = faults \/ Fault
        /\ UNCHANGED <<kind, ext, cr, cloud, copies, edits, upgrades>>
        /\ \/ /\ Goto(w, "status") /\ Copy(w, observed) /\ UNCHANGED <<fresh, obs>>
           \/ End(w)
           \/ \E o \in {"stale", "current"} :
                 /\ obs' = [obs EXCEPT ![w] = o]
                 /\ Goto(w, IF mem[w].deleting THEN "delete" ELSE "finalizer")
                 /\ Copy(w, observed)
                 /\ UNCHANGED fresh
    BY <1>3 DEF ObserveService
  <2>2. observed \in Resource
    <3>1. s \in Service
      <4>1. Found(mem[w]) \in Places  BY <1>a, <1>b, <2>1, FoundIsPlace, CallPlaces
      <4> QED  BY <2>1, <4>1 DEF TypeOK
    <3>2. s.version \in Versions /\ setConditionFromState(s) \in {"Running", "Rebuilding"}
      BY <3>1 DEF Service, setConditionFromState
    <3> HIDE DEF s
    <3> QED  BY <1>b, <2>1, <3>2, ResourceTyping
  <2> HIDE DEF observed, s
  <2>3. faults' \in 0 .. MaxFaults  BY <1>f, <2>1 DEF TypeOK
  <2>4. CASE End(w)  BY <2>1, <2>3, <2>4, EndTyping DEF TypeOK, Copies
  <2>5. CASE Goto(w, "status") /\ Copy(w, observed) /\ UNCHANGED <<fresh, obs>>
    <3>1. Copies'  BY <2>2, <2>5, MoveTyping DEF Steps
    <3> QED  BY <2>1, <2>3, <2>5, <3>1 DEF TypeOK, Copies
  <2>6. ASSUME NEW o \in {"stale", "current"}, obs' = [obs EXCEPT ![w] = o],
               Goto(w, IF mem[w].deleting THEN "delete" ELSE "finalizer"),
               Copy(w, observed), UNCHANGED fresh
        PROVE  TypeOK'
    <3>1. Copies'  BY <2>2, <2>6, MoveTyping DEF Steps
    <3> QED  BY <2>1, <2>3, <2>6, <3>1 DEF TypeOK, Copies
  <2> QED  BY <2>1, <2>4, <2>5, <2>6
<1>4. CASE AddFinalizer(w)
  <2>1. UNCHANGED <<kind, ext, cloud, cache, obs, budgets>> /\ pc[w] # "idle"
    BY <1>4 DEF AddFinalizer
  <2>2. CASE UpdateResource(w, [cr EXCEPT !.fin = TRUE], "finalizer")
    <3>1. [cr EXCEPT !.fin = TRUE] \in Resource  BY <1>a, ResourceTyping
    <3> QED  BY <2>1, <2>2, <3>1, UpdateTyping DEF TypeOK, Copies, Steps
  <2>3. CASE ~UpdateResource(w, [cr EXCEPT !.fin = TRUE], "finalizer")
    <3>1. /\ UNCHANGED <<cr, mem, fresh, synced>>
          /\ Goto(w, "pending") \/ Goto(w, "update") \/ Goto(w, "status")
      BY <1>4, <2>3 DEF AddFinalizer
    <3>2. Copies'  BY <2>1, <3>1, MoveTyping DEF Steps
    <3> QED  BY <2>1, <3>1, <3>2 DEF TypeOK, Copies
  <2> QED  BY <2>2, <2>3
<1>5. CASE SetPending(w)
  <2>1. /\ UNCHANGED <<kind, ext, cloud, cache, obs, budgets>> /\ pc[w] # "idle"
        /\ UpdateResource(w, [cr EXCEPT !.create = "pending"], "create")
    BY <1>5 DEF SetPending
  <2>2. [cr EXCEPT !.create = "pending"] \in Resource  BY <1>a, ResourceTyping
  <2> QED  BY <2>1, <2>2, UpdateTyping DEF TypeOK, Copies, Steps
<1>6. CASE Create(w)
  <2>1. /\ pc[w] = "create" /\ Goto(w, "critical")
        /\ faults' = faults \/ Fault
        /\ UNCHANGED <<kind, ext, cr, fresh, copies, obs, edits, upgrades>>
        /\ \E o \in {"succeeded", "failed"} :
              Copy(w, [mem[w] EXCEPT !.create = o, !.ready = "Creating"])
        /\ \/ UNCHANGED cloud
           \/ Body(mem[w].spec) # None /\ Made(CreatePlace(mem[w]), Body(mem[w].spec))
    BY <1>6 DEF Create
  <2>2. PICK o \in {"succeeded", "failed"} :
           Copy(w, [mem[w] EXCEPT !.create = o, !.ready = "Creating"])
    BY <2>1
  <2>3. [mem[w] EXCEPT !.create = o, !.ready = "Creating"] \in Resource
    BY <1>b, <2>1, ResourceTyping
  <2>4. Copies'  BY <2>1, <2>2, <2>3, MoveTyping DEF Steps
  <2>5. svc' \in [Places -> Service \cup {None}] /\ made' \subseteq Places
    <3>1. CreatePlace(mem[w]) \in Places  BY <1>a, <1>b, <2>1, CallPlaces
    <3> QED  BY <1>b, <2>1, <3>1, ServiceTyping DEF TypeOK
  <2>6. faults' \in 0 .. MaxFaults  BY <1>f, <2>1 DEF TypeOK
  <2> QED  BY <2>1, <2>4, <2>5, <2>6 DEF TypeOK, Copies
<1>7. CASE CriticalAnnotations(w)
  <2> DEFINE new == [cr EXCEPT !.create = mem[w].create]
             x == [new EXCEPT !.ready = "Creating"]
  <2>1. /\ pc[w] = "critical" /\ Store({w}, new) /\ Copy(w, x) /\ Goto(w, "status")
        /\ UNCHANGED <<kind, ext, cloud, cache, obs, budgets>>
    BY <1>7 DEF CriticalAnnotations
  <2>2. new \in Resource
    <3>1. mem[w].create \in {"none", "pending", "succeeded", "failed"}
      BY <1>b, <2>1 DEF Resource
    <3> QED  BY <1>a, <3>1, ResourceTyping
  <2>3. x \in Resource  BY <2>2, ResourceTyping
  <2> HIDE DEF new, x
  <2>4. Copies'  BY <2>1, <2>3, MoveTyping DEF Steps
  <2> QED  BY <2>1, <2>2, <2>4, StoreTyping DEF TypeOK, Copies
<1>8. CASE Update(w)
  <2>1. /\ pc[w] = "update" /\ Goto(w, "status")
        /\ faults' = faults \/ Fault
        /\ UNCHANGED <<kind, ext, cr, made, mem, fresh, copies, obs, edits, upgrades>>
        /\ \/ UNCHANGED svc
           \/ /\ UpdateBody(mem[w].spec) # None
              /\ Changed(UpdatePlace(mem[w]), UpdateBody(mem[w].spec))
    BY <1>8 DEF Update
  <2>2. Copies'  BY <2>1, MoveTyping DEF Steps
  <2>3. svc' \in [Places -> Service \cup {None}]
    <3>1. UpdatePlace(mem[w]) \in Places  BY <1>a, <1>b, <2>1, CallPlaces
    <3> QED  BY <1>b, <2>1, <3>1, ServiceTyping DEF TypeOK
  <2>4. faults' \in 0 .. MaxFaults  BY <1>f, <2>1 DEF TypeOK
  <2> QED  BY <2>1, <2>2, <2>3, <2>4 DEF TypeOK, Copies
<1>9. CASE Delete(w)
  <2>1. /\ pc[w] = "delete" /\ Goto(w, "status")
        /\ Copy(w, [mem[w] EXCEPT !.ready = "Deleting"])
        /\ faults' = faults \/ Fault
        /\ UNCHANGED <<kind, ext, cr, made, fresh, copies, obs, edits, upgrades>>
        /\ UNCHANGED svc \/ svc' = [svc EXCEPT ![Found(mem[w])] = None]
    BY <1>9 DEF Delete
  <2>2. Copies'
    <3>1. [mem[w] EXCEPT !.ready = "Deleting"] \in Resource  BY <1>b, <2>1, ResourceTyping
    <3> QED  BY <2>1, <3>1, MoveTyping DEF Steps
  <2>3. svc' \in [Places -> Service \cup {None}]  BY <2>1 DEF TypeOK
  <2>4. faults' \in 0 .. MaxFaults  BY <1>f, <2>1 DEF TypeOK
  <2> QED  BY <2>1, <2>2, <2>3, <2>4 DEF TypeOK, Copies
<1>10. CASE RemoveFinalizer(w)
  <2>1. UNCHANGED <<kind, ext, cloud, cache, budgets>> /\ pc[w] # "idle"
    BY <1>10 DEF RemoveFinalizer
  <2>2. CASE fresh[w]
    <3> DEFINE new == [cr EXCEPT !.exists = FALSE, !.fin = FALSE]
    <3>1. new \in Resource  BY <1>a, ResourceTyping
    <3>2. Stored(new) /\ End(w)  BY <1>10, <2>2 DEF RemoveFinalizer
    <3> HIDE DEF new
    <3> QED  BY <2>1, <3>1, <3>2, StoreTyping, EndTyping DEF TypeOK, Copies
  <2>3. CASE ~fresh[w]
    <3>1. Goto(w, "status") /\ UNCHANGED <<cr, mem, obs, fresh, synced>>
      BY <1>10, <2>3 DEF RemoveFinalizer
    <3>2. Copies'  BY <2>1, <3>1, MoveTyping DEF Steps
    <3> QED  BY <2>1, <3>1, <3>2 DEF TypeOK, Copies
  <2> QED  BY <2>2, <2>3
<1>11. CASE WriteStatus(w)
  <2> DEFINE new == IF fresh[w]
                    THEN [cr EXCEPT !.stVersion = mem[w].stVersion, !.ready = mem[w].ready]
                    ELSE cr
  <2>1. /\ pc[w] = "status" /\ Stored(new) /\ End(w)
        /\ UNCHANGED <<kind, ext, cloud, cache, budgets>>
    BY <1>11 DEF WriteStatus
  <2>2. new \in Resource  BY <1>a, <1>b, <2>1, ResourceTyping
  <2> HIDE DEF new
  <2> QED  BY <2>1, <2>2, StoreTyping, EndTyping DEF TypeOK, Copies
<1>12. CASE CallFails(w)
  <2>1. /\ pc[w] # "idle" /\ Goto(w, "status") /\ Fault
        /\ UNCHANGED <<kind, ext, cr, cloud, mem, fresh, copies, obs, edits, upgrades>>
    BY <1>12 DEF CallFails
  <2>2. Copies'  BY <2>1, MoveTyping DEF Steps
  <2> QED  BY <1>f, <2>1, <2>2 DEF TypeOK, Copies
<1>13. CASE Crash(w)
  <2>1. End(w) /\ Fault /\ UNCHANGED <<kind, ext, cr, cloud, copies, edits, upgrades>>
    BY <1>13 DEF Crash
  <2> QED  BY <1>f, <2>1, EndTyping DEF TypeOK, Copies
<1> QED  BY <1>1, <1>2, <1>3, <1>4, <1>5, <1>6, <1>7, <1>8, <1>9, <1>10, <1>11, <1>12, <1>13
         DEF Reconcile

\* Type correctness is preserved by every step.
LEMMA NextTyping == TypeOK /\ [Next]_vars => TypeOK'
<1> SUFFICES ASSUME TypeOK, [Next]_vars  PROVE TypeOK'
  OBVIOUS
<1> USE DEF cloud, budgets, copies
<1>1. ASSUME NEW w \in Workers, Reconcile(w) \/ CallFails(w) \/ Crash(w)  PROVE TypeOK'
  BY <1>1, WorkerTyping
<1>2. ASSUME NEW w \in Workers, CacheSync(w)  PROVE TypeOK'
  BY <1>2 DEF CacheSync, TypeOK
<1>3. ASSUME NEW p \in Places, Provisioned(p)  PROVE TypeOK'
  <2>1. svc[p] \in Service /\ svc' = [svc EXCEPT ![p] = [svc[p] EXCEPT !.up = TRUE]]
    BY <1>3 DEF Provisioned, TypeOK
  <2>2. [svc[p] EXCEPT !.up = TRUE] \in Service  BY <2>1 DEF Service
  <2>3. svc' \in [Places -> Service \cup {None}]  BY <2>1, <2>2 DEF TypeOK
  <2> QED  BY <1>3, <2>3 DEF Provisioned, TypeOK
<1>4. ASSUME NEW p \in Places, Upgrade(p)  PROVE TypeOK'
  <2>1. PICK v \in Versions : svc' = [svc EXCEPT ![p] = [svc[p] EXCEPT !.version = v]]
    BY <1>4 DEF Upgrade
  <2>2. [svc[p] EXCEPT !.version = v] \in Service
    <3>1. svc[p] \in Service  BY <1>4 DEF Upgrade, TypeOK
    <3> QED  BY <3>1 DEF Service
  <2>3. svc' \in [Places -> Service \cup {None}]  BY <2>1, <2>2 DEF TypeOK
  <2>4. upgrades' \in 0 .. MaxUpgrades  BY <1>4, BoundsAssumption DEF Upgrade, TypeOK
  <2> QED  BY <1>4, <2>3, <2>4 DEF Upgrade, TypeOK
<1>5. CASE UserEdit
  <2>1. PICK s \in Specs : Store({}, [cr EXCEPT !.spec = s])
    BY <1>5 DEF UserEdit, SpecsOf
  <2>2. [cr EXCEPT !.spec = s] \in Resource  BY ResourceTyping DEF TypeOK
  <2>3. /\ cr' \in Resource /\ synced' \in [Workers -> BOOLEAN]
        /\ fresh' \in [Workers -> BOOLEAN]
    BY <2>1, <2>2, StoreTyping
  <2>4. edits' \in 0 .. MaxEdits  BY <1>5, BoundsAssumption DEF UserEdit, TypeOK
  <2> QED  BY <1>5, <2>3, <2>4 DEF UserEdit, TypeOK
<1>6. CASE UserDelete
  <2> DEFINE new == IF cr.fin THEN [cr EXCEPT !.deleting = TRUE]
                              ELSE [cr EXCEPT !.exists = FALSE]
  <2>1. new \in Resource  BY ResourceTyping DEF TypeOK
  <2>2. Store({}, new)  BY <1>6 DEF UserDelete
  <2> HIDE DEF new
  <2>3. /\ cr' \in Resource /\ synced' \in [Workers -> BOOLEAN]
        /\ fresh' \in [Workers -> BOOLEAN]
    BY <2>1, <2>2, StoreTyping
  <2> QED  BY <1>6, <2>3 DEF UserDelete, TypeOK
<1>7. CASE UNCHANGED vars  BY <1>7 DEF vars, TypeOK
<1> QED  BY <1>1, <1>2, <1>3, <1>4, <1>5, <1>6, <1>7 DEF Next

-----------------------------------------------------------------------------
(* What a step may do to the world of the workers that do not take it.     *)

\* The service at p is still there, and serves at least what it did.
Keeps(p) ==
    /\ svc'[p] # None
    /\ AtMost(svc[p].version, svc'[p].version)
    /\ svc[p].up => svc'[p].up

\* Deletions and finalizers are not taken back, services go only after a deletion
\* has begun, and come only while they are created.
Frame ==
    /\ UNCHANGED <<kind, ext>>
    /\ cr.deleting => cr'.deleting
    /\ Ending => Ending'
    /\ cr'.exists => cr.exists /\ (cr.fin => cr'.fin)
    /\ FixedFromStart => cr'.spec.zone = cr.spec.zone
    /\ \A p \in Places : svc[p] # None => (Ending' /\ svc'[p] = None) \/ Keeps(p)
    /\ \A p \in Places : svc[p] = None /\ svc'[p] # None => cr.create = "pending"

\* The service a version looks for is one of the account.
LEMMA AtTyping ==
    ASSUME TypeOK, NEW x \in Resource
    PROVE  /\ Place(x) \in Places
           /\ At(x) # None => At(x) \in Service /\ At(x).version \in Numbers
<1>1. Place(x) \in Places  BY DEF TypeOK, Place, Places, Zones, Resource
<1>2. At(x) # None => At(x) \in Service  BY <1>1 DEF At, TypeOK
<1> QED  BY <1>1, <1>2, VersionsAssumption DEF Service

\* A version stays one.
LEMMA VersionStays ==
    ASSUME TypeOK, TypeOK', Frame, NEW x \in Resource
    PROVE  VersionInv(x) => VersionInv(x)'
<1> SUFFICES ASSUME VersionInv(x)  PROVE VersionInv(x)'
  OBVIOUS
<1> DEFINE p == <<x.spec.zone, ext>>
<1>1. p \in Places /\ Place(x) = p /\ Place(x)' = p
  BY AtTyping DEF Place, Frame
<1>2. At(x) = svc[p] /\ At(x)' = svc'[p]  BY <1>1 DEF At
<1>3. x.stVersion # None => x.stVersion \in Numbers
  BY VersionsAssumption DEF Resource
<1>4. /\ svc[p] # None => svc[p].version \in Numbers
      /\ svc'[p] # None => svc'[p].version \in Numbers
  BY <1>1, VersionsAssumption DEF TypeOK, Service
<1>5. /\ svc[p] # None => (Ending' /\ svc'[p] = None) \/ Keeps(p)
      /\ svc[p] = None /\ svc'[p] # None => ~Ending
  BY <1>1 DEF Frame, Ending
<1> HIDE DEF p
<1>6. x.stVersion # None => /\ Ending' \/ svc'[p] # None
                            /\ svc'[p] # None => AtMost(x.stVersion, svc'[p].version)
  BY <1>2, <1>3, <1>4, <1>5, AtMostOrder DEF VersionInv, Frame, Keeps
<1>7. x.ready = "Running" /\ ~cr'.deleting => svc'[p] # None /\ svc'[p].up
  BY <1>2, <1>5 DEF VersionInv, Frame, Keeps, Ending
<1>8. FixedFromStart' <=> FixedFromStart  BY DEF FixedFromStart, Frame
<1> QED  BY <1>2, <1>6, <1>7, <1>8 DEF VersionInv, Frame

\* The workers outside W do not move.
OthersStay(W) ==
    \A v \in Workers \ W : pc'[v] = pc[v] /\ mem'[v] = mem[v] /\ obs'[v] = obs[v]

\* Services change the way the controllers and Exoscale change them while the stored
\* resource stays: they go after a deletion has begun, and are made by a worker that
\* has the resource for itself, with a version that is not behind the spec.
ServicesMove ==
    /\ \A p \in Places : svc[p] # None => (Ending /\ svc'[p] = None) \/ Keeps(p)
    /\ \A p \in Places : svc[p] = None /\ svc'[p] # None =>
          /\ cr.exists /\ cr.create = "pending"
          /\ p = Place(cr) /\ cr.spec.version # None /\ FixedFromStart =>
                AtMost(cr.spec.version, svc'[p].version)
    /\ made' = made \/ (cr.create = "pending" /\ cr.exists)
    /\ \A p \in Places : svc'[p] # None => p \in made'
    /\ Tracked => made' \subseteq {Place(cr)}

\* A worker that does not move, and whose copy stays current only if the stored
\* resource stays, keeps what it knows.
LEMMA OthersKeep ==
    ASSUME DInv, TypeOK', Frame, NEW W \in SUBSET Workers, OthersStay(W),
           NEW v \in Workers \ W, fresh'[v] => fresh[v] /\ cr' = cr
    PROVE  StepInv(v)' /\ FreshInv(v)'
<1>a. TypeOK /\ StepInv(v) /\ FreshInv(v)  BY DEF DInv
<1>b. pc'[v] = pc[v] /\ mem'[v] = mem[v] /\ obs'[v] = obs[v]  BY DEF OthersStay
<1>c. pc[v] # "idle" => mem[v] \in Resource  BY <1>a DEF TypeOK
<1>1. ASSUME pc[v] # "idle"  PROVE VersionInv(mem[v])'
  <2>1. \A x \in Resource : VersionInv(x) => VersionInv(x)'  BY <1>a, VersionStays
  <2>2. VersionInv(mem[v])  BY <1>a, <1>1 DEF StepInv
  <2> QED  BY <1>1, <1>b, <1>c, <2>1, <2>2 DEF VersionInv, At, Place
<1>2. StepInv(v)'  BY <1>a, <1>b, <1>1 DEF StepInv, PlaceInv
<1>3. FreshInv(v)'
  <2> SUFFICES ASSUME fresh'[v], pc[v] # "idle"  PROVE FreshInv(v)'
    BY <1>b DEF FreshInv
  <2>1. fresh[v] /\ cr' = cr  OBVIOUS
  <2>2. ASSUME pc[v] \in BeforePending, At(mem[v]) = None  PROVE At(mem[v])' = None
    <3>1. cr.create # "pending"
      BY <1>a, <2>1, <2>2 DEF FreshInv, StepInv, PlaceInv
    <3>2. Place(mem[v]) \in Places  BY <1>a, <1>c, AtTyping
    <3> QED  BY <1>b, <2>2, <3>1, <3>2 DEF At, Place, Frame
  <2> QED  BY <1>a, <1>b, <2>1, <2>2 DEF FreshInv, BeforePending
<1> QED  BY <1>2, <1>3

\* What is left to show of the step of the workers in W, or of nobody.
LEMMA StepPreserves ==
    ASSUME DInv, TypeOK', Frame, NEW W \in SUBSET Workers, OthersStay(W), UNCHANGED cache,
           \A v \in Workers \ W : fresh'[v] => fresh[v] /\ cr' = cr,
           \A v \in Workers : synced'[v] => synced[v] /\ cr' = cr,
           \A v \in Workers \ W : CreationInv(v)',
           \A w \in W, v \in Workers : InCreation(w)' /\ InCreation(v)' => v = w,
           StoredInv', StoreInv',
           \A w \in W : StepInv(w)' /\ FreshInv(w)' /\ CreationInv(w)'
    PROVE  DInv'
<1>a. TypeOK  BY DEF DInv
<1>1. \A w \in Workers : StepInv(w)' /\ FreshInv(w)' /\ CreationInv(w)'
  BY OthersKeep
<1>2. CacheInv'
  <2> SUFFICES ASSUME NEW w \in Workers
               PROVE  VersionInv(cache[w])' /\ (synced'[w] => cache'[w] = cr')
    BY DEF CacheInv
  <2>1. cache[w] \in Resource  BY <1>a DEF TypeOK
  <2>2. VersionInv(cache[w]) /\ (synced[w] => cache[w] = cr)
    BY DEF DInv, CacheInv
  <2>3. \A x \in Resource : VersionInv(x) => VersionInv(x)'  BY <1>a, VersionStays
  <2>4. VersionInv(cache[w])'  BY <2>1, <2>2, <2>3 DEF VersionInv, At, Place
  <2> QED  BY <2>2, <2>4
<1>3. OneCreator'
  <2> SUFFICES ASSUME NEW v \in Workers, NEW w \in Workers, InCreation(v)', InCreation(w)'
               PROVE  v = w
    BY DEF OneCreator
  <2>1. CASE v \in W \/ w \in W  BY <2>1
  <2>2. CASE v \notin W /\ w \notin W
    <3>1. InCreation(v) /\ InCreation(w)  BY <2>2 DEF OthersStay, InCreation
    <3> QED  BY <3>1 DEF DInv, OneCreator
  <2> QED  BY <2>1, <2>2
<1> QED  BY <1>1, <1>2, <1>3 DEF DInv

-----------------------------------------------------------------------------
(* Steps that store nothing.                                               *)

\* Nothing happens to the services.
LEMMA ServicesRest ==
    ASSUME DInv, UNCHANGED cloud
    PROVE  ServicesMove
<1>1. TypeOK /\ StoreInv /\ svc' = svc /\ made' = made  BY DEF DInv, cloud
<1>2. ASSUME NEW p \in Places, svc[p] # None  PROVE Keeps(p)
  <2>1. svc[p].version \in Numbers
    BY <1>1, <1>2, VersionsAssumption DEF TypeOK, Service
  <2> QED  BY <1>1, <1>2, <2>1, AtMostOrder DEF Keeps
<1> QED  BY <1>1, <1>2 DEF ServicesMove, StoreInv

\* The stored resource keeps what is true of it.
LEMMA StoredStays ==
    ASSUME DInv, TypeOK', UNCHANGED <<kind, ext, cr>>, ServicesMove
    PROVE  Frame /\ StoredInv' /\ StoreInv'
<1>a. TypeOK /\ StoredInv /\ StoreInv  BY DEF DInv
<1>1. Frame  BY DEF Frame, ServicesMove, Ending
<1>2. VersionInv(cr)'
  <2>1. \A x \in Resource : VersionInv(x) => VersionInv(x)'  BY <1>a, <1>1, VersionStays
  <2>2. VersionInv(cr) /\ cr \in Resource  BY <1>a DEF StoredInv, TypeOK
  <2> QED  BY <2>1, <2>2 DEF VersionInv, At, Place
<1>3. cr.exists /\ ~cr.fin => cr.create # "pending" /\ made' = {}
  BY <1>a DEF StoredInv, ServicesMove
<1>4. NoServiceLeft'
  <2> SUFFICES ASSUME ~cr.exists, FixedFromStart, SameNames, NEW p \in made'
               PROVE  svc'[p] = None
    BY DEF NoServiceLeft, FixedFromStart, SameNames
  <2>1. made' = made /\ p \in Places  BY <1>a DEF ServicesMove, TypeOK
  <2>2. svc[p] = None  BY <1>a, <2>1 DEF StoredInv, NoServiceLeft
  <2> QED  BY <2>1, <2>2 DEF ServicesMove
<1>5. NotAhead'
  <2> DEFINE q == Place(cr)
  <2>1. q \in Places /\ At(cr) = svc[q] /\ At(cr)' = svc'[q]
    BY <1>a, AtTyping DEF At, Place, TypeOK
  <2>2. /\ svc[q] # None => svc[q].version \in Numbers
        /\ svc'[q] # None => svc'[q].version \in Numbers
    BY <2>1, VersionsAssumption DEF DInv, TypeOK, Service
  <2>3. cr.spec.version # None => cr.spec.version \in Numbers
    BY <1>a, SpecsAssumption DEF TypeOK, Resource
  <2>4. At(cr)' # None /\ cr.spec.version # None /\ FixedFromStart =>
           AtMost(cr.spec.version, At(cr)'.version)
    <3> HIDE DEF q
    <3> SUFFICES ASSUME svc'[q] # None, cr.spec.version # None, FixedFromStart
                 PROVE  AtMost(cr.spec.version, svc'[q].version)
      BY <2>1
    <3>1. CASE svc[q] = None  BY <2>1, <3>1 DEF ServicesMove, q
    <3>2. CASE svc[q] # None /\ Keeps(q)
      <4>1. AtMost(cr.spec.version, svc[q].version)
        BY <1>a, <2>1, <3>2 DEF StoredInv, NotAhead
      <4> QED  BY <2>2, <2>3, <3>2, <4>1, AtMostOrder DEF Keeps
    <3> QED  BY <2>1, <3>1, <3>2 DEF ServicesMove
  <2> QED  BY <2>4 DEF NotAhead, FixedFromStart
<1>6. StoreInv'
  BY DEF ServicesMove, StoreInv, Tracked, FixedFromStart, SameNames, Place
<1> QED  BY <1>1, <1>2, <1>3, <1>4, <1>5, <1>6 DEF StoredInv

\* A worker moves, and stores nothing.
LEMMA QuietStep ==
    ASSUME DInv, TypeOK', NEW w \in Workers, OthersStay({w}),
           \A v \in Workers \ {w} : fresh'[v] => fresh[v],
           UNCHANGED <<kind, ext, cr, cache, synced>>, ServicesMove,
           pc'[w] # "idle" => VersionInv(mem'[w]), PlaceInv(w)', FreshInv(w)',
           InCreation(w)' => /\ InCreation(w)
                             /\ mem'[w].spec = mem[w].spec
                             /\ mem'[w].deleting = mem[w].deleting
    PROVE  DInv'
<1>a. TypeOK /\ CreationInv(w) /\ OneCreator  BY DEF DInv
<1>1. Frame /\ StoredInv' /\ StoreInv'  BY StoredStays
<1>2. StepInv(w)'
  <2>1. ASSUME pc'[w] # "idle"  PROVE VersionInv(mem[w])'
    <3>1. mem'[w] \in Resource  BY <2>1 DEF TypeOK
    <3>2. \A x \in Resource : VersionInv(x) => VersionInv(x)'  BY <1>a, <1>1, VersionStays
    <3> QED  BY <2>1, <3>1, <3>2 DEF VersionInv, At, Place
  <2> QED  BY <2>1 DEF StepInv
<1>3. CreationInv(w)'  BY <1>a DEF CreationInv, FixedFromStart
<1>4. \A v \in Workers \ {w} : CreationInv(v)'
  BY DEF DInv, CreationInv, InCreation, OthersStay, FixedFromStart
<1>5. ASSUME NEW v \in Workers, InCreation(w)', InCreation(v)'  PROVE v = w
  <2>1. CASE v # w
    <3>1. InCreation(v)  BY <1>5, <2>1 DEF OthersStay, InCreation
    <3> QED  BY <1>a, <1>5, <3>1 DEF OneCreator
  <2> QED  BY <2>1
<1>6. \A x \in {w} : StepInv(x)' /\ FreshInv(x)' /\ CreationInv(x)'
  BY <1>2, <1>3
<1>7. \A x \in {w}, v \in Workers : InCreation(x)' /\ InCreation(v)' => v = x
  BY <1>5
<1>8. {w} \in SUBSET Workers  OBVIOUS
<1> QED  BY <1>1, <1>4, <1>6, <1>7, <1>8, StepPreserves DEF ServicesMove

\* A worker goes on with its reconcile, and stores nothing.
LEMMA MoveStep ==
    ASSUME DInv, TypeOK', NEW w \in Workers, OthersStay({w}), ServicesMove,
           UNCHANGED <<kind, ext, cr, fresh, cache, synced>>,
           pc[w] # "idle", pc'[w] # "idle",
           mem'[w].spec = mem[w].spec, mem'[w].deleting = mem[w].deleting,
           VersionInv(mem'[w]), PlaceInv(w)', InCreation(w)' => InCreation(w),
           pc'[w] \in BeforePending => pc[w] \in BeforePending /\ mem'[w].create = mem[w].create,
           fresh[w] /\ pc'[w] \in {"finalizer", "pending"} /\ obs'[w] = "absent" =>
              At(mem[w])' = None,
           fresh[w] /\ pc'[w] = "removeFinalizer" => At(mem[w])' = None,
           fresh[w] /\ cr.create = "pending" => mem'[w].stVersion = None
    PROVE  DInv'
<1>a. FreshInv(w)  BY DEF DInv
<1>1. FreshInv(w)'  BY <1>a DEF FreshInv
<1> QED  BY <1>1, QuietStep

\* A call fails, or is refused: the reconcile goes to its end with the copy it has.
LEMMA FailedStep ==
    ASSUME DInv, TypeOK', NEW w \in Workers, pc[w] # "idle", Goto(w, "status"),
           UNCHANGED <<kind, ext, cr, cloud, mem, fresh, obs, cache, synced>>
    PROVE  DInv'
<1>a. TypeOK /\ StepInv(w) /\ FreshInv(w)  BY DEF DInv
<1>1. pc'[w] = "status" /\ OthersStay({w})
  BY <1>a, MoveTyping DEF OthersStay, Steps
<1>2. PlaceInv(w)' /\ ~InCreation(w)' /\ pc'[w] \notin BeforePending
  BY <1>1 DEF PlaceInv, InCreation, BeforePending
<1>3. VersionInv(mem'[w])  BY <1>a DEF StepInv
<1>4. fresh[w] /\ cr.create = "pending" => mem'[w].stVersion = None
  BY <1>a DEF FreshInv
<1> QED  BY <1>1, <1>2, <1>3, <1>4, ServicesRest, MoveStep

\* A reconcile starts with what the cache holds.
LEMMA StartStep ==
    ASSUME DInv, TypeOK', NEW w \in Workers, StartReconcile(w)
    PROVE  DInv'
<1>a. /\ TypeOK /\ VersionInv(cache[w]) /\ cache[w] \in Resource
      /\ synced[w] => cache[w] = cr
  BY DEF DInv, CacheInv, TypeOK
<1> DEFINE x == [cache[w] EXCEPT !.ready = "Creating"]
<1>1. /\ x \in Resource
      /\ x.ready = "Creating" /\ x.deleting = cache[w].deleting /\ x.spec = cache[w].spec
      /\ x.fin = cache[w].fin /\ x.create = cache[w].create
      /\ x.stVersion = cache[w].stVersion
  BY <1>a DEF Resource
<1>2. /\ cache[w].exists /\ pc[w] = "idle"
      /\ UNCHANGED <<kind, ext, cr, cloud, cache, synced, obs>>
      /\ fresh' = [fresh EXCEPT ![w] = synced[w]]
      /\ \/ cache[w].create = "pending" /\ Goto(w, "status") /\ Copy(w, x)
         \/ cache[w].create # "pending" /\ Goto(w, "observe") /\ Copy(w, cache[w])
  BY DEF StartReconcile, copies
<1> HIDE DEF x
<1>3. /\ OthersStay({w})
      /\ \/ cache[w].create = "pending" /\ pc'[w] = "status" /\ mem'[w] = x
         \/ cache[w].create # "pending" /\ pc'[w] = "observe" /\ mem'[w] = cache[w]
  BY <1>a, <1>1, <1>2, MoveTyping DEF OthersStay, Steps
<1>4. fresh'[w] = synced[w] /\ \A v \in Workers \ {w} : fresh'[v] = fresh[v]
  BY <1>a, <1>2 DEF TypeOK
<1>5. VersionInv(x)  BY <1>a, <1>1 DEF VersionInv, At, Place
<1>6. VersionInv(mem'[w])  BY <1>a, <1>3, <1>5
<1>7. PlaceInv(w)' /\ ~InCreation(w)'  BY <1>3 DEF PlaceInv, InCreation, BeforePending
<1>8. FreshInv(w)'
  <2> SUFFICES ASSUME fresh'[w]  PROVE FreshInv(w)'
    BY DEF FreshInv
  <2>1. cache[w] = cr /\ cr.exists /\ cr' = cr /\ VersionInv(cr)
    BY <1>a, <1>2, <1>4
  <2>2. mem'[w].spec = cr.spec /\ mem'[w].deleting = cr.deleting /\ mem'[w].create = cr.create
        /\ mem'[w].stVersion = cr.stVersion
    BY <1>1, <1>3, <2>1
  <2>3. pc'[w] \notin {"finalizer", "pending", "removeFinalizer"}  BY <1>3
  <2>4. cr.create = "pending" => cr.stVersion = None  BY <2>1 DEF VersionInv
  <2> QED  BY <2>1, <2>2, <2>3, <2>4 DEF FreshInv
<1> QED  BY <1>2, <1>3, <1>4, <1>6, <1>7, <1>8, ServicesRest, QuietStep

\* Observe finds no service.
LEMMA ObserveAbsentStep ==
    ASSUME DInv, TypeOK', NEW w \in Workers, ObserveAbsent(w)
    PROVE  DInv'
<1>a. TypeOK /\ StepInv(w) /\ FreshInv(w) /\ pc[w] = "observe"
  BY DEF DInv, ObserveAbsent
<1>b. /\ UNCHANGED <<kind, ext, cr, cloud, mem, fresh, cache, synced>>
      /\ obs' = [obs EXCEPT ![w] = "absent"]
      /\ Goto(w, IF mem[w].deleting THEN "removeFinalizer" ELSE "finalizer")
  BY DEF ObserveAbsent, copies
<1>c. At(mem[w]) = None
  BY <1>a, FoundIsPlace, KindsAssumption DEF ObserveAbsent, At, TypeOK
<1>d. mem[w].create # "pending" /\ VersionInv(mem[w])
  BY <1>a DEF StepInv, PlaceInv, BeforePending
<1>1. /\ OthersStay({w})
      /\ \/ mem[w].deleting /\ pc'[w] = "removeFinalizer"
         \/ ~mem[w].deleting /\ pc'[w] = "finalizer"
  BY <1>a, <1>b, MoveTyping DEF OthersStay, Steps, TypeOK
<1>2. PlaceInv(w)' /\ ~InCreation(w)'
  BY <1>b, <1>d, <1>1 DEF PlaceInv, InCreation, BeforePending
<1>3. At(mem[w])' = None  BY <1>b, <1>c DEF At, Place, cloud
<1>4. fresh[w] /\ cr.create = "pending" => mem'[w].stVersion = None
  BY <1>a, <1>b DEF FreshInv
<1> QED
  BY <1>a, <1>b, <1>d, <1>1, <1>2, <1>3, <1>4, ServicesRest, MoveStep DEF BeforePending

\* A reconcile ends without a last update.
LEMMA EndStep ==
    ASSUME DInv, TypeOK', NEW w \in Workers, End(w),
           UNCHANGED <<kind, ext, cr, cloud, cache, synced>>
    PROVE  DInv'
<1>a. TypeOK  BY DEF DInv
<1>1. /\ pc'[w] = "idle" /\ OthersStay({w})
      /\ \A v \in Workers \ {w} : fresh'[v] => fresh[v]
  BY <1>a, EndTyping DEF OthersStay
<1>2. PlaceInv(w)' /\ FreshInv(w)' /\ ~InCreation(w)'
  BY <1>1 DEF PlaceInv, FreshInv, BeforePending, InCreation
<1> QED  BY <1>1, <1>2, ServicesRest, QuietStep

\* Observe finds the service: the copy shows its version and its state.
LEMMA ObserveServiceStep ==
    ASSUME DInv, TypeOK', NEW w \in Workers, ObserveService(w)
    PROVE  DInv'
<1>a. TypeOK /\ StepInv(w) /\ FreshInv(w) /\ pc[w] = "observe" /\ mem[w] \in Resource
  BY DEF DInv, ObserveService, TypeOK
<1> DEFINE s == svc[Found(mem[w])]
           x == [mem[w] EXCEPT !.stVersion = s.version, !.ready = setConditionFromState(s)]
<1>1. /\ s # None
      /\ UNCHANGED <<kind, ext, cr, cloud, cache, synced>>
      /\ \/ /\ Goto(w, "status") /\ Copy(w, x) /\ UNCHANGED <<fresh, obs>>
         \/ End(w)
         \/ \E o \in {"stale", "current"} :
               /\ obs' = [obs EXCEPT ![w] = o]
               /\ Goto(w, IF mem[w].deleting THEN "delete" ELSE "finalizer")
               /\ Copy(w, x)
               /\ UNCHANGED fresh
  BY DEF ObserveService, copies
<1>b. s = At(mem[w])  BY FoundIsPlace, <1>a, KindsAssumption DEF At, TypeOK
<1> HIDE DEF s
<1>c. s \in Service /\ s.version \in Versions /\ s.version \in Numbers
  BY <1>a, <1>b, <1>1, AtTyping DEF Service
<1>d. mem[w].create # "pending" /\ VersionInv(mem[w])
  BY <1>a DEF StepInv, PlaceInv, BeforePending
<1>2. /\ x \in Resource
      /\ x.stVersion = s.version /\ x.ready = setConditionFromState(s)
      /\ x.deleting = mem[w].deleting /\ x.spec = mem[w].spec /\ x.fin = mem[w].fin
      /\ x.create = mem[w].create
  <2>1. setConditionFromState(s) \in {"Running", "Rebuilding"}
    BY DEF setConditionFromState
  <2> QED  BY <1>a, <1>c, <2>1 DEF Resource
<1> HIDE DEF x
<1>3. VersionInv(x)
  <2>1. At(x) = s  BY <1>b, <1>2 DEF At, Place
  <2>2. x.ready # "none" /\ (x.ready = "Running" => s.up)
    BY <1>2 DEF setConditionFromState
  <2>3. AtMost(s.version, s.version)  BY <1>c, AtMostOrder
  <2> QED  BY <1>1, <1>2, <1>d, <2>1, <2>2, <2>3 DEF VersionInv
<1>4. fresh[w] => cr.create # "pending"
  BY <1>a, <1>d DEF FreshInv, BeforePending
<1>5. CASE End(w)  BY <1>1, <1>5, EndStep
<1>6. CASE Goto(w, "status") /\ Copy(w, x) /\ UNCHANGED <<fresh, obs>>
  <2>1. pc'[w] = "status" /\ mem'[w] = x /\ OthersStay({w})
    BY <1>a, <1>2, <1>6, MoveTyping DEF OthersStay, Steps
  <2>2. PlaceInv(w)' /\ ~InCreation(w)' /\ pc'[w] \notin BeforePending
    BY <2>1 DEF PlaceInv, InCreation, BeforePending
  <2> QED  BY <1>a, <1>1, <1>2, <1>3, <1>4, <1>6, <2>1, <2>2, ServicesRest, MoveStep
<1>7. ASSUME NEW o \in {"stale", "current"}, obs' = [obs EXCEPT ![w] = o],
             Goto(w, IF mem[w].deleting THEN "delete" ELSE "finalizer"),
             Copy(w, x), UNCHANGED fresh
      PROVE  DInv'
  <2>1. /\ mem'[w] = x /\ OthersStay({w}) /\ obs'[w] # "absent"
        /\ \/ mem[w].deleting /\ pc'[w] = "delete"
           \/ ~mem[w].deleting /\ pc'[w] = "finalizer"
    BY <1>a, <1>2, <1>7, MoveTyping DEF OthersStay, Steps, TypeOK
  <2>2. PlaceInv(w)' /\ ~InCreation(w)'
    BY <1>2, <1>d, <2>1 DEF PlaceInv, InCreation
  <2> QED
    BY <1>a, <1>1, <1>2, <1>3, <1>4, <1>7, <2>1, <2>2, ServicesRest, MoveStep
       DEF BeforePending
<1> QED  BY <1>1, <1>5, <1>6, <1>7

\* A resource with its finalizer goes on to what Observe reported.
LEMMA AddFinalizerMoves ==
    ASSUME DInv, TypeOK', NEW w \in Workers, pc[w] = "finalizer", mem[w].fin,
           \/ obs[w] = "absent" /\ Goto(w, "pending")
           \/ Goto(w, "update")
           \/ Goto(w, "status"),
           UNCHANGED <<kind, ext, cr, cloud, mem, fresh, obs, cache, synced>>
    PROVE  DInv'
<1>a. /\ TypeOK /\ StepInv(w) /\ FreshInv(w)
      /\ VersionInv(mem[w]) /\ mem[w].create # "pending" /\ ~mem[w].deleting
  BY DEF DInv, StepInv, PlaceInv, BeforePending
<1>1. /\ OthersStay({w})
      /\ \/ obs[w] = "absent" /\ pc'[w] = "pending"
         \/ pc'[w] = "update"
         \/ pc'[w] = "status"
  BY <1>a, MoveTyping DEF OthersStay, Steps
<1>2. PlaceInv(w)' /\ ~InCreation(w)'
  BY <1>a, <1>1 DEF PlaceInv, InCreation
<1>3. At(mem[w])' = At(mem[w])  BY DEF At, Place, cloud
<1>4. fresh[w] /\ pc'[w] = "pending" => At(mem[w]) = None
  BY <1>a, <1>1 DEF FreshInv
<1>5. fresh[w] /\ cr.create = "pending" => mem'[w].stVersion = None
  BY <1>a DEF FreshInv
<1> QED
  BY <1>a, <1>1, <1>2, <1>3, <1>4, <1>5, ServicesRest, MoveStep DEF BeforePending

\* A service is made by the worker that has the resource for itself.
LEMMA CreateMoves ==
    ASSUME DInv, TypeOK', NEW w \in Workers, pc[w] = "create", UNCHANGED <<kind, ext, cr>>,
           Body(mem[w].spec) # None, Made(CreatePlace(mem[w]), Body(mem[w].spec))
    PROVE  ServicesMove
<1> DEFINE m == mem[w]
           q == CreatePlace(m)
           b == Body(m.spec)
<1>a. /\ TypeOK /\ StoreInv /\ m \in Resource /\ kind \in AllKinds /\ ext \in ExternalNames
      /\ VersionInv(m)
  BY KindsAssumption DEF DInv, TypeOK, StepInv
<1>b. /\ cr.exists /\ cr.create = "pending"
      /\ FixedFromStart => m.spec.version = cr.spec.version /\ m.spec.zone = cr.spec.zone
  BY <1>a DEF DInv, CreationInv, InCreation, VersionInv
<1>c. m.spec \in Specs  BY <1>a DEF Resource
<1>d. /\ q \in Places /\ (SameNames => q = Place(m))
      /\ FixedFromStart => b.version = m.spec.version
  BY <1>a, <1>c, CallPlaces, BodyTyping
<1>1. PICK v \in Versions :
         /\ b.version # None => AtMost(b.version, v)
         /\ svc' = [svc EXCEPT ![q] =
                      [ips |-> b.ips, setting |-> SetDefaults(b.setting), tp |-> b.tp,
                       backup |-> b.backup, version |-> v, up |-> FALSE]]
  BY DEF Made
<1>2. svc[q] = None /\ made' = made \cup {q}  BY DEF Made
<1> HIDE DEF m, q, b
<1>3. svc'[q].version = v /\ \A p \in Places \ {q} : svc'[p] = svc[p]
  BY <1>a, <1>d, <1>1 DEF TypeOK
<1>4. ASSUME NEW p \in Places, svc[p] # None  PROVE Keeps(p)
  <2>1. svc'[p] = svc[p]  BY <1>2, <1>3, <1>4
  <2>2. svc[p].version \in Numbers
    BY <1>a, <1>4, VersionsAssumption DEF TypeOK, Service
  <2> QED  BY <1>4, <2>1, <2>2, AtMostOrder DEF Keeps
<1>5. ASSUME NEW p \in Places, svc[p] = None, svc'[p] # None
      PROVE  /\ p = q
             /\ cr.spec.version # None /\ FixedFromStart =>
                   AtMost(cr.spec.version, svc'[p].version)
  BY <1>b, <1>d, <1>1, <1>3, <1>5
<1>6. \A p \in Places : svc'[p] # None => p \in made'
  BY <1>a, <1>2, <1>3 DEF StoreInv
<1>7. Tracked => made' \subseteq {Place(cr)}
  BY <1>a, <1>b, <1>d, <1>2 DEF StoreInv, Tracked, Place
<1> QED  BY <1>b, <1>4, <1>5, <1>6, <1>7 DEF ServicesMove

\* Create: the service is made, or the attempt fails, or both.
LEMMA CreateStep ==
    ASSUME DInv, TypeOK', NEW w \in Workers, Create(w)
    PROVE  DInv'
<1>a. /\ TypeOK /\ StepInv(w) /\ FreshInv(w) /\ CreationInv(w) /\ pc[w] = "create"
      /\ mem[w] \in Resource /\ VersionInv(mem[w])
  BY DEF DInv, Create, TypeOK, StepInv
<1>1. /\ Goto(w, "critical")
      /\ UNCHANGED <<kind, ext, cr, fresh, cache, synced, obs>>
      /\ \E o \in {"succeeded", "failed"} :
            Copy(w, [mem[w] EXCEPT !.create = o, !.ready = "Creating"])
      /\ \/ UNCHANGED cloud
         \/ Body(mem[w].spec) # None /\ Made(CreatePlace(mem[w]), Body(mem[w].spec))
  BY DEF Create, copies
<1>2. PICK o \in {"succeeded", "failed"} :
         Copy(w, [mem[w] EXCEPT !.create = o, !.ready = "Creating"])
  BY <1>1
<1> DEFINE x == [mem[w] EXCEPT !.create = o, !.ready = "Creating"]
<1>3. /\ x \in Resource
      /\ x.create = o /\ x.ready = "Creating" /\ x.stVersion = mem[w].stVersion
      /\ x.deleting = mem[w].deleting /\ x.spec = mem[w].spec /\ x.fin = mem[w].fin
  BY <1>a DEF Resource
<1>4. Copy(w, x)  BY <1>2
<1> HIDE DEF x
<1>5. pc'[w] = "critical" /\ mem'[w] = x /\ OthersStay({w})
  BY <1>a, <1>1, <1>3, <1>4, MoveTyping DEF OthersStay, Steps
<1>6. VersionInv(x)
  <2>1. At(x) = At(mem[w])  BY <1>3 DEF At, Place
  <2>2. ~mem[w].deleting  BY <1>a DEF CreationInv, InCreation
  <2> QED  BY <1>a, <1>3, <2>1, <2>2 DEF VersionInv
<1>7. PlaceInv(w)' /\ InCreation(w) /\ pc'[w] \notin BeforePending
  BY <1>a, <1>3, <1>5 DEF PlaceInv, InCreation, BeforePending
<1>8. ServicesMove  BY <1>a, <1>1, CreateMoves, ServicesRest
<1>9. fresh[w] /\ cr.create = "pending" => mem'[w].stVersion = None
  BY <1>a, <1>3, <1>5 DEF FreshInv
<1> QED  BY <1>a, <1>1, <1>3, <1>5, <1>6, <1>7, <1>8, <1>9, MoveStep


\* One service changes, and keeps what it serves.
LEMMA ChangeMoves ==
    ASSUME DInv, NEW p \in Places, NEW s \in Service, svc[p] # None,
           AtMost(svc[p].version, s.version), svc[p].up => s.up,
           svc' = [svc EXCEPT ![p] = s], UNCHANGED made
    PROVE  ServicesMove
<1>a. TypeOK /\ StoreInv  BY DEF DInv
<1>1. svc'[p] = s /\ s # None /\ \A q \in Places \ {p} : svc'[q] = svc[q]
  BY <1>a, ServiceAssumption DEF TypeOK
<1>2. ASSUME NEW q \in Places, svc[q] # None  PROVE Keeps(q)
  <2>1. svc[q].version \in Numbers
    BY <1>a, <1>2, VersionsAssumption DEF TypeOK, Service
  <2>2. AtMost(svc[q].version, svc[q].version)  BY <2>1, AtMostOrder
  <2> QED  BY <1>1, <1>2, <2>2 DEF Keeps
<1>3. \A q \in Places : svc'[q] # None => svc[q] # None  BY <1>1
<1> QED  BY <1>a, <1>2, <1>3 DEF ServicesMove, StoreInv

\* Update changes neither the version nor the state of a service.
LEMMA UpdateMoves ==
    ASSUME DInv, NEW p \in Places, NEW s \in Specs, UpdateBody(s) # None,
           Changed(p, UpdateBody(s)), UNCHANGED made
    PROVE  ServicesMove
<1>1. PICK t \in Service : /\ t.version = svc[p].version /\ t.up = svc[p].up
                           /\ svc' = [svc EXCEPT ![p] = t]
  BY ServiceTyping DEF DInv
<1>2. svc[p] # None /\ svc[p] \in Service  BY ServiceTyping DEF DInv, Changed
<1>3. AtMost(svc[p].version, t.version)
  BY <1>1, <1>2, VersionsAssumption, AtMostOrder DEF Service
<1> QED  BY <1>1, <1>2, <1>3, ChangeMoves

\* Update: the service changes, or not.
LEMMA UpdateStep ==
    ASSUME DInv, TypeOK', NEW w \in Workers, Update(w)
    PROVE  DInv'
<1>a. /\ TypeOK /\ StepInv(w) /\ FreshInv(w) /\ pc[w] = "update" /\ mem[w] \in Resource
      /\ VersionInv(mem[w]) /\ kind \in AllKinds /\ ext \in ExternalNames
  BY KindsAssumption DEF DInv, Update, TypeOK, StepInv
<1>1. /\ Goto(w, "status")
      /\ UNCHANGED <<kind, ext, cr, made, mem, fresh, cache, synced, obs>>
      /\ \/ UNCHANGED svc
         \/ /\ UpdateBody(mem[w].spec) # None
            /\ Changed(UpdatePlace(mem[w]), UpdateBody(mem[w].spec))
  BY DEF Update, copies
<1>2. pc'[w] = "status" /\ OthersStay({w})
  BY <1>a, <1>1, MoveTyping DEF OthersStay, Steps
<1>3. mem[w].spec \in Specs  BY <1>a DEF Resource
<1>4. UpdatePlace(mem[w]) \in Places  BY <1>a, <1>3, CallPlaces
<1>5. ServicesMove  BY <1>1, <1>3, <1>4, UpdateMoves, ServicesRest DEF cloud
<1>6. PlaceInv(w)' /\ ~InCreation(w)' /\ pc'[w] \notin BeforePending
  BY <1>2 DEF PlaceInv, InCreation, BeforePending
<1>7. fresh[w] /\ cr.create = "pending" => mem'[w].stVersion = None
  BY <1>a, <1>1 DEF FreshInv
<1> QED  BY <1>a, <1>1, <1>2, <1>5, <1>6, <1>7, MoveStep

\* Delete: the deletion of the resource has begun.
LEMMA DeleteStep ==
    ASSUME DInv, TypeOK', NEW w \in Workers, Delete(w)
    PROVE  DInv'
<1>a. /\ TypeOK /\ StoreInv /\ StepInv(w) /\ FreshInv(w) /\ pc[w] = "delete"
      /\ mem[w] \in Resource /\ VersionInv(mem[w])
  BY DEF DInv, Delete, TypeOK, StepInv
<1> DEFINE x == [mem[w] EXCEPT !.ready = "Deleting"]
           q == Found(mem[w])
<1>1. /\ Goto(w, "status") /\ Copy(w, x)
      /\ UNCHANGED <<kind, ext, cr, made, fresh, cache, synced, obs>>
      /\ UNCHANGED svc \/ svc' = [svc EXCEPT ![q] = None]
  BY DEF Delete, copies
<1>2. /\ x \in Resource
      /\ x.ready = "Deleting" /\ x.stVersion = mem[w].stVersion /\ x.create = mem[w].create
      /\ x.deleting = mem[w].deleting /\ x.spec = mem[w].spec /\ x.fin = mem[w].fin
  BY <1>a DEF Resource
<1> HIDE DEF x, q
<1>3. pc'[w] = "status" /\ mem'[w] = x /\ OthersStay({w})
  BY <1>a, <1>1, <1>2, MoveTyping DEF OthersStay, Steps
<1>4. Ending
  BY <1>a DEF PlaceInv, StepInv, BeforePending, VersionInv
<1>5. ServicesMove
  <2>1. CASE UNCHANGED svc  BY <1>1, <2>1, ServicesRest DEF cloud
  <2>2. CASE svc' = [svc EXCEPT ![q] = None]
    <3>1. ASSUME NEW p \in Places, svc[p] # None
          PROVE  (Ending /\ svc'[p] = None) \/ Keeps(p)
      <4>1. svc[p].version \in Numbers
        BY <1>a, <3>1, VersionsAssumption DEF TypeOK, Service
      <4>2. AtMost(svc[p].version, svc[p].version)  BY <4>1, AtMostOrder
      <4> QED  BY <1>a, <1>4, <2>2, <3>1, <4>2 DEF Keeps, TypeOK
    <3>2. \A p \in Places : svc'[p] # None => svc[p] # None  BY <1>a, <2>2 DEF TypeOK
    <3> QED  BY <1>a, <1>1, <3>1, <3>2 DEF ServicesMove, StoreInv
  <2> QED  BY <1>1, <2>1, <2>2
<1>6. VersionInv(x)
  <2>1. At(x) = At(mem[w])  BY <1>2 DEF At, Place
  <2> QED  BY <1>a, <1>2, <2>1 DEF VersionInv
<1>7. PlaceInv(w)' /\ ~InCreation(w)' /\ pc'[w] \notin BeforePending
  BY <1>3 DEF PlaceInv, InCreation, BeforePending
<1>8. fresh[w] /\ cr.create = "pending" => mem'[w].stVersion = None
  BY <1>a, <1>2, <1>3 DEF FreshInv
<1> QED  BY <1>a, <1>1, <1>2, <1>3, <1>5, <1>6, <1>7, <1>8, MoveStep

\* What ends or fails without storing anything.
LEMMA QuietFailures ==
    ASSUME DInv, TypeOK', NEW w \in Workers
    PROVE  /\ CallFails(w) => DInv'
           /\ Crash(w) => DInv'
<1>1. CASE CallFails(w)
  <2>1. /\ pc[w] # "idle" /\ Goto(w, "status")
        /\ UNCHANGED <<kind, ext, cr, cloud, mem, fresh, obs, cache, synced>>
    BY <1>1 DEF CallFails, copies
  <2> QED  BY <2>1, FailedStep
<1>2. CASE Crash(w)
  <2>1. End(w) /\ UNCHANGED <<kind, ext, cr, cloud, cache, synced>>
    BY <1>2 DEF Crash, copies
  <2> QED  BY <2>1, EndStep
<1> QED  BY <1>1, <1>2


\* Exoscale finishes and upgrades services; nobody else moves.
LEMMA AccountStep ==
    ASSUME DInv, TypeOK', ServicesMove,
           UNCHANGED <<kind, ext, cr, pc, mem, fresh, cache, synced, obs>>
    PROVE  DInv'
<1>1. Frame /\ StoredInv' /\ StoreInv'  BY StoredStays
<1>2. \A v \in Workers : CreationInv(v)'
  BY DEF DInv, CreationInv, InCreation, FixedFromStart
<1>3. {} \in SUBSET Workers /\ OthersStay({})  BY DEF OthersStay
<1> DEFINE W == {}
<1>4. /\ W \in SUBSET Workers /\ OthersStay(W)
      /\ \A v \in Workers \ W : fresh'[v] => fresh[v] /\ cr' = cr
      /\ \A v \in Workers : synced'[v] => synced[v] /\ cr' = cr
      /\ \A v \in Workers \ W : CreationInv(v)'
      /\ \A w \in W, v \in Workers : InCreation(w)' /\ InCreation(v)' => v = w
      /\ \A w \in W : StepInv(w)' /\ FreshInv(w)' /\ CreationInv(w)'
  BY <1>2, <1>3
<1> HIDE DEF W
<1> QED  BY <1>1, <1>4, StepPreserves

LEMMA AccountSteps ==
    ASSUME DInv, TypeOK', NEW p \in Places, Provisioned(p) \/ Upgrade(p)
    PROVE  DInv'
<1>a. TypeOK  BY DEF DInv
<1>1. /\ svc[p] # None /\ svc[p] \in Service
      /\ UNCHANGED <<kind, ext, cr, made, pc, mem, fresh, cache, synced, obs>>
  BY <1>a DEF Provisioned, Upgrade, TypeOK, copies
<1>2. svc[p].version \in Numbers /\ svc[p].version \in Versions
  BY <1>1, VersionsAssumption DEF Service
<1>3. CASE Provisioned(p)
  <2> DEFINE s == [svc[p] EXCEPT !.up = TRUE]
  <2>1. s \in Service /\ s.version = svc[p].version /\ s.up
    BY <1>1 DEF Service
  <2>2. svc' = [svc EXCEPT ![p] = s]  BY <1>3 DEF Provisioned
  <2>3. AtMost(svc[p].version, s.version)  BY <1>2, <2>1, AtMostOrder
  <2> HIDE DEF s
  <2> QED  BY <1>1, <2>1, <2>2, <2>3, ChangeMoves, AccountStep
<1>4. CASE Upgrade(p)
  <2>1. PICK v \in Versions : /\ ~AtMost(v, svc[p].version)
                              /\ svc' = [svc EXCEPT ![p] = [svc[p] EXCEPT !.version = v]]
    BY <1>4 DEF Upgrade
  <2> DEFINE s == [svc[p] EXCEPT !.version = v]
  <2>2. s \in Service /\ s.version = v /\ s.up = svc[p].up
    BY <1>1 DEF Service
  <2>3. svc' = [svc EXCEPT ![p] = s]  BY <2>1
  <2>4. AtMost(svc[p].version, s.version)
    BY <1>2, <2>1, <2>2, VersionsAssumption, AtMostOrder
  <2> HIDE DEF s
  <2> QED  BY <1>1, <2>2, <2>3, <2>4, ChangeMoves, AccountStep
<1> QED  BY <1>3, <1>4

\* The watch delivers the stored version.
LEMMA CacheStep ==
    ASSUME DInv, TypeOK', NEW w \in Workers, CacheSync(w)
    PROVE  DInv'
<1>a. TypeOK /\ StoredInv /\ StoreInv  BY DEF DInv
<1>b. /\ UNCHANGED <<kind, ext, cr, svc, made, pc, mem, fresh, obs>>
      /\ cache' = [cache EXCEPT ![w] = cr] /\ synced' = [synced EXCEPT ![w] = TRUE]
  BY DEF CacheSync, cloud
<1>1. CacheInv'
  <2> SUFFICES ASSUME NEW v \in Workers
               PROVE  VersionInv(cache[v])' /\ (synced'[v] => cache'[v] = cr')
    BY DEF CacheInv
  <2>1. VersionInv(cache[v]) /\ (synced[v] => cache[v] = cr) /\ VersionInv(cr)
    BY <1>a DEF DInv, CacheInv, StoredInv
  <2>2. CASE v = w
    <3>1. cache'[v] = cr  BY <1>a, <1>b, <2>2 DEF TypeOK
    <3> QED  BY <1>b, <2>1, <3>1 DEF VersionInv, At, Place, Ending, FixedFromStart
  <2>3. CASE v # w
    <3>1. cache'[v] = cache[v] /\ synced'[v] = synced[v]  BY <1>a, <1>b, <2>3 DEF TypeOK
    <3> QED  BY <1>b, <2>1, <3>1 DEF VersionInv, At, Place, Ending, FixedFromStart
  <2> QED  BY <2>2, <2>3
<1>2. StoredInv' /\ StoreInv'
  BY <1>a, <1>b DEF StoredInv, VersionInv, At, Place, Ending, NoServiceLeft, NotAhead,
     FixedFromStart, SameNames, StoreInv, Tracked
<1>3. \A v \in Workers : StepInv(v)'
  BY <1>b DEF DInv, StepInv, PlaceInv, VersionInv, At, Place, Ending, FixedFromStart
<1>4. \A v \in Workers : FreshInv(v)' /\ CreationInv(v)'
  BY <1>b DEF DInv, FreshInv, CreationInv, InCreation, At, Place, FixedFromStart
<1>5. OneCreator'  BY <1>b DEF DInv, OneCreator, InCreation
<1> QED  BY <1>1, <1>2, <1>3, <1>4, <1>5 DEF DInv

-----------------------------------------------------------------------------
(* Steps that store the resource.                                          *)

\* A version that may be stored over the stored one: the finalizer stays while the
\* resource exists, and the deletion is not taken back.
MayStore(new) ==
    /\ new \in Resource
    /\ cr.deleting => new.deleting
    /\ cr.deleting /\ cr.create # "pending" => new.create # "pending"
    /\ new.exists => cr.exists /\ (cr.fin => new.fin)
    /\ FixedFromStart => new.spec.zone = cr.spec.zone
    /\ new.exists /\ ~new.fin => new.create # "pending" /\ made = {}
    /\ ~new.exists /\ Tracked => svc[Place(cr)] = None
    /\ FixedFromStart => \/ new.spec.version = cr.spec.version
                         \/ \/ new.spec.version = None
                            \/ At(cr) = None
                            \/ AtMost(new.spec.version, At(cr).version)

\* What is true of a version that is stored, before it is.
NewVersion(new) ==
    /\ new.create = "pending" => new.stVersion = None
    /\ new.stVersion # None =>
          /\ new.ready # "none"
          /\ (new.deleting /\ new.create # "pending") \/ At(new) # None
          /\ At(new) # None => AtMost(new.stVersion, At(new).version)
    /\ new.ready = "Running" /\ ~new.deleting => At(new) # None /\ At(new).up

\* It is a version of the resource, and every other version still is one.
LEMMA StoredFrame ==
    ASSUME DInv, TypeOK', UNCHANGED <<kind, ext, cloud>>, MayStore(cr'), NewVersion(cr')
    PROVE  Frame /\ StoredInv' /\ StoreInv'
<1>a. /\ TypeOK /\ StoredInv /\ StoreInv /\ svc' = svc /\ made' = made
      /\ ServicesMove
  BY ServicesRest DEF DInv, cloud
<1>1. Frame
  <2>1. \A p \in Places : svc[p] # None => Keeps(p)
    <3> SUFFICES ASSUME NEW p \in Places, svc[p] # None  PROVE Keeps(p)
      OBVIOUS
    <3>1. svc[p].version \in Numbers  BY <1>a, VersionsAssumption DEF TypeOK, Service
    <3> QED  BY <1>a, <3>1, AtMostOrder DEF Keeps
  <2> QED  BY <1>a, <2>1 DEF Frame, MayStore, Ending
<1>2. VersionInv(cr)'
  <2>1. At(cr)' = svc[<<cr'.spec.zone, ext>>] /\ At(cr') = svc[<<cr'.spec.zone, ext>>]
    BY <1>a DEF At, Place
  <2> QED  BY <2>1 DEF VersionInv, NewVersion, Ending
<1>3. cr'.exists /\ ~cr'.fin => cr'.create # "pending" /\ made' = {}
  BY <1>a DEF MayStore
<1>4. FixedFromStart => At(cr)' = At(cr) /\ Place(cr)' = Place(cr)
  BY <1>a DEF MayStore, At, Place
<1>5. NoServiceLeft'
  BY <1>a DEF NoServiceLeft, MayStore, StoreInv, Tracked, FixedFromStart, SameNames
<1>6. NotAhead'
  BY <1>a, <1>4 DEF NotAhead, StoredInv, MayStore, FixedFromStart
<1>7. StoreInv'
  BY <1>a, <1>4 DEF StoreInv, Tracked, FixedFromStart, SameNames
<1> QED  BY <1>1, <1>2, <1>3, <1>5, <1>6, <1>7 DEF StoredInv


\* Status and spec are stored as they were.
LEMMA SameStatus ==
    ASSUME DInv, NEW new \in Resource, new.spec = cr.spec, new.stVersion = cr.stVersion,
           new.ready = cr.ready, cr.deleting => new.deleting,
           cr.create = "pending" \/ new.create # "pending"
    PROVE  NewVersion(new)
<1>1. VersionInv(cr)  BY DEF DInv, StoredInv
<1>2. At(new) = At(cr)  BY DEF At, Place
<1> QED  BY <1>1, <1>2 DEF VersionInv, NewVersion, Ending

\* What is left to show of a step that stores the resource.
LEMMA StoringStep ==
    ASSUME DInv, TypeOK', NEW W \in SUBSET Workers, OthersStay(W),
           UNCHANGED <<kind, ext, cloud, cache>>, MayStore(cr'), NewVersion(cr'),
           \A v \in Workers \ W : fresh'[v] => fresh[v] /\ cr' = cr,
           \A v \in Workers : synced'[v] => synced[v] /\ cr' = cr,
           \A v \in Workers \ W : InCreation(v) =>
              /\ cr'.exists /\ cr'.fin /\ cr'.create = "pending"
              /\ FixedFromStart => cr'.spec.version = cr.spec.version,
           \A w \in W, v \in Workers : InCreation(w)' /\ InCreation(v)' => v = w,
           \A w \in W : StepInv(w)' /\ FreshInv(w)' /\ CreationInv(w)'
    PROVE  DInv'
<1>1. Frame /\ StoredInv' /\ StoreInv'  BY StoredFrame
<1>2. ASSUME NEW v \in Workers \ W  PROVE CreationInv(v)'
  <2>1. CreationInv(v) /\ pc'[v] = pc[v] /\ mem'[v] = mem[v]
    BY DEF DInv, OthersStay
  <2> QED  BY <2>1 DEF CreationInv, InCreation, FixedFromStart
<1> QED  BY <1>1, <1>2, StepPreserves

\* An update that the API server accepts.
LEMMA Accepted ==
    ASSUME TypeOK, NEW w \in Workers, NEW new \in Resource, NEW next \in Steps,
           NEW m \in Resource, Store({w}, new), Copy(w, m), Goto(w, next), UNCHANGED obs
    PROVE  /\ cr' = new /\ pc'[w] = next /\ mem'[w] = m /\ fresh'[w]
           /\ OthersStay({w})
           /\ \A v \in Workers \ {w} : fresh'[v] => fresh[v] /\ cr' = cr
           /\ \A v \in Workers : synced'[v] => synced[v] /\ cr' = cr
<1>1. cr' = new  BY DEF Store, Stored
<1>2. /\ pc'[w] = next /\ mem'[w] = m /\ OthersStay({w})
  BY MoveTyping DEF OthersStay
<1>3. /\ fresh' = [v \in Workers |-> v \in {w} \/ (fresh[v] /\ new = cr)]
      /\ synced' = [v \in Workers |-> synced[v] /\ new = cr]
  BY DEF Store, Stored
<1> QED  BY <1>1, <1>2, <1>3

\* ... and goes on with the stored resource as the copy.
LEMMA AcceptedStep ==
    ASSUME DInv, TypeOK', NEW w \in Workers, NEW new \in Resource, NEW next \in Steps,
           Store({w}, new), Copy(w, new), Goto(w, next), next # "idle",
           UNCHANGED <<kind, ext, cloud, cache, obs>>, cr.exists, new.exists,
           MayStore(new), NewVersion(new), PlaceInv(w)', CreationInv(w)',
           \A v \in Workers \ {w} : ~InCreation(v),
           next \in {"finalizer", "pending"} /\ obs[w] = "absent" => At(new) = None,
           next = "removeFinalizer" => At(new) = None
    PROVE  DInv'
<1>a. TypeOK  BY DEF DInv
<1>1. /\ cr' = new /\ pc'[w] = next /\ mem'[w] = new /\ fresh'[w]
      /\ OthersStay({w})
      /\ \A v \in Workers \ {w} : fresh'[v] => fresh[v] /\ cr' = cr
      /\ \A v \in Workers : synced'[v] => synced[v] /\ cr' = cr
  BY <1>a, Accepted
<1>2. Frame /\ StoredInv' /\ StoreInv'  BY <1>1, StoredFrame
<1>3. VersionInv(mem[w])'
  BY <1>1, <1>2 DEF StoredInv, VersionInv, At, Place
<1>4. StepInv(w)'  BY <1>3 DEF StepInv
<1>5. At(mem[w])' = At(new)  BY <1>1 DEF At, Place, cloud
<1>6. FreshInv(w)'
  BY <1>1, <1>5 DEF FreshInv, NewVersion
<1>7. \A v \in Workers \ {w} : ~InCreation(v)'
  BY <1>1 DEF OthersStay, InCreation
<1>8. {w} \in SUBSET Workers  OBVIOUS
<1>9. /\ \A x \in {w}, v \in Workers : InCreation(x)' /\ InCreation(v)' => v = x
      /\ \A x \in {w} : StepInv(x)' /\ FreshInv(x)' /\ CreationInv(x)'
  BY <1>4, <1>6, <1>7
<1> QED  BY <1>1, <1>8, <1>9, StoringStep

\* Nobody creates the service while the copy of a worker is up to date before the
\* pending annotation.
LEMMA NobodyCreates ==
    ASSUME DInv, NEW w \in Workers, fresh[w], pc[w] \in BeforePending
    PROVE  /\ cr.exists /\ cr.create # "pending"
           /\ mem[w].spec = cr.spec /\ mem[w].deleting = cr.deleting
           /\ \A v \in Workers : ~InCreation(v)
<1>1. FreshInv(w) /\ StepInv(w)  BY DEF DInv
<1>2. cr.create # "pending"  BY <1>1 DEF FreshInv, StepInv, PlaceInv, BeforePending
<1>3. \A v \in Workers : CreationInv(v)  BY DEF DInv
<1> QED  BY <1>1, <1>2, <1>3 DEF FreshInv, CreationInv, BeforePending

\* AddFinalizer: the finalizer is stored, or found.
LEMMA AddFinalizerStep ==
    ASSUME DInv, TypeOK', NEW w \in Workers, AddFinalizer(w)
    PROVE  DInv'
<1>a. /\ TypeOK /\ StoredInv /\ StepInv(w) /\ FreshInv(w) /\ pc[w] = "finalizer"
      /\ cr \in Resource
  BY DEF DInv, AddFinalizer, TypeOK
<1> DEFINE new == [cr EXCEPT !.fin = TRUE]
<1>b. /\ new \in Resource
      /\ new.fin /\ new.exists = cr.exists /\ new.deleting = cr.deleting /\ new.spec = cr.spec
      /\ new.create = cr.create /\ new.stVersion = cr.stVersion /\ new.ready = cr.ready
  BY <1>a DEF Resource
<1>1. /\ UNCHANGED <<kind, ext, cloud, cache, obs>>
      /\ \/ UpdateResource(w, new, "finalizer")
         \/ /\ mem[w].fin
            /\ \/ obs[w] = "absent" /\ Goto(w, "pending")
               \/ Goto(w, "update")
               \/ Goto(w, "status")
            /\ UNCHANGED <<cr, mem, fresh, synced>>
  BY DEF AddFinalizer
<1> HIDE DEF new
<1>2. CASE UpdateResource(w, new, "finalizer")
  <2>1. CASE fresh[w] /\ Store({w}, new) /\ Copy(w, new) /\ Goto(w, "finalizer")
    <3>1. /\ cr.exists /\ cr.create # "pending" /\ ~cr.deleting
          /\ mem[w].spec = cr.spec /\ \A v \in Workers : ~InCreation(v)
      BY <1>a, <2>1, NobodyCreates DEF BeforePending, StepInv, PlaceInv
    <3>2. MayStore(new)  BY <1>b, <3>1 DEF MayStore
    <3>3. NewVersion(new)  BY <1>b, <3>1, SameStatus
    <3>4. pc'[w] = "finalizer" /\ mem'[w] = new
      BY <1>a, <1>b, <1>1, <2>1, Accepted DEF Steps
    <3>5. PlaceInv(w)' /\ CreationInv(w)'
      BY <1>b, <3>1, <3>4 DEF PlaceInv, CreationInv, InCreation
    <3>6. obs[w] = "absent" => At(new) = None
      BY <1>a, <1>b, <2>1, <3>1 DEF FreshInv, At, Place
    <3> QED  BY <1>b, <1>1, <2>1, <3>1, <3>2, <3>3, <3>5, <3>6, AcceptedStep DEF Steps
  <2>2. CASE Goto(w, "status") /\ UNCHANGED <<cr, fresh, synced, mem>>
    BY <1>a, <1>1, <2>2, FailedStep
  <2> QED  BY <1>2, <2>1, <2>2 DEF UpdateResource
<1>3. CASE ~UpdateResource(w, new, "finalizer")
  BY <1>a, <1>1, <1>3, AddFinalizerMoves
<1> QED  BY <1>2, <1>3

\* SetPending: the worker has the resource for itself.
LEMMA SetPendingStep ==
    ASSUME DInv, TypeOK', NEW w \in Workers, SetPending(w)
    PROVE  DInv'
<1>a. /\ TypeOK /\ StoredInv /\ StepInv(w) /\ FreshInv(w) /\ pc[w] = "pending"
      /\ cr \in Resource
  BY DEF DInv, SetPending, TypeOK
<1> DEFINE new == [cr EXCEPT !.create = "pending"]
<1>b. /\ new \in Resource
      /\ new.fin = cr.fin /\ new.exists = cr.exists /\ new.deleting = cr.deleting
      /\ new.spec = cr.spec /\ new.create = "pending" /\ new.stVersion = cr.stVersion
      /\ new.ready = cr.ready
  BY <1>a DEF Resource
<1>1. UNCHANGED <<kind, ext, cloud, cache, obs>> /\ UpdateResource(w, new, "create")
  BY DEF SetPending
<1> HIDE DEF new
<1>2. CASE fresh[w] /\ Store({w}, new) /\ Copy(w, new) /\ Goto(w, "create")
  <2>1. /\ cr.exists /\ cr.create # "pending" /\ ~cr.deleting
        /\ mem[w].spec = cr.spec /\ \A v \in Workers : ~InCreation(v)
    BY <1>a, <1>2, NobodyCreates DEF BeforePending, StepInv, PlaceInv
  <2>2. cr.fin  BY <1>a, <2>1 DEF StepInv, PlaceInv, VersionInv
  <2>3. At(cr) = None  BY <1>a, <1>2, <2>1 DEF FreshInv, At, Place, StepInv, PlaceInv
  <2>4. At(new) = At(cr)  BY <1>b DEF At, Place
  <2>5. MayStore(new)  BY <1>b, <2>1, <2>2 DEF MayStore
  <2>6. NewVersion(new)
    BY <1>a, <1>b, <2>1, <2>3, <2>4 DEF NewVersion, StoredInv, VersionInv, Ending
  <2>7. pc'[w] = "create" /\ mem'[w] = new /\ cr' = new
    BY <1>a, <1>b, <1>1, <1>2, Accepted DEF Steps
  <2>8. PlaceInv(w)' /\ CreationInv(w)'
    BY <1>b, <2>1, <2>2, <2>7 DEF PlaceInv, CreationInv, BeforePending
  <2> QED  BY <1>b, <1>1, <1>2, <2>1, <2>5, <2>6, <2>8, AcceptedStep DEF Steps
<1>3. CASE Goto(w, "status") /\ UNCHANGED <<cr, fresh, synced, mem>>
  BY <1>a, <1>1, <1>3, FailedStep
<1> QED  BY <1>1, <1>2, <1>3 DEF UpdateResource


\* CriticalAnnotations: the outcome is stored, and others may go on.
LEMMA CriticalAnnotationsStep ==
    ASSUME DInv, TypeOK', NEW w \in Workers, CriticalAnnotations(w)
    PROVE  DInv'
<1>a. /\ TypeOK /\ StoredInv /\ StepInv(w) /\ CreationInv(w) /\ OneCreator
      /\ pc[w] = "critical" /\ cr \in Resource /\ mem[w] \in Resource
  BY DEF DInv, CriticalAnnotations, TypeOK
<1> DEFINE new == [cr EXCEPT !.create = mem[w].create]
           x == [new EXCEPT !.ready = "Creating"]
<1>b. mem[w].create \in {"none", "succeeded", "failed"}
  BY <1>a DEF StepInv, PlaceInv, Resource
<1>c. /\ new \in Resource
      /\ new.fin = cr.fin /\ new.exists = cr.exists /\ new.deleting = cr.deleting
      /\ new.spec = cr.spec /\ new.create # "pending" /\ new.stVersion = cr.stVersion
      /\ new.ready = cr.ready
  BY <1>a, <1>b DEF Resource
<1>d. /\ x \in Resource
      /\ x.fin = new.fin /\ x.exists = new.exists /\ x.deleting = new.deleting
      /\ x.spec = new.spec /\ x.create = new.create /\ x.stVersion = new.stVersion
      /\ x.ready = "Creating"
  BY <1>c DEF Resource
<1>1. /\ UNCHANGED <<kind, ext, cloud, cache, obs>>
      /\ Store({w}, new) /\ Copy(w, x) /\ Goto(w, "status")
  BY DEF CriticalAnnotations
<1> HIDE DEF new, x
<1>2. /\ cr.exists /\ cr.fin /\ cr.create = "pending"
      /\ \A v \in Workers \ {w} : ~InCreation(v)
  BY <1>a DEF CreationInv, OneCreator, InCreation
<1>3. /\ cr' = new /\ pc'[w] = "status" /\ mem'[w] = x /\ fresh'[w]
      /\ OthersStay({w})
      /\ \A v \in Workers \ {w} : fresh'[v] => fresh[v] /\ cr' = cr
      /\ \A v \in Workers : synced'[v] => synced[v] /\ cr' = cr
  BY <1>a, <1>c, <1>d, <1>1, Accepted DEF Steps
<1>4. MayStore(new) /\ NewVersion(new)
  BY <1>c, <1>2, SameStatus DEF MayStore
<1>5. StoredInv'  BY <1>1, <1>3, <1>4, StoredFrame
<1>6. VersionInv(mem[w])'
  <2>1. VersionInv(cr)' /\ mem'[w] = x /\ cr' = new  BY <1>3, <1>5 DEF StoredInv
  <2> QED  BY <1>d, <2>1 DEF VersionInv, At, Place
<1>7. StepInv(w)' /\ FreshInv(w)' /\ CreationInv(w)' /\ ~InCreation(w)'
  BY <1>c, <1>d, <1>2, <1>3, <1>6
     DEF StepInv, PlaceInv, FreshInv, CreationInv, InCreation, BeforePending
<1>8. {w} \in SUBSET Workers  OBVIOUS
<1>9. /\ \A y \in {w}, v \in Workers : InCreation(y)' /\ InCreation(v)' => v = y
      /\ \A y \in {w} : StepInv(y)' /\ FreshInv(y)' /\ CreationInv(y)'
  BY <1>7
<1> QED  BY <1>1, <1>2, <1>3, <1>4, <1>8, <1>9, StoringStep

\* A reconcile ends with a last update.
LEMMA LastUpdateStep ==
    ASSUME DInv, TypeOK', NEW w \in Workers, NEW new, Stored(new), End(w),
           UNCHANGED <<kind, ext, cloud, cache>>, MayStore(new), NewVersion(new),
           \A v \in Workers \ {w} : InCreation(v) =>
              /\ new.exists /\ new.fin /\ new.create = "pending"
              /\ FixedFromStart => new.spec.version = cr.spec.version
    PROVE  DInv'
<1>a. TypeOK  BY DEF DInv
<1>1. /\ cr' = new /\ pc'[w] = "idle" /\ OthersStay({w})
      /\ \A v \in Workers \ {w} : fresh'[v] => fresh[v] /\ cr' = cr
      /\ \A v \in Workers : synced'[v] => synced[v] /\ cr' = cr
  BY <1>a, EndTyping DEF OthersStay, Stored
<1>2. StepInv(w)' /\ FreshInv(w)' /\ CreationInv(w)' /\ ~InCreation(w)'
  BY <1>1 DEF StepInv, PlaceInv, FreshInv, CreationInv, InCreation, BeforePending
<1>3. {w} \in SUBSET Workers  OBVIOUS
<1>4. /\ \A y \in {w}, v \in Workers : InCreation(y)' /\ InCreation(v)' => v = y
      /\ \A y \in {w} : StepInv(y)' /\ FreshInv(y)' /\ CreationInv(y)'
  BY <1>2
<1> QED  BY <1>1, <1>3, <1>4, StoringStep

\* RemoveFinalizer: the resource goes, and has no service.
LEMMA RemoveFinalizerStep ==
    ASSUME DInv, TypeOK', NEW w \in Workers, RemoveFinalizer(w)
    PROVE  DInv'
<1>a. /\ TypeOK /\ StoredInv /\ FreshInv(w) /\ pc[w] = "removeFinalizer" /\ cr \in Resource
  BY DEF DInv, RemoveFinalizer, TypeOK
<1>1. UNCHANGED <<kind, ext, cloud, cache>>  BY DEF RemoveFinalizer
<1>2. CASE fresh[w]
  <2> DEFINE new == [cr EXCEPT !.exists = FALSE, !.fin = FALSE]
  <2>1. /\ new \in Resource
        /\ ~new.fin /\ ~new.exists /\ new.deleting = cr.deleting /\ new.spec = cr.spec
        /\ new.create = cr.create /\ new.stVersion = cr.stVersion /\ new.ready = cr.ready
    BY <1>a DEF Resource
  <2>2. Stored(new) /\ End(w)  BY <1>2 DEF RemoveFinalizer
  <2> HIDE DEF new
  <2>3. /\ cr.exists /\ cr.create # "pending" /\ mem[w].spec = cr.spec
        /\ \A v \in Workers : ~InCreation(v)
    BY <1>a, <1>2, NobodyCreates DEF BeforePending
  <2>4. svc[Place(cr)] = None  BY <1>a, <1>2, <2>3 DEF FreshInv, At, Place
  <2>5. MayStore(new)  BY <2>1, <2>3, <2>4 DEF MayStore
  <2>6. NewVersion(new)  BY <2>1, <2>3, SameStatus
  <2> QED  BY <1>1, <2>2, <2>3, <2>5, <2>6, LastUpdateStep
<1>3. CASE ~fresh[w]
  <2>1. Goto(w, "status") /\ UNCHANGED <<cr, mem, obs, fresh, synced>>
    BY <1>3 DEF RemoveFinalizer
  <2> QED  BY <1>a, <1>1, <2>1, FailedStep
<1> QED  BY <1>2, <1>3

\* WriteStatus: the status has what Observe found.
LEMMA WriteStatusStep ==
    ASSUME DInv, TypeOK', NEW w \in Workers, WriteStatus(w)
    PROVE  DInv'
<1>a. /\ TypeOK /\ StoredInv /\ StepInv(w) /\ FreshInv(w) /\ pc[w] = "status"
      /\ cr \in Resource /\ mem[w] \in Resource
  BY DEF DInv, WriteStatus, TypeOK
<1>1. UNCHANGED <<kind, ext, cloud, cache>> /\ End(w)  BY DEF WriteStatus
<1>2. CASE fresh[w]
  <2> DEFINE new == [cr EXCEPT !.stVersion = mem[w].stVersion, !.ready = mem[w].ready]
  <2>1. /\ new \in Resource
        /\ new.fin = cr.fin /\ new.exists = cr.exists /\ new.deleting = cr.deleting
        /\ new.spec = cr.spec /\ new.create = cr.create
        /\ new.stVersion = mem[w].stVersion /\ new.ready = mem[w].ready
    BY <1>a DEF Resource
  <2>2. Stored(new)  BY <1>2 DEF WriteStatus
  <2> HIDE DEF new
  <2>3. /\ cr.exists /\ mem[w].spec = cr.spec /\ VersionInv(mem[w])
        /\ cr.create = "pending" => mem[w].stVersion = None
    BY <1>a, <1>2 DEF FreshInv, StepInv
  <2>4. At(new) = At(mem[w])  BY <2>1, <2>3 DEF At, Place
  <2>5. NewVersion(new)  BY <2>1, <2>3, <2>4 DEF NewVersion, VersionInv, Ending
  <2>6. MayStore(new)  BY <1>a, <2>1, <2>3 DEF MayStore, StoredInv
  <2>7. \A v \in Workers \ {w} : InCreation(v) =>
           /\ new.exists /\ new.fin /\ new.create = "pending"
           /\ FixedFromStart => new.spec.version = cr.spec.version
    BY <2>1 DEF DInv, CreationInv
  <2> QED  BY <1>1, <2>2, <2>5, <2>6, <2>7, LastUpdateStep
<1>3. CASE ~fresh[w]
  <2>1. Stored(cr)  BY <1>3 DEF WriteStatus
  <2>2. cr' = cr /\ synced' = synced  BY <1>a, <2>1 DEF Stored, TypeOK
  <2> QED  BY <1>1, <2>2, EndStep
<1> QED  BY <1>2, <1>3

-----------------------------------------------------------------------------
(* Users.                                                                  *)

\* A user stores a version; no worker moves.
LEMMA UserStep ==
    ASSUME DInv, TypeOK', NEW new, Store({}, new),
           UNCHANGED <<kind, ext, cloud, pc, mem, cache, obs>>, MayStore(new),
           NewVersion(new),
           \A v \in Workers : InCreation(v) =>
              /\ new.exists /\ new.fin /\ new.create = "pending"
              /\ FixedFromStart => new.spec.version = cr.spec.version
    PROVE  DInv'
<1> DEFINE W == {}
<1>1. /\ cr' = new
      /\ synced' = [v \in Workers |-> synced[v] /\ new = cr]
      /\ fresh' = [v \in Workers |-> v \in {} \/ (fresh[v] /\ new = cr)]
  BY DEF Store, Stored
<1>2. /\ W \in SUBSET Workers /\ OthersStay(W)
      /\ \A v \in Workers \ W : fresh'[v] => fresh[v] /\ cr' = cr
      /\ \A v \in Workers : synced'[v] => synced[v] /\ cr' = cr
      /\ \A w \in W, v \in Workers : InCreation(w)' /\ InCreation(v)' => v = w
      /\ \A w \in W : StepInv(w)' /\ FreshInv(w)' /\ CreationInv(w)'
  BY <1>1 DEF OthersStay
<1> HIDE DEF W
<1> QED  BY <1>1, <1>2, StoringStep

\* The webhook admits an edit: the service that is there stays the one the spec
\* asks for, or a later one.
LEMMA UserEditStep ==
    ASSUME DInv, TypeOK', UserEdit
    PROVE  DInv'
<1>a. TypeOK /\ StoredInv /\ cr \in Resource /\ VersionInv(cr) /\ kind \in AllKinds
  BY KindsAssumption DEF DInv, TypeOK, StoredInv
<1>1. PICK s \in Specs : ValidateUpdate(cr, s) /\ Store({}, [cr EXCEPT !.spec = s])
  BY DEF UserEdit, SpecsOf
<1> DEFINE new == [cr EXCEPT !.spec = s]
<1>2. /\ new \in Resource
      /\ new.fin = cr.fin /\ new.exists = cr.exists /\ new.deleting = cr.deleting
      /\ new.spec = s /\ new.create = cr.create /\ new.stVersion = cr.stVersion
      /\ new.ready = cr.ready
  BY <1>a DEF Resource
<1>3. Store({}, new)  BY <1>1
<1> HIDE DEF new
<1>4. /\ cr.exists /\ UNCHANGED <<kind, ext, cloud, pc, mem, cache, obs>>
  BY DEF UserEdit
<1>5. /\ cr.ready # "none" \/ FixedFromStart => s.zone = cr.spec.zone
      /\ FixedFromStart =>
           \/ s.version = cr.spec.version
           \/ /\ cr.stVersion # None /\ s.version # None
              /\ \/ AtMost(s.version, cr.stVersion)
                 \/ cr.spec.version # None /\ AtMost(s.version, cr.spec.version)
  BY <1>a, <1>1, UpdatesAdmitted
<1>6. cr.ready # "none" \/ FixedFromStart => At(new) = At(cr)
  BY <1>2, <1>5 DEF At, Place
<1>7. NewVersion(new)
  BY <1>a, <1>2, <1>6 DEF VersionInv, NewVersion, Ending
<1>8. FixedFromStart => \/ s.version = cr.spec.version
                        \/ s.version = None
                        \/ At(cr) = None
                        \/ AtMost(s.version, At(cr).version)
  <2> SUFFICES ASSUME FixedFromStart, s.version # cr.spec.version, s.version # None,
                      At(cr) # None
               PROVE  AtMost(s.version, At(cr).version)
    OBVIOUS
  <2>1. /\ s.version \in Numbers /\ At(cr).version \in Numbers
        /\ cr.spec.version # None => cr.spec.version \in Numbers
        /\ cr.stVersion # None => cr.stVersion \in Numbers
    BY <1>a, AtTyping, SpecsAssumption, VersionsAssumption DEF Resource
  <2>2. CASE AtMost(s.version, cr.stVersion) /\ cr.stVersion # None
    <3>1. AtMost(cr.stVersion, At(cr).version)  BY <1>a, <2>2 DEF VersionInv
    <3> QED  BY <2>1, <2>2, <3>1, AtMostOrder
  <2>3. CASE cr.spec.version # None /\ AtMost(s.version, cr.spec.version)
    <3>1. AtMost(cr.spec.version, At(cr).version)  BY <1>a, <2>3 DEF StoredInv, NotAhead
    <3> QED  BY <2>1, <2>3, <3>1, AtMostOrder
  <2> QED  BY <1>5, <2>2, <2>3
<1>9. MayStore(new)
  BY <1>a, <1>2, <1>4, <1>5, <1>8 DEF MayStore, StoredInv
<1>10. \A v \in Workers : InCreation(v) =>
          /\ new.exists /\ new.fin /\ new.create = "pending"
          /\ FixedFromStart => new.spec.version = cr.spec.version
  <2> SUFFICES ASSUME NEW v \in Workers, InCreation(v)
               PROVE  /\ new.exists /\ new.fin /\ new.create = "pending"
                      /\ FixedFromStart => new.spec.version = cr.spec.version
    OBVIOUS
  <2>1. cr.exists /\ cr.fin /\ cr.create = "pending"  BY DEF DInv, CreationInv
  <2>2. cr.stVersion = None  BY <1>a, <2>1 DEF VersionInv
  <2> QED  BY <1>2, <1>5, <2>1, <2>2
<1> QED  BY <1>3, <1>4, <1>7, <1>9, <1>10, UserStep

\* Without a finalizer the resource is gone at once; nothing was made for it.
LEMMA UserDeleteStep ==
    ASSUME DInv, TypeOK', UserDelete
    PROVE  DInv'
<1>a. TypeOK /\ StoredInv /\ StoreInv /\ cr \in Resource
  BY DEF DInv, TypeOK
<1> DEFINE new == IF cr.fin THEN [cr EXCEPT !.deleting = TRUE]
                            ELSE [cr EXCEPT !.exists = FALSE]
<1>1. /\ new \in Resource
      /\ new.fin = cr.fin /\ new.spec = cr.spec /\ new.create = cr.create
      /\ new.stVersion = cr.stVersion /\ new.ready = cr.ready
      /\ cr.fin => new.exists = cr.exists /\ new.deleting
      /\ ~cr.fin => ~new.exists /\ new.deleting = cr.deleting
  BY <1>a DEF Resource
<1>2. /\ cr.exists /\ ~cr.deleting /\ Store({}, new)
      /\ UNCHANGED <<kind, ext, cloud, pc, mem, cache, obs>>
  BY DEF UserDelete
<1> HIDE DEF new
<1>3. ~cr.fin => svc[Place(cr)] = None
  <2>1. Place(cr) \in Places  BY <1>a, AtTyping
  <2> QED  BY <1>a, <1>2, <2>1 DEF StoredInv, StoreInv
<1>4. MayStore(new)  BY <1>1, <1>2, <1>3 DEF MayStore
<1>5. NewVersion(new)  BY <1>1, <1>2, SameStatus
<1>6. \A v \in Workers : InCreation(v) =>
         /\ new.exists /\ new.fin /\ new.create = "pending"
         /\ FixedFromStart => new.spec.version = cr.spec.version
  BY <1>1, <1>2 DEF DInv, CreationInv
<1> QED  BY <1>2, <1>4, <1>5, <1>6, UserStep


-----------------------------------------------------------------------------
(* The invariant.                                                          *)

\* A new resource.
LEMMA InitInv == Init => DInv
<1> SUFFICES ASSUME Init  PROVE DInv
  OBVIOUS
<1>1. PICK s \in Specs :
         cr = [exists |-> TRUE, deleting |-> FALSE, fin |-> FALSE, create |-> "none",
               spec |-> s, stVersion |-> None, ready |-> "none"]
  BY DEF Init, SpecsOf
<1>2. /\ cr \in Resource
      /\ cr.exists /\ ~cr.deleting /\ ~cr.fin /\ cr.create = "none" /\ cr.stVersion = None
      /\ cr.ready = "none"
  BY <1>1 DEF Resource
<1>3. /\ svc = [p \in Places |-> None] /\ made = {}
      /\ pc = [w \in Workers |-> "idle"] /\ mem = [w \in Workers |-> None]
      /\ fresh = [w \in Workers |-> FALSE]
      /\ cache = [w \in Workers |-> cr] /\ synced = [w \in Workers |-> TRUE]
      /\ obs = [w \in Workers |-> "none"]
      /\ kind \in Kinds /\ ext \in ExternalNames /\ faults = 0 /\ edits = 0 /\ upgrades = 0
  BY DEF Init
<1>4. TypeOK
  <2>1. faults \in 0 .. MaxFaults /\ edits \in 0 .. MaxEdits /\ upgrades \in 0 .. MaxUpgrades
    BY <1>3, BoundsAssumption
  <2> QED  BY <1>2, <1>3, <2>1 DEF TypeOK, Steps
<1>5. VersionInv(cr)  BY <1>2 DEF VersionInv
<1>6. StoredInv
  <2>1. Place(cr) \in Places  BY <1>2, <1>4, AtTyping
  <2>2. At(cr) = None  BY <1>3, <2>1 DEF At
  <2> QED  BY <1>2, <1>3, <1>5, <2>2 DEF StoredInv, NoServiceLeft, NotAhead
<1>7. StoreInv  BY <1>3 DEF StoreInv
<1>8. CacheInv  BY <1>3, <1>5 DEF CacheInv
<1>9. \A w \in Workers : StepInv(w) /\ FreshInv(w) /\ CreationInv(w) /\ ~InCreation(w)
  BY <1>3 DEF StepInv, PlaceInv, FreshInv, CreationInv, InCreation, BeforePending
<1> QED  BY <1>4, <1>6, <1>7, <1>8, <1>9 DEF DInv, OneCreator

\* Every step preserves the invariant.
LEMMA NextInv == DInv /\ [Next]_vars => DInv'
<1> SUFFICES ASSUME DInv, [Next]_vars  PROVE DInv'
  OBVIOUS
<1>a. TypeOK'  BY NextTyping DEF DInv
<1>1. ASSUME NEW w \in Workers, Reconcile(w)  PROVE DInv'
  BY <1>a, <1>1, StartStep, ObserveAbsentStep, ObserveServiceStep, AddFinalizerStep,
     SetPendingStep, CreateStep, CriticalAnnotationsStep, UpdateStep, DeleteStep,
     RemoveFinalizerStep, WriteStatusStep DEF Reconcile
<1>2. ASSUME NEW w \in Workers, CallFails(w) \/ Crash(w) \/ CacheSync(w)  PROVE DInv'
  BY <1>a, <1>2, QuietFailures, CacheStep
<1>3. ASSUME NEW p \in Places, Provisioned(p) \/ Upgrade(p)  PROVE DInv'
  BY <1>a, <1>3, AccountSteps
<1>4. CASE UserEdit \/ UserDelete  BY <1>a, <1>4, UserEditStep, UserDeleteStep
<1>5. CASE UNCHANGED vars
  <2>1. /\ UNCHANGED cloud
        /\ UNCHANGED <<kind, ext, cr, pc, mem, fresh, cache, synced, obs>>
    BY <1>5 DEF vars, copies
  <2> QED  BY <1>a, <2>1, ServicesRest, AccountStep
<1> QED  BY <1>1, <1>2, <1>3, <1>4, <1>5 DEF Next

\* The inductive invariant of the database controllers: what every copy of the
\* resource, however old, says of the deletion, the service and its version, and that
\* one worker at a time creates the service.
THEOREM DBaaSInvariance == Spec => []DInv
BY InitInv, NextInv, PTL DEF Spec

\* Every variable has its type, so what the controllers send of an admitted spec is
\* what a service of Exoscale can have.
THEOREM DBaaSTyping == Spec => []TypeOK
<1>1. DInv => TypeOK  BY DEF DInv
<1> QED  BY <1>1, DBaaSInvariance, PTL

\* Whatever is edited, lost and retried, a resource that is gone left no service
\* behind, where its kind fixes the zone and its controller looks for the service
\* under the name it was made with.
THEOREM ServicesDeleted == Spec => []NoServiceLeft
<1>1. DInv => NoServiceLeft  BY DEF DInv, StoredInv
<1> QED  BY <1>1, DBaaSInvariance, PTL

\* The stored resource as its controller sees it.
LEMMA CurrentIsAt == DInv => Current = At(cr)
<1>1. DInv => kind \in AllKinds  BY KindsAssumption DEF DInv, TypeOK
<1> QED  BY <1>1, FoundIsPlace DEF Current, At

\* No sequence of admitted edits, upgrades during maintenance and updates of the
\* status from outdated copies lets the spec ask for a later version than the one
\* that runs, which Update could not give it.
THEOREM SpecNotAhead == Spec => []DesiredNotAhead
<1>1. DInv => DesiredNotAhead
  BY CurrentIsAt DEF DInv, StoredInv, NotAhead, DesiredNotAhead
<1> QED  BY <1>1, DBaaSInvariance, PTL

\* A status that says Running, from however old a copy it was written, is that of a
\* service which runs where the spec puts it.
THEOREM RunningIsUp == Spec => []ReadyMeansUp
<1>1. DInv => ReadyMeansUp
  BY CurrentIsAt DEF DInv, StoredInv, VersionInv, ReadyMeansUp
<1> QED  BY <1>1, DBaaSInvariance, PTL

-----------------------------------------------------------------------------
(* What Observe reports, and what requests achieve.                        *)

\* A report that the service is up to date is that of a comparison.
LEMMA CurrentApplied ==
    ASSUME TypeOK, Next, NEW w \in Workers, obs[w] # "current", obs'[w] = "current"
    PROVE  /\ pc[w] = "observe" /\ svc[Found(mem[w])] # None
           /\ \E x \in {mem[w].spec, setSettingsDefaults(mem[w].spec)} :
                 "current" \in Outcome(x, svc[Found(mem[w])])
<1>1. \A v \in Workers : End(v) => obs'[w] # "current"
  BY DEF TypeOK, End
<1>2. ASSUME NEW v \in Workers, Reconcile(v) \/ CallFails(v) \/ Crash(v) \/ CacheSync(v)
      PROVE  ObserveService(v)
  BY <1>1, <1>2 DEF TypeOK, Reconcile, StartReconcile, ObserveAbsent, AddFinalizer,
     SetPending, Create, CriticalAnnotations, Update, Delete, RemoveFinalizer, WriteStatus,
     CallFails, Crash, CacheSync
<1>3. PICK v \in Workers : ObserveService(v)
  BY <1>2 DEF Next, Provisioned, Upgrade, UserEdit, UserDelete
<1>4. /\ pc[v] = "observe" /\ svc[Found(mem[v])] # None
      /\ \E x \in {mem[v].spec, setSettingsDefaults(mem[v].spec)} :
            \E o \in Outcome(x, svc[Found(mem[v])]) \cup {"error"} :
               \/ UNCHANGED obs
               \/ End(v)
               \/ o \in {"stale", "current"} /\ obs' = [obs EXCEPT ![v] = o]
  BY <1>3 DEF ObserveService
<1> QED  BY <1>1, <1>4 DEF TypeOK

\* The comparison through defaults, address sets and the notation of times is right:
\* a service that is reported up to date has every parameter of the spec.
THEOREM CurrentIsApplied == Spec => CurrentMeansApplied
<1>1. ASSUME DInv, Next, NEW w \in Workers, obs[w] # "current", obs'[w] = "current"
      PROVE  LET service == svc[Found(mem[w])]
             IN /\ service # None
                /\ SameParameters(mem[w].spec, service)
                /\ ~OtherMajor(mem[w].spec, service)
  <2> DEFINE s == mem[w].spec
             service == svc[Found(mem[w])]
  <2>1. /\ TypeOK /\ kind \in AllKinds /\ ext \in ExternalNames
        /\ pc[w] = "observe" /\ service # None
    BY <1>1, CurrentApplied, KindsAssumption DEF DInv, TypeOK
  <2>2. PICK x \in {s, setSettingsDefaults(s)} : "current" \in Outcome(x, service)
    BY <1>1, <2>1, CurrentApplied
  <2>3. s \in Specs  BY <2>1 DEF TypeOK, Resource
  <2>4. Found(mem[w]) \in Places  BY <2>1, <2>3, CallPlaces, FoundIsPlace
  <2>5. service \in Service /\ service.setting # None
        /\ service.backup \in Schedules \cup {None}
    BY <2>1, <2>4 DEF TypeOK, Service
  <2> HIDE DEF service, s
  <2>6. /\ x.ips = s.ips /\ x.tp = s.tp /\ x.backup = s.backup /\ x.version = s.version
        /\ x.setting = s.setting \/ x.setting = SetDefaults(s.setting)
    BY <2>3, SpecTyping
  <2>7. /\ IsSameStringSet(service.ips, x.ips) /\ x.setting = service.setting
        /\ kind # "OpenSearch" => service.tp = x.tp
        /\ kind \in {"PostgreSQL", "MySQL"} =>
              /\ x.backup = ToBackupSpec(service.backup)
              /\ CompareMajorVersion(x.version, service.version)
    BY <2>1, <2>2, <2>5, Comparison
  <2>8. service.setting = SetDefaults(s.setting)
    BY <2>5, <2>6, <2>7 DEF SetDefaults
  <2>9. kind \in {"PostgreSQL", "MySQL"} /\ s.backup # None =>
           service.backup = ToBackupSchedule(s.backup)
    BY <2>3, <2>5, <2>6, <2>7, SpecTyping, RoundTrip
  <2>10. SameParameters(s, service) /\ ~OtherMajor(s, service)
    BY <2>6, <2>7, <2>8, <2>9 DEF SameParameters, OtherMajor
  <2> QED  BY <2>1, <2>10 DEF service, s
<1>2. DInv /\ [Next]_vars =>
        [\A w \in Workers : obs[w] # "current" /\ obs'[w] = "current" =>
            LET service == svc[Found(mem[w])]
            IN /\ service # None
               /\ SameParameters(mem[w].spec, service)
               /\ ~OtherMajor(mem[w].spec, service)]_vars
  BY <1>1
<1> QED  BY <1>2, DBaaSInvariance, PTL DEF Spec, CurrentMeansApplied

\* Who changes a service that a worker addresses: its own Create or Update.
LEMMA Requested ==
    ASSUME TypeOK, Next, NEW w \in Workers, Requests(w)
    PROVE  \/ /\ pc[w] = "create" /\ Body(mem[w].spec) # None
              /\ Made(CreatePlace(mem[w]), Body(mem[w].spec))
           \/ /\ pc[w] = "update" /\ UpdateBody(mem[w].spec) # None
              /\ Changed(UpdatePlace(mem[w]), UpdateBody(mem[w].spec))
<1>1. ASSUME NEW v \in Workers, Reconcile(v) \/ CallFails(v) \/ Crash(v) \/ CacheSync(v)
      PROVE  Create(w) \/ Update(w)
  <2>1. \/ Create(v) \/ Update(v)
        \/ Delete(v) /\ pc[v] = "delete" /\ Goto(v, "status")
        \/ UNCHANGED svc
    BY <1>1 DEF Reconcile, StartReconcile, ObserveAbsent, ObserveService, AddFinalizer,
       SetPending, CriticalAnnotations, Delete, RemoveFinalizer, WriteStatus, CallFails, Crash,
       CacheSync, cloud
  <2>2. \A step : v # w /\ Goto(v, step) => pc'[w] = pc[w]  BY DEF TypeOK, Goto
  <2>3. Create(v) => Goto(v, "critical")  BY DEF Create
  <2>4. Update(v) => Goto(v, "status")  BY DEF Update
  <2> QED  BY <2>1, <2>2, <2>3, <2>4 DEF Requests
<1>2. CASE Create(w)
  BY <1>2 DEF Create, Requests, cloud
<1>3. CASE Update(w)
  BY <1>3 DEF Update, Requests
<1> QED
  BY <1>1, <1>2, <1>3 DEF Next, Requests, Provisioned, Upgrade, UserEdit, UserDelete

\* What a request makes of a service.
LEMMA RequestMakes ==
    ASSUME DInv, Next, NEW w \in Workers, Requests(w)
    PROVE  /\ mem[w].spec \in Specs /\ kind \in AllKinds
           /\ svc'[Addressed(w)] \in Service
           /\ svc'[Addressed(w)].ips = mem[w].spec.ips
           /\ svc'[Addressed(w)].setting = SetDefaults(mem[w].spec.setting)
           /\ svc'[Addressed(w)].tp = mem[w].spec.tp
           /\ kind \in {"PostgreSQL", "MySQL"} =>
                 /\ mem[w].spec.backup # None
                 /\ svc'[Addressed(w)].backup = ToBackupSchedule(mem[w].spec.backup)
<1> DEFINE m == mem[w]
           p == Addressed(w)
<1>a. /\ TypeOK /\ TypeOK' /\ kind \in AllKinds /\ ext \in ExternalNames /\ m \in Resource
      /\ m.spec \in Specs
  BY NextTyping, KindsAssumption DEF DInv, TypeOK, Requests, Resource
<1>b. p \in Places  BY <1>a, CallPlaces DEF Addressed
<1>1. CASE pc[w] = "create"
  <2>1. p = CreatePlace(m)  BY <1>1 DEF Addressed
  <2>2. Body(m.spec) # None /\ Made(p, Body(m.spec))
    BY <1>a, <1>1, <2>1, Requested
  <2> DEFINE b == Body(m.spec)
  <2>3. PICK v \in Versions :
           svc' = [svc EXCEPT ![p] =
                      [ips |-> b.ips, setting |-> SetDefaults(b.setting), tp |-> b.tp,
                       backup |-> b.backup, version |-> v, up |-> FALSE]]
    BY <2>2 DEF Made
  <2> DEFINE t == [ips |-> b.ips, setting |-> SetDefaults(b.setting), tp |-> b.tp,
                   backup |-> b.backup, version |-> v, up |-> FALSE]
  <2>4. /\ t.ips = b.ips /\ t.setting = SetDefaults(b.setting) /\ t.tp = b.tp
        /\ t.backup = b.backup
    OBVIOUS
  <2>5. svc'[p] = t  BY <1>a, <1>b, <2>3 DEF TypeOK
  <2>6. /\ b.ips = m.spec.ips /\ b.setting = m.spec.setting /\ b.tp = m.spec.tp
        /\ kind \in {"PostgreSQL", "MySQL"} =>
             m.spec.backup # None /\ b.backup = ToBackupSchedule(m.spec.backup)
    BY <1>a, <2>2, BodyTyping
  <2>7. t \in Service
    <3>1. /\ b.ips \in {u.ips : u \in Specs} /\ b.tp \in BOOLEAN
          /\ SetDefaults(b.setting) \in ({u.setting : u \in Specs} \cup {Default}) \ {None}
      BY <1>a, <2>6, SpecTyping, DefaultAssumption DEF SetDefaults
    <3>2. b.backup \in Schedules \cup {None}
      BY <1>a, <2>2, BodyTyping, SpecTyping, RoundTrip
    <3> HIDE DEF b
    <3> QED  BY <3>1, <3>2 DEF Service
  <2> QED  BY <1>a, <2>4, <2>5, <2>6, <2>7
<1>2. CASE pc[w] = "update"
  <2>1. p = UpdatePlace(m)  BY <1>2 DEF Addressed
  <2>2. UpdateBody(m.spec) # None /\ Changed(p, UpdateBody(m.spec))
    BY <1>a, <1>2, <2>1, Requested
  <2> DEFINE b == UpdateBody(m.spec)
  <2>3. PICK t \in Service : svc' = [svc EXCEPT ![p] = t]
    BY <1>a, <1>b, <2>2, ServiceTyping
  <2>4. svc[p] \in Service
    BY <1>a, <1>b, <2>2, ServiceTyping
  <2>5. svc'[p] = t  BY <1>a, <1>b, <2>3 DEF TypeOK
  <2>6. svc' = [svc EXCEPT ![p] = [svc[p] EXCEPT !.ips = b.ips,
                                     !.setting = SetDefaults(b.setting),
                                     !.tp = b.tp, !.backup = b.backup]]
    BY <2>2 DEF Changed
  <2>7. /\ b.ips = m.spec.ips /\ b.setting = m.spec.setting /\ b.tp = m.spec.tp
        /\ kind \in {"PostgreSQL", "MySQL"} =>
             m.spec.backup # None /\ b.backup = ToBackupSchedule(m.spec.backup)
    BY <1>a, <2>2, UpdateBodyTyping
  <2> HIDE DEF b
  <2>8. svc'[p] = [svc[p] EXCEPT !.ips = b.ips, !.setting = SetDefaults(b.setting),
                                 !.tp = b.tp, !.backup = b.backup]
    BY <1>a, <1>b, <2>6 DEF TypeOK
  <2>9. /\ svc'[p].ips = b.ips /\ svc'[p].setting = SetDefaults(b.setting)
        /\ svc'[p].tp = b.tp /\ svc'[p].backup = b.backup
    BY <2>4, <2>8 DEF Service
  <2> QED  BY <1>a, <2>3, <2>5, <2>7, <2>9
<1> QED  BY <1>1, <1>2 DEF Requests

\* A request leaves nothing to compare: the service it made or changed does not differ
\* from the same spec when it is observed, unless the backup time is one that the
\* schedule does not give back, or the service runs another major version.
THEOREM RequestsAreEnough == Spec => RequestsSuffice
<1>1. ASSUME DInv, Next, NEW w \in Workers, Requests(w), Canonical(mem[w].spec.backup)
      PROVE  LET s == mem[w].spec
                 service == svc'[Addressed(w)]
             IN "stale" \in Outcome(setSettingsDefaults(s), service) =>
                    OtherMajor(s, service)
  <2> DEFINE s == mem[w].spec
             service == svc'[Addressed(w)]
             x == setSettingsDefaults(s)
  <2>1. /\ s \in Specs /\ kind \in AllKinds /\ service \in Service
        /\ service.ips = s.ips /\ service.setting = SetDefaults(s.setting)
        /\ service.tp = s.tp
        /\ kind \in {"PostgreSQL", "MySQL"} =>
              s.backup # None /\ service.backup = ToBackupSchedule(s.backup)
    BY <1>1, RequestMakes
  <2>2. Canonical(s.backup)  BY <1>1
  <2> SUFFICES ASSUME "stale" \in Outcome(x, service)  PROVE OtherMajor(s, service)
    OBVIOUS
  <2> HIDE DEF s, service
  <2>3. /\ x.ips = s.ips /\ x.tp = s.tp /\ x.backup = s.backup /\ x.version = s.version
        /\ x.setting = SetDefaults(s.setting)
        /\ s.backup \in Times \cup {None}
    BY <2>1, SpecTyping
  <2> HIDE DEF x
  <2>4. ~(kind \in {"PostgreSQL", "MySQL"} =>
             /\ x.backup = ToBackupSpec(service.backup)
             /\ CompareMajorVersion(x.version, service.version))
    BY <2>1, <2>3, Comparison
  <2>5. kind \in {"PostgreSQL", "MySQL"} => x.backup = ToBackupSpec(service.backup)
    BY <2>1, <2>2, <2>3, RoundTrip
  <2> QED  BY <2>3, <2>4, <2>5 DEF OtherMajor
<1>2. DInv /\ [Next]_vars =>
        [\A w \in Workers : Requests(w) /\ Canonical(mem[w].spec.backup) =>
            LET s == mem[w].spec
                service == svc'[Addressed(w)]
            IN "stale" \in Outcome(setSettingsDefaults(s), service) =>
                   OtherMajor(s, service)]_vars
  BY <1>1
<1> QED  BY <1>2, DBaaSInvariance, PTL DEF Spec, RequestsSuffice
=============================================================================
