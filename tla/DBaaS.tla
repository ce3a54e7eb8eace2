------------------------------- MODULE DBaaS -------------------------------
(***************************************************************************)
(* One database resource of any of the five kinds, from the first edit of  *)
(* its user to its deletion: the managed reconciler of crossplane-runtime, *)
(* the kind's controller, the webhook, and Exoscale's database service.    *)
(* What a kind asks for, compares and admits is in the module of the kind. *)
(*                                                                         *)
(* Operator processes, copies, caches, conflicts and faults are modelled   *)
(* as in module IAMKey.  Services are found by zone and name.  A user may  *)
(* set the external name before the resource is first reconciled;          *)
(* otherwise the reconciler sets it to the name of the resource.           *)
(***************************************************************************)
EXTENDS DBaaSMapper

CONSTANTS
    Workers,     \* operator processes
    Kinds,       \* kinds of resources, a subset of AllKinds
    Specs,       \* values of spec.forProvider
    ExternalNames, \* external names, "name" is the name of the resource
    Versions,    \* versions Exoscale offers
    MaxFaults,   \* failed or lost calls and process deaths in a behaviour
    MaxEdits,    \* edits of the spec in a behaviour
    MaxUpgrades  \* upgrades during maintenance in a behaviour

AllKinds == {"PostgreSQL", "MySQL", "Kafka", "OpenSearch", "Redis"}

ASSUME KindsAssumption == Kinds \subseteq AllKinds

ASSUME NamesAssumption == "name" \in ExternalNames

Numbers == [major: Nat, minor: Nat]

ASSUME VersionsAssumption == Versions \subseteq Numbers /\ None \notin Versions

\* The times of day the CRD's pattern lets through, and Exoscale's schedules.
Times == [hour: 0 .. 23, minute: 0 .. 59, second: 0 .. 59, digits: {1, 2}]
Schedules == [hour: 0 .. 23, minute: 0 .. 59]

ASSUME TimesAssumption == None \notin Times \cup Schedules

ASSUME SpecsAssumption ==
    Specs \subseteq [zone: {s.zone : s \in Specs}, ips: {s.ips : s \in Specs},
                     setting: {s.setting : s \in Specs}, tp: BOOLEAN,
                     backup: Times \cup {None}, version: Numbers \cup {None}]

ASSUME DefaultAssumption == Default # None

ASSUME BoundsAssumption == MaxFaults \in Nat /\ MaxEdits \in Nat /\ MaxUpgrades \in Nat

PG == INSTANCE PostgreSQL
MY == INSTANCE MySQL
KA == INSTANCE Kafka
OS == INSTANCE OpenSearch
RE == INSTANCE Redis

VARIABLES
    kind, ext,   \* kind and external name of the resource
    cr,          \* the resource as the API server stores it
    svc,         \* the services of the account, None where there is none
    made,        \* places at which Create of this resource made a service
    pc, mem,     \* what each worker does next, and its copy of the resource
    fresh,       \* the stored resource has not changed since mem was read
    cache,       \* each worker's informer cache
    synced,      \* the stored resource has not changed since it was cached
    obs,         \* what Observe reported
    faults, edits, upgrades

cloud == <<svc, made>>
budgets == <<faults, edits, upgrades>>
copies == <<cache, synced>>
vars == <<kind, ext, cr, cloud, pc, mem, fresh, copies, obs, budgets>>

Zones == {s.zone : s \in Specs}
Places == Zones \X (ExternalNames \cup {"name"})

Resource == [exists: BOOLEAN, deleting: BOOLEAN, fin: BOOLEAN,
             create: {"none", "pending", "succeeded", "failed"},
             spec: Specs, stVersion: Versions \cup {None},
             ready: {"none", "Creating", "Rebuilding", "Running", "Deleting"}]

Service == [ips: {s.ips : s \in Specs},
            setting: ({s.setting : s \in Specs} \cup {Default}) \ {None},
            tp: BOOLEAN, backup: Schedules \cup {None}, version: Versions, up: BOOLEAN]

ASSUME ServiceAssumption == None \notin Service

Steps == {"idle", "observe", "finalizer", "pending", "create", "critical", "update", "delete",
          "removeFinalizer", "status"}

\* Every variable has its type: what the controllers send of a spec is what a
\* service has, the time of backups as a schedule.
TypeOK ==
    /\ kind \in Kinds
    /\ ext \in ExternalNames
    /\ cr \in Resource
    /\ svc \in [Places -> Service \cup {None}]
    /\ made \subseteq Places
    /\ pc \in [Workers -> Steps]
    /\ mem \in [Workers -> Resource \cup {None}]
    /\ \A w \in Workers : pc[w] # "idle" => mem[w] \in Resource
    /\ fresh \in [Workers -> BOOLEAN]
    /\ cache \in [Workers -> Resource]
    /\ synced \in [Workers -> BOOLEAN]
    /\ obs \in [Workers -> {"none", "absent", "stale", "current"}]
    /\ faults \in 0 .. MaxFaults /\ edits \in 0 .. MaxEdits /\ upgrades \in 0 .. MaxUpgrades

-----------------------------------------------------------------------------
(* The kind's controller.                                                  *)

\* Only PostgreSQL and MySQL have backups, and Redis has no version.
SpecsOf(k) == {s \in Specs : /\ k \in {"PostgreSQL", "MySQL"} \/ s.backup = None
                             /\ k # "Redis" \/ s.version = None}

ValidateCreate(s) ==
    CASE kind = "PostgreSQL" -> PG!ValidateCreate(s, Versions)
      [] kind = "MySQL" -> MY!ValidateCreate(s, Versions)
      [] kind = "Kafka" -> KA!ValidateCreate(s, Versions)
      [] kind = "OpenSearch" -> OS!ValidateCreate(s, Versions)
      [] kind = "Redis" -> RE!ValidateCreate(s, Versions)

ValidateUpdate(old, s) ==
    CASE kind = "PostgreSQL" -> PG!ValidateUpdate(old, s)
      [] kind = "MySQL" -> MY!ValidateUpdate(old, s)
      [] kind = "Kafka" -> KA!ValidateUpdate(old, s)
      [] kind = "OpenSearch" -> OS!ValidateUpdate(old, s)
      [] kind = "Redis" -> RE!ValidateUpdate(old, s)

Body(s) ==
    CASE kind = "PostgreSQL" -> PG!fromSpecToCreateBody(s)
      [] kind = "MySQL" -> MY!createBody(s)
      [] kind = "Kafka" -> KA!createBody(s)
      [] kind = "OpenSearch" -> OS!createBody(s)
      [] kind = "Redis" -> RE!createBody(s)

UpdateBody(s) ==
    CASE kind = "PostgreSQL" -> PG!fromSpecToUpdateBody(s)
      [] kind = "MySQL" -> MY!updateBody(s)
      [] kind = "Kafka" -> KA!updateBody(s)
      [] kind = "OpenSearch" -> OS!updateBody(s)
      [] kind = "Redis" -> RE!updateBody(s)

Outcome(s, service) ==
    CASE kind = "PostgreSQL" -> PG!Observe(s, service)
      [] kind = "MySQL" -> MY!Observe(s, service)
      [] kind = "Kafka" -> KA!Observe(s, service)
      [] kind = "OpenSearch" -> OS!Observe(s, service)
      [] kind = "Redis" -> RE!Observe(s, service)

\* Where the calls of a reconcile look: the client is the one of the zone.
Found(m) ==
    <<m.spec.zone, CASE kind = "PostgreSQL" -> PG!ServiceName("name", ext)
                     [] kind = "MySQL" -> MY!ServiceName("name", ext)
                     [] kind = "Kafka" -> KA!ServiceName("name", ext)
                     [] kind = "OpenSearch" -> OS!ServiceName("name", ext)
                     [] kind = "Redis" -> RE!ServiceName("name", ext)>>

CreatePlace(m) ==
    IF kind = "PostgreSQL" THEN <<m.spec.zone, PG!CreateName("name", ext)>> ELSE Found(m)

UpdatePlace(m) ==
    IF kind = "PostgreSQL" THEN <<m.spec.zone, PG!UpdateName("name", ext)>> ELSE Found(m)

-----------------------------------------------------------------------------

Init ==
    /\ kind \in Kinds
    /\ ext \in ExternalNames
    /\ \E s \in SpecsOf(kind) :
        /\ ValidateCreate(s)
        /\ cr = [exists |-> TRUE, deleting |-> FALSE, fin |-> FALSE, create |-> "none",
                 spec |-> s, stVersion |-> None, ready |-> "none"]
    /\ svc = [p \in Places |-> None]
    /\ made = {}
    /\ pc = [w \in Workers |-> "idle"]
    /\ mem = [w \in Workers |-> None]
    /\ fresh = [w \in Workers |-> FALSE]
    /\ cache = [w \in Workers |-> cr]
    /\ synced = [w \in Workers |-> TRUE]
    /\ obs = [w \in Workers |-> "none"]
    /\ faults = 0 /\ edits = 0 /\ upgrades = 0

Fault == faults < MaxFaults /\ faults' = faults + 1

Goto(w, step) == pc' = [pc EXCEPT ![w] = step]

Copy(w, m) == mem' = [mem EXCEPT ![w] = m]

\* A version is stored that makes caches outdated, unless it is the stored one.
Stored(new) ==
    /\ cr' = new
    /\ synced' = [v \in Workers |-> synced[v] /\ new = cr]

\* ... and copies too, but for the one of the worker that stored it.
Store(by, new) ==
    /\ Stored(new)
    /\ fresh' = [v \in Workers |-> v \in by \/ (fresh[v] /\ new = cr)]

\* Mutant: an update is sent without the version it is based on.
UpdateResourceForced(w, new, next) ==
    Store({w}, new) /\ Copy(w, new) /\ Goto(w, next)

\* The API server refuses an update of an outdated copy.
UpdateResource(w, new, next) ==
    \/ fresh[w] /\ Store({w}, new) /\ Copy(w, new) /\ Goto(w, next)
    \/ ~fresh[w] /\ Goto(w, "status") /\ UNCHANGED <<cr, fresh, synced, mem>>

\* The reconcile of w is over; cr' is what it stored last.
End(w) ==
    /\ Goto(w, "idle")
    /\ Copy(w, None)
    /\ obs' = [obs EXCEPT ![w] = "none"]
    /\ fresh' = [v \in Workers |-> v # w /\ fresh[v] /\ cr' = cr]

\* The reconciler refuses a resource whose last attempt to create never
\* reported back.
StartReconcile(w) ==
    /\ pc[w] = "idle"
    /\ cache[w].exists
    /\ fresh' = [fresh EXCEPT ![w] = synced[w]]
    /\ IF cache[w].create = "pending"
       THEN Goto(w, "status") /\ Copy(w, [cache[w] EXCEPT !.ready = "Creating"])
       ELSE Goto(w, "observe") /\ Copy(w, cache[w])
    /\ UNCHANGED <<kind, ext, cr, cloud, copies, obs, budgets>>

\* Mutant: a service that is not found is an error.
ObserveAbsentFails(w) ==
    /\ pc[w] = "observe"
    /\ svc[Found(mem[w])] = None
    /\ obs' = [obs EXCEPT ![w] = "absent"]
    /\ Goto(w, IF mem[w].deleting THEN "status" ELSE "finalizer")
    /\ UNCHANGED <<kind, ext, cr, cloud, mem, fresh, copies, budgets>>

ObserveAbsent(w) ==
    /\ pc[w] = "observe"
    /\ svc[Found(mem[w])] = None
    /\ obs' = [obs EXCEPT ![w] = "absent"]
    /\ Goto(w, IF mem[w].deleting THEN "removeFinalizer" ELSE "finalizer")
    /\ UNCHANGED <<kind, ext, cr, cloud, mem, fresh, copies, budgets>>

\* Mutant: a service that exists counts as running.
setConditionAlways(s) == "Running"

\* Of the states of a service two are told apart, one in which it can be used.
setConditionFromState(s) == IF s.up THEN "Running" ELSE "Rebuilding"

setSettingsDefaults(s) == [s EXCEPT !.setting = SetDefaults(s.setting)]

\* The status takes version and state of the service before certificate, password
\* or parameters can fail to be read.  When the schema of the settings cannot be
\* read the spec is compared without their defaults.
ObserveService(w) ==
    /\ pc[w] = "observe"
    /\ svc[Found(mem[w])] # None
    /\ LET m == mem[w]
           s == svc[Found(m)]
           observed == [m EXCEPT !.stVersion = s.version, !.ready = setConditionFromState(s)]
           report(o) ==
              \/ /\ o = "error"
                 /\ Goto(w, "status")
                 /\ Copy(w, observed)
                 /\ UNCHANGED <<fresh, obs>>
              \/ /\ o = "panic"
                 /\ End(w)
              \/ /\ o \in {"stale", "current"}
                 /\ obs' = [obs EXCEPT ![w] = o]
                 /\ Goto(w, IF m.deleting THEN "delete" ELSE "finalizer")
                 /\ Copy(w, observed)
                 /\ UNCHANGED fresh
       IN /\ UNCHANGED <<kind, ext, cr, cloud, copies, edits, upgrades>>
          /\ \/ \E o \in Outcome(setSettingsDefaults(m.spec), s) :
                  report(o) /\ UNCHANGED faults
             \/ \E o \in Outcome(m.spec, s) : report(o) /\ Fault
             \/ report("error") /\ Fault

AddFinalizer(w) ==
    /\ pc[w] = "finalizer"
    /\ \/ /\ ~mem[w].fin
          /\ UpdateResource(w, [cr EXCEPT !.fin = TRUE], "finalizer")
       \/ /\ mem[w].fin
          /\ \/ obs[w] = "absent" /\ Goto(w, "pending")
             \/ obs[w] = "stale" /\ Goto(w, "update")
             \/ obs[w] = "current" /\ Goto(w, "status")
          /\ UNCHANGED <<cr, mem, fresh, synced>>
    /\ UNCHANGED <<kind, ext, cloud, cache, obs, budgets>>

SetPending(w) ==
    /\ pc[w] = "pending"
    /\ UpdateResource(w, [cr EXCEPT !.create = "pending"], "create")
    /\ UNCHANGED <<kind, ext, cloud, cache, obs, budgets>>

\* Exoscale makes the service of a request.
Made(place, body) ==
    /\ svc[place] = None
    /\ \E v \in Versions :
        /\ body.version # None => CompareMajorVersion(v, body.version) /\ AtMost(body.version, v)
        /\ svc' = [svc EXCEPT ![place] =
                     [ips |-> body.ips, setting |-> SetDefaults(body.setting), tp |-> body.tp,
                      backup |-> body.backup, version |-> v, up |-> FALSE]]
    /\ made' = made \cup {place}

\* A name that is taken counts as created; whether it is taken by a service in
\* another zone is up to Exoscale.
Create(w) ==
    /\ pc[w] = "create"
    /\ LET m == mem[w]
           place == CreatePlace(m)
           body == Body(m.spec)
           elsewhere == \E z \in Zones \ {m.spec.zone} : svc[<<z, place[2]>>] # None
           outcome(o) == Copy(w, [m EXCEPT !.create = o, !.ready = "Creating"])
       IN \/ body = None /\ outcome("failed") /\ UNCHANGED <<cloud, faults>>
          \/ body # None /\ Made(place, body) /\ outcome("succeeded") /\ UNCHANGED faults
          \/ /\ body # None
             /\ svc[place] # None \/ elsewhere
             /\ outcome("succeeded")
             /\ UNCHANGED <<cloud, faults>>
          \/ /\ body # None
             /\ Fault
             /\ Made(place, body) \/ UNCHANGED cloud
             /\ outcome("failed")
    /\ Goto(w, "critical")
    /\ UNCHANGED <<kind, ext, cr, fresh, copies, obs, edits, upgrades>>

\* The outcome is stored over a newer version of the resource if need be; the
\* resource exists, since nobody else removes the finalizer of a pending one.
CriticalAnnotations(w) ==
    /\ pc[w] = "critical"
    /\ LET new == [cr EXCEPT !.create = mem[w].create]
       IN Store({w}, new) /\ Copy(w, [new EXCEPT !.ready = "Creating"])
    /\ Goto(w, "status")
    /\ UNCHANGED <<kind, ext, cloud, cache, obs, budgets>>

\* A change of the service; the version is not sent.
Changed(place, body) ==
    /\ svc[place] # None
    /\ svc' = [svc EXCEPT ![place].ips = body.ips,
                          ![place].setting = SetDefaults(body.setting),
                          ![place].tp = body.tp, ![place].backup = body.backup]

Update(w) ==
    /\ pc[w] = "update"
    /\ LET place == UpdatePlace(mem[w])
           body == UpdateBody(mem[w].spec)
       IN \/ body # None /\ Changed(place, body) /\ UNCHANGED faults
          \/ (body = None \/ svc[place] = None) /\ UNCHANGED <<svc, faults>>
          \/ body # None /\ Fault /\ (Changed(place, body) \/ UNCHANGED svc)
    /\ Goto(w, "status")
    /\ UNCHANGED <<kind, ext, cr, made, mem, fresh, copies, obs, edits, upgrades>>

\* Exoscale refuses to delete a protected service, and one that does not exist.
Delete(w) ==
    /\ pc[w] = "delete"
    /\ LET place == Found(mem[w])
           removed == /\ svc[place] # None /\ ~svc[place].tp
                      /\ svc' = [svc EXCEPT ![place] = None]
           refused == svc[place] # None => svc[place].tp
       IN \/ removed /\ UNCHANGED faults
          \/ refused /\ UNCHANGED <<svc, faults>>
          \/ Fault /\ (removed \/ UNCHANGED svc)
    /\ Copy(w, [mem[w] EXCEPT !.ready = "Deleting"])
    /\ Goto(w, "status")
    /\ UNCHANGED <<kind, ext, cr, made, fresh, copies, obs, edits, upgrades>>

RemoveFinalizer(w) ==
    /\ pc[w] = "removeFinalizer"
    /\ \/ /\ fresh[w]
          /\ Stored([cr EXCEPT !.exists = FALSE, !.fin = FALSE])
          /\ End(w)
       \/ /\ ~fresh[w]
          /\ Goto(w, "status")
          /\ UNCHANGED <<cr, mem, obs, fresh, synced>>
    /\ UNCHANGED <<kind, ext, cloud, cache, budgets>>

WriteStatus(w) ==
    /\ pc[w] = "status"
    /\ Stored(IF fresh[w]
              THEN [cr EXCEPT !.stVersion = mem[w].stVersion, !.ready = mem[w].ready]
              ELSE cr)
    /\ End(w)
    /\ UNCHANGED <<kind, ext, cloud, cache, budgets>>

\* A read or an update fails: the reconcile ends with the error in the status.
CallFails(w) ==
    /\ pc[w] \in {"observe", "finalizer", "pending", "critical", "removeFinalizer"}
    /\ Fault
    /\ Goto(w, "status")
    /\ UNCHANGED <<kind, ext, cr, cloud, mem, fresh, copies, obs, edits, upgrades>>

Crash(w) ==
    /\ pc[w] # "idle"
    /\ Fault
    /\ UNCHANGED <<kind, ext, cr, cloud, copies, edits, upgrades>>
    /\ End(w)

\* The watch delivers the stored version to the cache of w.
CacheSync(w) ==
    /\ ~synced[w]
    /\ cache' = [cache EXCEPT ![w] = cr]
    /\ synced' = [synced EXCEPT ![w] = TRUE]
    /\ UNCHANGED <<kind, ext, cr, cloud, pc, mem, fresh, obs, budgets>>

-----------------------------------------------------------------------------
(* Exoscale and the users.                                                 *)

Provisioned(p) ==
    /\ svc[p] # None
    /\ ~svc[p].up
    /\ svc' = [svc EXCEPT ![p].up = TRUE]
    /\ UNCHANGED <<kind, ext, cr, made, pc, mem, fresh, copies, obs, budgets>>

Upgrade(p) ==
    /\ svc[p] # None
    /\ upgrades < MaxUpgrades /\ upgrades' = upgrades + 1
    /\ \E v \in Versions :
        /\ ~AtMost(v, svc[p].version)
        /\ svc' = [svc EXCEPT ![p].version = v]
    /\ UNCHANGED <<kind, ext, cr, made, pc, mem, fresh, copies, obs, faults, edits>>

UserEdit ==
    /\ cr.exists
    /\ edits < MaxEdits /\ edits' = edits + 1
    /\ \E s \in SpecsOf(kind) \ {cr.spec} :
        /\ ValidateUpdate(cr, s)
        /\ Store({}, [cr EXCEPT !.spec = s])
    /\ UNCHANGED <<kind, ext, cloud, pc, mem, cache, obs, faults, upgrades>>

UserDelete ==
    /\ cr.exists /\ ~cr.deleting
    /\ Store({}, IF cr.fin THEN [cr EXCEPT !.deleting = TRUE] ELSE [cr EXCEPT !.exists = FALSE])
    /\ UNCHANGED <<kind, ext, cloud, pc, mem, cache, obs, budgets>>

-----------------------------------------------------------------------------

Reconcile(w) ==
    \/ StartReconcile(w) \/ ObserveAbsent(w) \/ ObserveService(w) \/ AddFinalizer(w)
    \/ SetPending(w) \/ Create(w) \/ CriticalAnnotations(w) \/ Update(w) \/ Delete(w)
    \/ RemoveFinalizer(w) \/ WriteStatus(w)

Next ==
    \/ \E w \in Workers : Reconcile(w) \/ CallFails(w) \/ Crash(w) \/ CacheSync(w)
    \/ \E p \in Places : Provisioned(p) \/ Upgrade(p)
    \/ UserEdit \/ UserDelete

Spec == Init /\ [][Next]_vars

\* The poll interval of a minute starts reconciles again and again, calls return,
\* the watch delivers, and Exoscale finishes what it started.
Fairness ==
    /\ \A w \in Workers : WF_vars(Reconcile(w)) /\ WF_vars(CacheSync(w))
    /\ \A p \in Places : WF_vars(Provisioned(p))

FairSpec == Spec /\ Fairness

-----------------------------------------------------------------------------
(* Properties.                                                             *)

\* The service of the resource, where its controller looks for it.
Current == svc[Found(cr)]

\* The kind's webhook keeps zone and version fixed from the start.
FixedFromStart == kind \notin {"OpenSearch", "Redis"}

SameNames == kind # "PostgreSQL" \/ ext = "name"

BackupUnset == kind \in {"PostgreSQL", "MySQL"} /\ cr.spec.backup = None

\* An attempt to create ended without storing its outcome.
Stuck == cr.create = "pending" /\ \A w \in Workers : pc[w] \notin {"create", "critical"}

\* No worker is about to send an update.
NoUpdate == \A w \in Workers : pc[w] # "update"

\* The version Exoscale runs has another major number than the spec.
OtherMajor(s, service) ==
    kind \in {"PostgreSQL", "MySQL"} /\ ~CompareMajorVersion(s.version, service.version)

VersionOff == Current # None /\ OtherMajor(cr.spec, Current)

\* Whatever is edited, lost and retried, a resource that is gone has left no
\* service behind.
NoServiceLeft ==
    ~cr.exists /\ FixedFromStart /\ SameNames => \A p \in made : svc[p] = None

\* Update cannot raise the version of a service: the webhook, which knows only
\* the stored status, never lets the spec run ahead of the service itself.
DesiredNotAhead ==
    Current # None /\ cr.spec.version # None /\ FixedFromStart =>
        AtMost(cr.spec.version, Current.version)

\* A resource that says Running has a running service in the zone of its spec.
ReadyMeansUp ==
    cr.ready = "Running" /\ ~cr.deleting => Current # None /\ Current.up

\* The service has the parameters of a spec.
SameParameters(s, service) ==
    /\ IsSameStringSet(service.ips, s.ips)
    /\ service.setting = SetDefaults(s.setting)
    /\ kind # "OpenSearch" => service.tp = s.tp
    /\ kind \in {"PostgreSQL", "MySQL"} /\ s.backup # None =>
          service.backup = ToBackupSchedule(s.backup)

Applied == Current # None /\ SameParameters(cr.spec, Current)

\* The comparison through defaults, address sets and the notation of times is
\* right: a service reported up to date, with the schema of the settings or without,
\* has every parameter of the spec.
CurrentMeansApplied ==
    [][\A w \in Workers : obs[w] # "current" /\ obs'[w] = "current" =>
          LET service == svc[Found(mem[w])]
          IN /\ service # None
             /\ SameParameters(mem[w].spec, service)
             /\ ~OtherMajor(mem[w].spec, service)]_vars

\* A worker makes or changes a service, the one it addresses.
Requests(w) == pc[w] \in {"create", "update"} /\ pc'[w] # pc[w] /\ svc' # svc

Addressed(w) == IF pc[w] = "create" THEN CreatePlace(mem[w]) ELSE UpdatePlace(mem[w])

\* A request leaves nothing to compare: the service it made or changed does not
\* differ from the same spec when it is observed, unless the backup time is one that
\* the schedule does not give back, or the service runs another major version.
RequestsSuffice ==
    [][\A w \in Workers : Requests(w) /\ Canonical(mem[w].spec.backup) =>
          LET s == mem[w].spec
              service == svc'[Addressed(w)]
          IN "stale" \in Outcome(setSettingsDefaults(s), service) =>
                 OtherMajor(s, service)]_vars

\* Every admitted spec reaches Exoscale, unless the resource is deleted, has no
\* backup time, or an attempt to create it never reported back.
Converges ==
    cr.exists ~> Applied \/ cr.deleting \/ ~cr.exists \/ Stuck \/ BackupUnset

\* Updates come to an end, unless the backup time is one that Exoscale's schedule
\* does not give back, or the service runs another major version.
Settles ==
    <>[](NoUpdate \/ ~Canonical(cr.spec.backup) \/ BackupUnset \/ VersionOff)

\* A deleted resource goes away, unless its service is protected or an attempt
\* to create it never reported back.
DeletionEnds ==
    cr.deleting ~> ~cr.exists \/ Stuck \/ (Current # None /\ Current.tp)

(* What a database resource promises.                                      *)

\* The stored resource as module Lifecycle sees it.
Claim == IF cr.exists THEN IF cr.deleting THEN "deleting" ELSE "declared" ELSE "gone"

\* The service a resource made; the promise is about resources whose service stays
\* where the controller looks for it.
Tracked == FixedFromStart /\ SameNames

Thing == IF ~Tracked THEN "untracked"
         ELSE IF \E p \in made : svc[p] # None THEN "held" ELSE "none"

LC == INSTANCE Lifecycle
        WITH claim <- Claim, thing <- Thing,
             ready <- cr.exists /\ Tracked /\ cr.ready = "Running"

\* Between processes that die, retry and work on outdated copies a database
\* resource keeps the promise of a resource: its service is made while it exists,
\* taken away only in its deletion, and gone before it is.
ImplementsLifecycle == LC!Spec

(* What the documentation says and the code does not do.                   *)

\* dbaas_types.go on the time of backups: every time of the documented format is
\* applied once and for all.
EveryTimeSettles == <>[](NoUpdate \/ BackupUnset \/ VersionOff)
=============================================================================
