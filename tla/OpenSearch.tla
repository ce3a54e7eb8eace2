----------------------------- MODULE OpenSearch -----------------------------
(* operator/opensearchcontroller: what it asks of Exoscale, compares and     *)
(* admits.  cur is the spec of the resource, s the service in Exoscale.      *)
EXTENDS DBaaSMapper

\* The webhook compares nothing until the resource has a Ready condition.
validateSpec(new) == new.ips # <<>>

ValidateCreate(new, admitted) ==
    ValidateVersions(new.version, admitted) /\ validateSpec(new)

compareVersion(old, new) ==
    \/ new.version = old.spec.version
    \/ ValidateUpdateVersion(old.stVersion,
                             IF old.spec.version = None THEN old.stVersion
                                                        ELSE old.spec.version,
                             new.version)

isCreated(old) == old.ready # "none"

compare(old, new) ==
    isCreated(old) => new.zone = old.spec.zone /\ compareVersion(old, new)

ValidateUpdate(old, new) == validateSpec(new) /\ compare(old, new)

\* Every call addresses the service by the external name of the resource.
ServiceName(name, ext) == ext

\* Requests.
createBody(cur) ==
    [ips |-> cur.ips, setting |-> cur.setting, tp |-> cur.tp, backup |-> None,
     version |-> cur.version]

updateBody(cur) ==
    [ips |-> cur.ips, setting |-> cur.setting, tp |-> cur.tp, backup |-> None]

\* The parameters Observe compares: termination protection is not among them.
mapParameters(s) == [ips |-> s.ips, setting |-> s.setting]

isUpToDate(cur, ext) ==
    /\ IsSameStringSet(cur.ips, ext.ips)
    /\ cur.setting = ext.setting

\* A pointer is dereferenced that is nil while the service has no connection
\* information, which Exoscale may add before the service runs.
connectionDetails(s) == IF s.up THEN {"read"} ELSE {"read", "panic"}

\* What Observe may report.
Observe(cur, s) ==
    LET report == IF isUpToDate(cur, mapParameters(s)) THEN "current" ELSE "stale"
    IN {IF c = "read" THEN report ELSE c : c \in connectionDetails(s)}
=============================================================================
