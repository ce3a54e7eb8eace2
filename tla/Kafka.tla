------------------------------- MODULE Kafka -------------------------------
(* operator/kafkacontroller: what it asks of Exoscale, compares and admits. *)
(* cur is the spec of the resource, s the service in Exoscale.              *)
EXTENDS DBaaSMapper

\* The webhook; a new resource need not have a version.
validateSpec(new) == new.ips # <<>>

ValidateCreate(new, admitted) ==
    (new.version # None => ValidateVersions(new.version, admitted)) /\ validateSpec(new)

compareVersion(old, new) ==
    \/ new.version = old.spec.version
    \/ ValidateUpdateVersion(old.stVersion,
                             IF old.spec.version = None THEN old.stVersion
                                                        ELSE old.spec.version,
                             new.version)

validateImmutable(old, new) == new.zone = old.spec.zone /\ compareVersion(old, new)

ValidateUpdate(old, new) == validateSpec(new) /\ validateImmutable(old, new)

\* Every call addresses the service by the external name of the resource.
ServiceName(name, ext) == ext

\* Requests.
createBody(cur) ==
    [ips |-> cur.ips, setting |-> cur.setting, tp |-> cur.tp, backup |-> None,
     version |-> cur.version]

updateBody(cur) ==
    [ips |-> cur.ips, setting |-> cur.setting, tp |-> cur.tp, backup |-> None]

\* Everything but zone and version is compared, the addresses in their order.
diffParameters(s, expected) ==
    /\ s.ips = expected.ips
    /\ s.tp = expected.tp
    /\ s.setting = expected.setting

\* A service without connection information cannot be observed; Exoscale may add
\* the information before the service runs.
getConnectionDetails(s) == IF s.up THEN {"read"} ELSE {"read", "error"}

\* What Observe may report.
Observe(cur, s) ==
    LET report == IF diffParameters(s, cur) THEN "current" ELSE "stale"
    IN {IF c = "read" THEN report ELSE c : c \in getConnectionDetails(s)}
=============================================================================
