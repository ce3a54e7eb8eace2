------------------------------- MODULE Redis -------------------------------
(* operator/rediscontroller: what it asks of Exoscale, compares and admits.  *)
(* cur is the spec of the resource, s the service in Exoscale.               *)
EXTENDS DBaaSMapper

\* The webhook: there is no version, and nothing is compared until the resource
\* has a Ready condition.
validateSpec(new) == new.ips # <<>>

ValidateCreate(new, admitted) == validateSpec(new)

isCreated(old) == old.ready # "none"

compare(old, new) == isCreated(old) => new.zone = old.spec.zone

ValidateUpdate(old, new) == validateSpec(new) /\ compare(old, new)

\* Every call addresses the service by the external name of the resource.
ServiceName(name, ext) == ext

\* Requests.
createBody(cur) ==
    [ips |-> cur.ips, setting |-> cur.setting, tp |-> cur.tp, backup |-> None,
     version |-> None]

updateBody(cur) ==
    [ips |-> cur.ips, setting |-> cur.setting, tp |-> cur.tp, backup |-> None]

mapParameters(s) == [ips |-> s.ips, setting |-> s.setting, tp |-> s.tp]

\* Mutant: termination protection is not compared.
isUpToDateUnprotected(cur, ext) ==
    IsSameStringSet(cur.ips, ext.ips) /\ cur.setting = ext.setting

isUpToDate(cur, ext) ==
    /\ IsSameStringSet(cur.ips, ext.ips)
    /\ cur.tp = ext.tp
    /\ cur.setting = ext.setting

\* A service without a URI has no details yet, which is no error.
connectionDetails(s) == {"read"}

\* What Observe may report.
Observe(cur, s) ==
    LET report == IF isUpToDate(cur, mapParameters(s)) THEN "current" ELSE "stale"
    IN {IF c = "read" THEN report ELSE c : c \in connectionDetails(s)}
=============================================================================
