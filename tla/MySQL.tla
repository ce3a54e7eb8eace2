-------------------------------- MODULE MySQL -------------------------------
(* operator/mysqlcontroller: what it asks of Exoscale, compares and          *)
(* admits.  cur is the spec of the resource, s the service in Exoscale.      *)
EXTENDS DBaaSMapper

\* The webhook.
validateSpec(new) == new.ips # <<>>

ValidateCreate(new, admitted) ==
    ValidateVersions(new.version, admitted) /\ validateSpec(new)

compareVersion(old, new) ==
    \/ new.version = old.spec.version
    \/ ValidateUpdateVersion(old.stVersion,
                             IF old.spec.version = None THEN old.stVersion
                                                        ELSE old.spec.version,
                             new.version)

validateImmutable(old, new) == new.zone = old.spec.zone /\ compareVersion(old, new)

ValidateUpdate(old, new) == validateSpec(new) /\ validateImmutable(old, new)

\* Every call addresses the service by the external name of the resource.
ServiceName(name, ext) == ext

\* Mutant: the time of backups is sent as it is written.
createBodyUnconverted(cur) ==
    IF ~Parsed(cur.backup) THEN None
    ELSE [ips |-> cur.ips, setting |-> cur.setting, tp |-> cur.tp,
          backup |-> cur.backup, version |-> cur.version]

\* Requests; None when the spec cannot be mapped to one.
createBody(cur) ==
    IF ~Parsed(cur.backup) THEN None
    ELSE [ips |-> cur.ips, setting |-> cur.setting, tp |-> cur.tp,
          backup |-> ToBackupSchedule(cur.backup), version |-> cur.version]

updateBody(cur) ==
    IF ~Parsed(cur.backup) THEN None
    ELSE [ips |-> cur.ips, setting |-> cur.setting, tp |-> cur.tp,
          backup |-> ToBackupSchedule(cur.backup)]

toBackupSpec(s) == ToBackupSpec(s)

mapParameters(s) == [s EXCEPT !.backup = toBackupSpec(s.backup)]

isUpToDate(cur, ext) ==
    /\ cur.backup = ext.backup
    /\ CompareMajorVersion(cur.version, ext.version)
    /\ IsSameStringSet(cur.ips, ext.ips)
    /\ cur.tp = ext.tp
    /\ cur.setting = ext.setting

\* A service without a URI has no details yet, which is no error.
connectionDetails(s) == {"read"}

\* What Observe may report.
Observe(cur, s) ==
    LET report == IF isUpToDate(cur, mapParameters(s)) THEN "current" ELSE "stale"
    IN {IF c = "read" THEN report ELSE c : c \in connectionDetails(s)}
=============================================================================
