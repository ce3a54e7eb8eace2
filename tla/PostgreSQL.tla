----------------------------- MODULE PostgreSQL -----------------------------
(* operator/postgresqlcontroller: what it asks of Exoscale, compares and     *)
(* admits.  cur is the spec of the resource, s the service in Exoscale.      *)
EXTENDS DBaaSMapper

\* The webhook.
validateSpec(new) == new.ips # <<>>

ValidateCreate(new, admitted) ==
    ValidateVersions(new.version, admitted) /\ validateSpec(new)

compareVersion(old, new) ==
    \/ new.version = old.spec.version
    \/ ValidateUpdateVersion(old.stVersion,
                             IF old.spec.version = None THEN old.stVersion
                                                        ELSE old.spec.version,
                             new.version)

\* Mutant: the zone may change.
validateImmutableVersion(old, new) == compareVersion(old, new)

validateImmutable(old, new) == new.zone = old.spec.zone /\ compareVersion(old, new)

ValidateUpdate(old, new) == validateSpec(new) /\ validateImmutable(old, new)

\* Create and Update address the service by the name of the resource, Observe
\* and Delete by its external name.
CreateName(name, ext) == name

UpdateName(name, ext) == name

ServiceName(name, ext) == ext

\* Requests; None when the spec cannot be mapped to one.
fromSpecToCreateBody(cur) ==
    IF ~Parsed(cur.backup) THEN None
    ELSE [ips |-> cur.ips, setting |-> cur.setting, tp |-> cur.tp,
          backup |-> ToBackupSchedule(cur.backup), version |-> cur.version]

fromSpecToUpdateBody(cur) ==
    IF ~Parsed(cur.backup) THEN None
    ELSE [ips |-> cur.ips, setting |-> cur.setting, tp |-> cur.tp,
          backup |-> ToBackupSchedule(cur.backup)]

toBackupSpec(s) == ToBackupSpec(s)

mapParameters(s) == [s EXCEPT !.backup = toBackupSpec(s.backup)]

isUpToDate(cur, ext) ==
    /\ IsSameStringSet(cur.ips, ext.ips)
    /\ CompareMajorVersion(cur.version, ext.version)
    /\ cur.backup = ext.backup
    /\ cur.tp = ext.tp
    /\ cur.setting = ext.setting

\* A service without a URI has no details yet, which is no error.
connectionDetails(s) == {"read"}

\* What Observe may report.
Observe(cur, s) ==
    LET report == IF isUpToDate(cur, mapParameters(s)) THEN "current" ELSE "stale"
    IN {IF c = "read" THEN report ELSE c : c \in connectionDetails(s)}
=============================================================================
