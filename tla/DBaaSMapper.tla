---------------------------- MODULE DBaaSMapper ----------------------------
(***************************************************************************)
(* What the DBaaS controllers share: operator/mapper, operator/webhook,    *)
(* internal/settings and the value types of apis/exoscale/v1.              *)
(*                                                                         *)
(* A version is a record of two numbers, a time of day one of its parts    *)
(* and of the digits its hour is written with; None stands for the empty   *)
(* string.  One setting stands for the plan, the maintenance window and    *)
(* the JSON settings, which all are sent and compared in the same way;     *)
(* None is a setting left to its default.                                  *)
(***************************************************************************)
EXTENDS Naturals

CONSTANTS
    None,       \* the empty string, a missing value
    Default     \* the default of the setting in Exoscale's schema

Version(major, minor) == [major |-> major, minor |-> minor]

AtMost(v, w) == \/ v.major < w.major
                \/ v.major = w.major /\ v.minor <= w.minor

CompareMajorVersion(a, b) == a # None /\ b # None /\ a.major = b.major

\* Version of a new resource: one Exoscale offers.
ValidateVersions(wanted, admitted) == wanted # None /\ wanted \in admitted

\* Mutant: raising the version is always admitted.
ValidateUpdateVersionParsed(oldObs, oldDes, newDes) ==
    oldObs # None /\ oldDes # None /\ newDes # None

\* Change of a version: none of the three may be empty, and a newer version than
\* the desired one must not be newer than the observed one.
ValidateUpdateVersion(oldObs, oldDes, newDes) ==
    /\ oldObs # None /\ oldDes # None /\ newDes # None
    /\ AtMost(newDes, oldDes) \/ AtMost(newDes, oldObs)

TimeOfDay(hour, minute, second, digits) ==
    [hour |-> hour, minute |-> minute, second |-> second, digits |-> digits]

\* Parse: the empty string is the only value the CRD's pattern lets through that
\* cannot be parsed.
Parsed(t) == t # None

ToBackupSchedule(t) == [hour |-> t.hour, minute |-> t.minute]

\* Mutant: the hour is written without a leading zero.
ToBackupSpecShort(s) == IF s = None THEN None ELSE TimeOfDay(s.hour, s.minute, 0, 1)

\* "%02d:%02d:00".
ToBackupSpec(s) == IF s = None THEN None ELSE TimeOfDay(s.hour, s.minute, 0, 2)

\* What Parse and ToBackupSpec keep of a time.
Canonical(t) == t = None \/ (t.second = 0 /\ t.digits = 2)

elements(seq) == {seq[i] : i \in DOMAIN seq}

IsSameStringSet(a, b) == elements(a) = elements(b)

SetDefaults(setting) == IF setting = None THEN Default ELSE setting
=============================================================================
