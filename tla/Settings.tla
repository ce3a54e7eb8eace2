------------------------------ MODULE Settings ------------------------------
(***************************************************************************)
(* The JSON settings of a DBaaS: how the webhook admits them, how          *)
(* internal/settings completes them with the defaults of Exoscale's schema *)
(* and how operator/mapper compares them with what the service reports.    *)
(* DBaaS treats this as one setting that is given or left to its default;  *)
(* here it is the tree that json.Unmarshal makes of it.                    *)
(*                                                                         *)
(* A value is a record: a scalar, null, or an object with a function from  *)
(* keys to values.  A RawExtension is such a value, or has no bytes, or    *)
(* bytes that are not a JSON object.  The bytes "null" never get into a    *)
(* spec, RawExtension.UnmarshalJSON drops them.                            *)
(***************************************************************************)
EXTENDS Naturals, FiniteSets, SequencesExt

CONSTANTS
    Schemas,        \* the schemas Exoscale may have for the settings
    Names,          \* the names under which settings are looked up
    Raws,           \* what a user may write
    NullText,       \* the scalar "null" (a string)
    Depth,          \* longest path of keys of a schema or a value
    MaxFaults,      \* schemas that cannot be fetched
    MaxEdits        \* edits of the spec

VARIABLES
    schema,     \* Exoscale's schema of these settings
    name,       \* the name the controller looks up
    published,  \* the schemas GetDBAASSettings answers with
    spec,       \* the settings in the spec of the resource
    service,    \* the settings of the service, as JSON
    verdict,    \* what the last Observe found of them, "none" before
    faults,     \* failed requests so far
    edits       \* edits so far

vars == <<schema, name, published, spec, service, verdict, faults, edits>>

Scalar(x) == [is |-> "scalar", value |-> x]

Null == [is |-> "null"]

Object(f) == [is |-> "object", map |-> f]

Bytes(what) == [is |-> what]    \* "empty" or "malformed"

NoKeys == [k \in {} |-> Null]

-----------------------------------------------------------------------------
\* operator/mapper

\* The set of the maps ToMap returns without an error: one or none.  A map that
\* is nil, from the bytes "null", reads like an empty one.
ToMap(raw) ==
    CASE raw.is = "object" -> {raw.map}
      [] raw.is \in {"empty", "null"} -> {NoKeys}
      [] OTHER -> {}

\* Mutant: the number of keys is not compared.
CompareSettingsOneWay(a, b) ==
    IF \E sa \in ToMap(a), sb \in ToMap(b) :
            \A k \in DOMAIN sa : k \in DOMAIN sb /\ sb[k] = sa[k]
    THEN {"same"}
    ELSE {"differs"}

\* The outcomes of CompareSettings: the keys are visited in an unknown order, the
\* first one that differs decides, and != panics when it compares two maps.  A key
\* that b lacks reads as nil.
CompareMaps(sa, sb) ==
    LET at(k) == IF k \in DOMAIN sb THEN sb[k] ELSE Null
        maps == {k \in DOMAIN sa : sa[k].is = "object" /\ at(k).is = "object"}
        differ == {k \in DOMAIN sa \ maps : sa[k] # at(k)}
    IN  IF Cardinality(DOMAIN sa) # Cardinality(DOMAIN sb) THEN {"differs"}
        ELSE IF maps \cup differ = {} THEN {"same"}
        ELSE (IF maps # {} THEN {"panic"} ELSE {}) \cup (IF differ # {} THEN {"differs"} ELSE {})

CompareSettings(a, b) ==
    IF ToMap(a) = {} \/ ToMap(b) = {}
    THEN {"differs"}
    ELSE UNION {CompareMaps(sa, sb) : sa \in ToMap(a), sb \in ToMap(b)}

-----------------------------------------------------------------------------
\* operator/webhook: only scalars.

ValidateRawExtension(raw) ==
    \E m \in ToMap(raw) : \A k \in DOMAIN m : m[k].is = "scalar"

\* Which settings are validated: those of the REST proxy of Kafka are not.
Validated(raw) == name # "kafka-rest" => ValidateRawExtension(raw)

-----------------------------------------------------------------------------
\* internal/settings

\* Mutant: the text "null" is a default as any other.
HasDefaultAny(val) == val.default # Null

HasDefault(val) == val.default \notin {Null, Scalar(NullText)}

\* Mutant: a value that is no object is replaced.
submapReplacing(input, key) ==
    IF key \in DOMAIN input /\ input[key].is = "object" THEN {input[key].map} ELSE {NoKeys}

\* The set of the maps to complete: none when the value is no object.
submap(input, key) ==
    IF key \notin DOMAIN input THEN {NoKeys}
    ELSE IF input[key].is = "object" THEN {input[key].map} ELSE {}

\* What input becomes, and whether a default was set in it.
RECURSIVE setDefaults(_, _)
setDefaults(sc, input) ==
    LET nested == {k \in DOMAIN sc.properties : DOMAIN sc.properties[k].properties # {}}
        leaves == DOMAIN sc.properties \ nested
        results == [k \in nested |-> {setDefaults(sc.properties[k], m) : m \in submap(input, k)}]
        objects == {k \in nested : \E r \in results[k] : r.hasSetDefaults}
        values == {k \in leaves \ DOMAIN input : HasDefault(sc.properties[k])}
    IN  [hasSetDefaults |-> objects \cup values # {},
         map |-> [k \in DOMAIN input \cup objects \cup values |->
                    CASE k \in objects -> Object((CHOOSE r \in results[k] : TRUE).map)
                      [] k \in values -> sc.properties[k].default
                      [] OTHER -> input[k]]]

\* The set of the settings SetDefaults returns without an error.
SetDefaults(schemas, n, input) ==
    {Object(setDefaults(schemas[x], m).map) : x \in DOMAIN schemas \cap {n}, m \in ToMap(input)}

-----------------------------------------------------------------------------
\* Exoscale and its SDK

\* json.Unmarshal into the struct of the SDK: fields it does not have and null are
\* dropped, an object in place of a scalar or the reverse is an error.
RECURSIVE Fits(_, _)
Fits(sc, m) ==
    \A k \in DOMAIN m \cap DOMAIN sc.properties :
        LET val == sc.properties[k] IN
        \/ m[k] = Null
        \/ DOMAIN val.properties = {} /\ m[k].is = "scalar"
        \/ DOMAIN val.properties # {} /\ m[k].is = "object" /\ Fits(val, m[k].map)

\* The settings in effect: what was given, and the defaults of what was not.
RECURSIVE Effective(_, _)
Effective(sc, m) ==
    LET given == {k \in DOMAIN m \cap DOMAIN sc.properties : m[k] # Null}
        inner(k) == Effective(sc.properties[k],
                              IF k \in given THEN m[k].map ELSE NoKeys)
        nested == {k \in DOMAIN sc.properties :
                        /\ DOMAIN sc.properties[k].properties # {}
                        /\ k \in given \/ DOMAIN inner(k) # {}}
        preset == {k \in DOMAIN sc.properties \ given :
                        /\ DOMAIN sc.properties[k].properties = {}
                        /\ sc.properties[k].default \notin {Null, Scalar(NullText)}}
    IN  [k \in given \cup nested \cup preset |->
            IF k \in nested THEN Object(inner(k))
            ELSE IF k \in given THEN m[k] ELSE sc.properties[k].default]

-----------------------------------------------------------------------------
\* The resource is admitted, and the service made from its settings.
Init ==
    /\ schema \in Schemas
    /\ name \in Names
    /\ published \in {[n \in {name} |-> schema], [n \in {} |-> schema]}
    /\ spec \in {raw \in Raws : Validated(raw)}
    /\ \E m \in ToMap(spec) :
            Fits(schema, m) /\ service = Object(Effective(schema, m))
    /\ verdict = "none"
    /\ faults = 0
    /\ edits = 0

\* The comparison of isUpToDate, of the settings with their defaults or as they are.
Compare(settings) ==
    /\ \E raw \in settings : verdict' \in CompareSettings(raw, service)
    /\ UNCHANGED <<schema, name, published, spec, service, edits>>

\* setSettingsDefaults; when it fails the settings are compared as they are.
Observe ==
    /\ \E defaulted \in {SetDefaults(published, name, spec)} :
            Compare(IF defaulted = {} THEN {spec} ELSE defaulted)
    /\ UNCHANGED faults

\* The schema cannot be fetched or parsed.
ObserveWithoutSchema ==
    faults < MaxFaults /\ faults' = faults + 1 /\ Compare({spec})

\* Update sends the settings of the spec, without the defaults; settings that do
\* not fit the SDK's struct are an error.
Update ==
    /\ verdict = "differs"
    /\ verdict' = "none"
    /\ service' = IF \E m \in ToMap(spec) : Fits(schema, m)
                  THEN Object(Effective(schema, CHOOSE m \in ToMap(spec) : TRUE))
                  ELSE service
    /\ UNCHANGED <<schema, name, published, spec, faults, edits>>

UserEdit ==
    /\ edits < MaxEdits
    /\ \E raw \in Raws : Validated(raw) /\ spec' = raw
    /\ edits' = edits + 1
    /\ verdict' = "none"
    /\ UNCHANGED <<schema, name, published, service, faults>>

Next == Observe \/ ObserveWithoutSchema \/ Update \/ UserEdit

\* A resource is reconciled again and again, at the latest every poll interval.
FairSpec == Init /\ [][Next]_vars /\ WF_vars(Observe \/ Update)

-----------------------------------------------------------------------------
\* Paths of keys, the reference for defaults in nested settings.

Missing == [is |-> "missing"]

Keys == UNION ({DOMAIN sc.properties : sc \in Schemas}
               \cup UNION {{DOMAIN m : m \in ToMap(raw)} : raw \in Raws})

Paths == UNION {[1..n -> Keys] : n \in 1..Depth}

At(value, path) ==
    FoldLeft(LAMBDA v, k : IF v.is = "object" /\ k \in DOMAIN v.map THEN v.map[k] ELSE Missing,
             value, path)

\* The leaf of the schema at a path, as a set.
Leaf(path) ==
    {sc \in FoldLeft(LAMBDA nodes, k : {sc.properties[k] :
                            sc \in {x \in nodes : k \in DOMAIN x.properties}},
                     {schema}, path) : DOMAIN sc.properties = {}}

DefaultAt(path) == {sc.default : sc \in Leaf(path)} \ {Null, Scalar(NullText)}

\* A path is blocked when the user gave something else than an object on the way.
Blocked(given, path) ==
    \E n \in 1..Len(path) : At(given, SubSeq(path, 1, n)).is \in {"scalar", "null"}

\* What a path of the completed settings holds.
Expected(given, path) ==
    LET below == UNION {{path \o q : q \in [1..n -> Keys]} : n \in 1..Depth - Len(path)}
    IN  IF At(given, path) # Missing THEN {At(given, path)}
        ELSE IF Blocked(given, path) THEN {Missing}
        ELSE IF DefaultAt(path) # {} THEN DefaultAt(path)
        ELSE IF \E p \in below : DefaultAt(p) # {} THEN {Bytes("object")}
        ELSE {Missing}

\* Completing settings (schema.go) gives, path by path, the value the user gave,
\* else the default of the schema there, unless the user put a scalar where the
\* schema has an object; objects appear only around a default.
DefaultsByPath ==
    \A m \in ToMap(spec) :
        LET given == Object(m)
            out == Object(setDefaults(schema, m).map)
        IN  \A p \in Paths : \E e \in Expected(given, p) :
                IF e.is = "object" THEN At(out, p).is = "object" ELSE At(out, p) = e

\* A scalar at the keys of the schema's first level and nothing else: what the SDK's
\* struct and != can deal with.
Regular ==
    /\ \A k \in DOMAIN schema.properties : DOMAIN schema.properties[k].properties = {}
    /\ name \in DOMAIN published
    /\ ValidateRawExtension(spec)
    /\ \A m \in ToMap(spec) : DOMAIN m \subseteq DOMAIN schema.properties

\* Settings of which Observe says that they are up to date are the ones in effect
\* (dbaas.go): no key is missing on either side and none has another value.  It is
\* the webhook that keeps null out, which reads like a missing key.
UpToDateMeansSame ==
    verdict = "same" /\ ValidateRawExtension(spec) =>
        \E m \in ToMap(spec) : service.map = Effective(schema, m)

\* For flat settings with keys the schema knows the comparison ends the updates:
\* from some time on every Observe finds them up to date.
SettingsSettle == <>[](Regular => verdict = "same")
=============================================================================
