----------------------------- MODULE MCSettings -----------------------------
\* Schemas like those of schema_test.go: flat ones, and one with two levels of
\* objects; a is a scalar, o an object or a scalar, x a key no schema has.
EXTENDS Settings

CONSTANTS byDefault, byUser

leaf(default) == [default |-> default, properties |-> NoKeys]

node(properties) == [default |-> Null, properties |-> properties]

flat == node([k \in {"a", "o"} |-> IF k = "a" THEN leaf(Scalar(byDefault)) ELSE leaf(Null)])

flatWithText == node([k \in {"a", "o"} |->
    IF k = "a" THEN leaf(Scalar(byDefault)) ELSE leaf(Scalar(NullText))])

nested == node([k \in {"a", "o"} |->
    IF k = "a" THEN leaf(Scalar(byDefault))
    ELSE node([j \in {"a", "o"} |->
            IF j = "a" THEN leaf(Scalar(byDefault)) ELSE node([i \in {"a"} |-> leaf(Scalar(byDefault))])])])

nestedBare == node([k \in {"a", "o"} |->
    IF k = "a" THEN leaf(Null) ELSE node([j \in {"a"} |-> leaf(Null)])])

MCSchemas == {flat, flatWithText, nested, nestedBare}

inner == {Object(NoKeys), Object([k \in {"a"} |-> Scalar(byUser)]),
          Object([k \in {"o"} |-> Scalar(byUser)]),
          Object([k \in {"o"} |-> Object([j \in {"x"} |-> Scalar(byUser)])])}

choices == [a |-> {Missing, Null, Scalar(byUser), Scalar(byDefault)},
            o |-> {Missing, Null, Scalar(byUser)} \cup inner,
            x |-> {Missing, Null, Scalar(byUser)}]

MCRaws ==
    {Bytes("empty"), Bytes("malformed")}
    \cup {Object([k \in {j \in {"a", "o", "x"} : f[j] # Missing} |-> f[k]]) :
            f \in {g \in [{"a", "o", "x"} -> UNION {choices[k] : k \in {"a", "o", "x"}}] :
                        \A k \in {"a", "o", "x"} : g[k] \in choices[k]}}
=============================================================================
