------------------------------ MODULE MCDBaaS ------------------------------
(* Instances of DBaaS for TLC. *)
EXTENDS DBaaSInv, TLC

CONSTANTS z1, z2    \* zones

v14 == [major |-> 14, minor |-> 0]
v15 == [major |-> 15, minor |-> 0]
v15p1 == [major |-> 15, minor |-> 1]

MCVersions == {v14, v15, v15p1}
MCMajors == {v14, v15}
MCOneVersion == {v14}

\* Half past ten, written so that the schedule gives it back, and so that it
\* does not.
exact == [hour |-> 10, minute |-> 30, second |-> 0, digits |-> 2]
odd == [hour |-> 10, minute |-> 30, second |-> 5, digits |-> 2]

Product(zones, ips, settings, protections, backups, versions) ==
    [zone: zones, ips: ips, setting: settings, tp: protections, backup: backups,
     version: versions]

ab == <<"a", "b">>
ba == <<"b", "a">>

\* Zones, versions and names change.
MCMoves == Product({z1, z2}, {ab}, {None}, {FALSE}, {None, exact}, {None, v14, v15})

\* One parameter changes, or the addresses are only reordered; those of Redis, and
\* those of OpenSearch, which both are parameters of Kafka.
MCParameters ==
    Product({z1}, {ab, ba}, {None}, {FALSE}, {exact}, {v14})
    \cup Product({z1}, {ab}, {"x"}, {FALSE}, {exact}, {v14})
    \cup Product({z1}, {<<>>, ba, <<"c">>}, {None}, {FALSE}, {None}, {None})
    \cup Product({z1}, {ba}, {None}, {TRUE}, {None}, {None})
    \cup Product({z1}, {ba}, {None}, {FALSE}, {None}, {v14})
    \cup Product({z1}, {<<"c">>}, {None}, {TRUE}, {None}, {v14})

\* Backup times of one service.
MCTimes == Product({z1}, {ab}, {None}, {FALSE}, {exact, odd}, {v14})

\* Zones are interchangeable.
Symmetry == Permutations({z1, z2})
=============================================================================
