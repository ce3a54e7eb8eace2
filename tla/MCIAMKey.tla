------------------------------ MODULE MCIAMKey ------------------------------
(* Instances of IAMKey for TLC. *)
EXTENDS IAMKeyGrants, TLC

\* Unused IDs are interchangeable, so that any one of them may be the next.
OneOf(S) == IF S = {} THEN {} ELSE {CHOOSE x \in S : TRUE}

MCBuckets == {"b1", "b2", "b3"}
none == <<>>
single == {<<>>, <<"b1">>}
double == {<<>>, <<"b1">>, <<"b1", "b2">>}

Symmetry == Permutations(Workers)
=============================================================================
