----------------------------- MODULE IAMPolicy ------------------------------
(***************************************************************************)
(* The policy of an IAM role (operator/iamkeycontroller/util.go), and what *)
(* it lets a key of the role do.  A request names an operation and the     *)
(* bucket it is about.                                                     *)
(***************************************************************************)
EXTENDS Naturals, Sequences

\* Operations on all buckets of the account.
Listing == {"list-sos-buckets-usage", "list-buckets"}

\* All other operations are alike to the rules.
Operations == Listing \cup {"any-other"}

Deny(when) == [action |-> "deny", when |-> when]
Allow(when) == [action |-> "allow", when |-> when]

\* The CEL expressions of the rules.
operationIn(set) == [test |-> "operation", set |-> set]
bucketIsNot(b) == [test |-> "bucket", set |-> {b}]
always == [test |-> "true", set |-> {}]

denyOthers(buckets) == [i \in DOMAIN buckets |-> Deny(bucketIsNot(buckets[i]))]

\* Mutant: the rule that allows comes before those about buckets.
createRoleAllowFirst(buckets) ==
    <<Deny(operationIn(Listing)), Allow(always)>> \o denyOthers(buckets)

\* The rules of the service sos; every other service is denied by default.
createRole(buckets) ==
    <<Deny(operationIn(Listing))>> \o denyOthers(buckets) \o <<Allow(always)>>

Matches(rule, operation, bucket) ==
    \/ rule.when.test = "operation" /\ operation \in rule.when.set
    \/ rule.when.test = "bucket" /\ bucket \notin rule.when.set
    \/ rule.when.test = "true"

\* The first rule that matches decides; a request that none matches is denied.
Permits(rules, operation, bucket) ==
    \E i \in DOMAIN rules :
        /\ rules[i].action = "allow"
        /\ Matches(rules[i], operation, bucket)
        /\ \A j \in 1 .. i - 1 : ~Matches(rules[j], operation, bucket)
=============================================================================
