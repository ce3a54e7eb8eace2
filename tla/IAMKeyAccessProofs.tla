------------------------ MODULE IAMKeyAccessProofs --------------------------
(***************************************************************************)
(* What a key of an IAMKey opens, for every list of buckets: the meaning   *)
(* of the rules that createRole makes, and with the invariants of module   *)
(* IAMKeyInv the property KeyOpensListed.                                  *)
(***************************************************************************)
EXTENDS IAMKeyGrantProofs, IAMKeyGrants, SequenceTheorems

\* A sequence between two single elements.
LEMMA Enclosed ==
    ASSUME NEW R, NEW mid \in Seq(R), NEW first \in R, NEW last \in R
    PROVE  LET all == <<first>> \o mid \o <<last>>
           IN /\ all \in Seq(R)
              /\ Len(all) = Len(mid) + 2
              /\ all[1] = first
              /\ \A i \in 1 .. Len(mid) : all[i + 1] = mid[i]
              /\ all[Len(mid) + 2] = last
<1> DEFINE f == <<first>>
           l == <<last>>
<1>1. f \in Seq(R) /\ l \in Seq(R) /\ Len(f) = 1 /\ Len(l) = 1 /\ f[1] = first /\ l[1] = last
  OBVIOUS
<1>2. Len(mid) \in Nat  OBVIOUS
<1> HIDE DEF f, l
<1>3. /\ f \o mid \in Seq(R)
      /\ Len(f \o mid) = Len(f) + Len(mid)
      /\ \A i \in 1 .. Len(f) + Len(mid) :
            (f \o mid)[i] = IF i <= Len(f) THEN f[i] ELSE mid[i - Len(f)]
  BY <1>1, ConcatProperties
<1> DEFINE fm == f \o mid
<1> HIDE DEF fm
<1>4. fm \in Seq(R) /\ Len(fm) = Len(mid) + 1
  BY <1>1, <1>2, <1>3 DEF fm
<1>5. fm[1] = first  BY <1>1, <1>2, <1>3 DEF fm
<1>6. ASSUME NEW i \in 1 .. Len(mid)  PROVE fm[i + 1] = mid[i]
  <2>1. i + 1 \in 1 .. Len(f) + Len(mid) /\ ~(i + 1 <= Len(f)) /\ (i + 1) - Len(f) = i
    BY <1>1, <1>2
  <2>2. (f \o mid)[i + 1] = mid[(i + 1) - Len(f)]  BY <1>3, <2>1
  <2> QED  BY <2>1, <2>2 DEF fm
<1>7. /\ fm \o l \in Seq(R)
      /\ Len(fm \o l) = Len(fm) + Len(l)
      /\ \A i \in 1 .. Len(fm) + Len(l) :
            (fm \o l)[i] = IF i <= Len(fm) THEN fm[i] ELSE l[i - Len(fm)]
  BY <1>1, <1>4, ConcatProperties
<1> DEFINE all == fm \o l
<1> HIDE DEF all
<1>8. all \in Seq(R) /\ Len(all) = Len(mid) + 2  BY <1>1, <1>2, <1>4, <1>7 DEF all
<1>9. ASSUME NEW i \in 1 .. Len(mid) + 1  PROVE all[i] = fm[i]
  <2>1. i \in 1 .. Len(fm) + Len(l) /\ i <= Len(fm)  BY <1>1, <1>2, <1>4
  <2> QED  BY <1>7, <2>1 DEF all
<1>10. all[Len(mid) + 2] = last
  <2>1. /\ Len(mid) + 2 \in 1 .. Len(fm) + Len(l) /\ ~(Len(mid) + 2 <= Len(fm))
        /\ (Len(mid) + 2) - Len(fm) = 1
    BY <1>1, <1>2, <1>4
  <2> QED  BY <1>1, <1>7, <2>1 DEF all
<1>11. all[1] = first  BY <1>2, <1>5, <1>9
<1>12. ASSUME NEW i \in 1 .. Len(mid)  PROVE all[i + 1] = mid[i]
  <2>1. i + 1 \in 1 .. Len(mid) + 1  BY <1>2
  <2> QED  BY <1>6, <1>9, <2>1
<1> QED  BY <1>8, <1>10, <1>11, <1>12 DEF all, fm, f, l

\* The rules of a role, one by one: listing is denied, then every bucket but the
\* one, for each bucket of the list, and what is left is allowed.
LEMMA RulesOfRole ==
    ASSUME NEW list \in Seq(Buckets)
    PROVE  /\ DOMAIN createRole(list) = 1 .. Len(list) + 2
           /\ createRole(list)[1] = Deny(operationIn(Listing))
           /\ \A i \in 1 .. Len(list) : createRole(list)[i + 1] = Deny(bucketIsNot(list[i]))
           /\ createRole(list)[Len(list) + 2] = Allow(always)
<1> DEFINE first == Deny(operationIn(Listing))
           last == Allow(always)
           R == {Deny(bucketIsNot(b)) : b \in Buckets} \cup {first, last}
           mid == denyOthers(list)
<1>1. /\ mid \in Seq(R) /\ Len(mid) = Len(list)
      /\ \A i \in 1 .. Len(list) : mid[i] = Deny(bucketIsNot(list[i]))
  <2>1. DOMAIN list = 1 .. Len(list) /\ Len(list) \in Nat  OBVIOUS
  <2>2. \A i \in 1 .. Len(list) : list[i] \in Buckets  OBVIOUS
  <2>3. mid = [i \in 1 .. Len(list) |-> Deny(bucketIsNot(list[i]))]
    BY <2>1 DEF denyOthers
  <2>4. mid \in [1 .. Len(list) -> R]  BY <2>2, <2>3
  <2>5. mid \in Seq(R)  BY <2>1, <2>4
  <2> QED  BY <2>1, <2>3, <2>5
<1>2. first \in R /\ last \in R  OBVIOUS
<1> DEFINE all == <<first>> \o mid \o <<last>>
<1>3. createRole(list) = all  BY DEF createRole
<1> HIDE DEF first, last, mid, R
<1>4. /\ all \in Seq(R) /\ Len(all) = Len(mid) + 2 /\ all[1] = first
      /\ \A i \in 1 .. Len(mid) : all[i + 1] = mid[i]
      /\ all[Len(mid) + 2] = last
  BY <1>1, <1>2, Enclosed
<1> HIDE DEF all
<1>5. DOMAIN all = 1 .. Len(all)  BY <1>4
<1> QED  BY <1>1, <1>3, <1>4, <1>5 DEF first, last

\* The first rule that matches decides: a key of the role may do everything but
\* list buckets, with a bucket that is every one of the list.
LEMMA PermitsOfRole ==
    ASSUME NEW list \in Seq(Buckets), NEW op \in Operations, NEW b \in Buckets
    PROVE  Permits(createRole(list), op, b)
              <=> op \notin Listing /\ \A i \in DOMAIN list : b = list[i]
<1> DEFINE rules == createRole(list)
           n == Len(list)
<1>a. n \in Nat /\ DOMAIN list = 1 .. n  OBVIOUS
<1>b. DOMAIN rules = 1 .. n + 2  BY RulesOfRole
<1>1. /\ rules[1].action = "deny"
      /\ Matches(rules[1], op, b) <=> op \in Listing
  BY RulesOfRole DEF Matches, Deny, operationIn
<1>2. ASSUME NEW i \in 1 .. n
      PROVE  /\ rules[i + 1].action = "deny"
             /\ Matches(rules[i + 1], op, b) <=> b # list[i]
  <2>1. rules[i + 1] = Deny(bucketIsNot(list[i]))  BY RulesOfRole
  <2> DEFINE rule == rules[i + 1]
  <2> HIDE DEF rule
  <2>2. /\ rule.action = "deny" /\ rule.when.test = "bucket"
        /\ rule.when.set = {list[i]}
    BY <2>1 DEF Deny, bucketIsNot, rule
  <2> QED  BY <2>2 DEF Matches, rule
<1>3. rules[n + 2].action = "allow" /\ Matches(rules[n + 2], op, b)
  BY RulesOfRole DEF Matches, Allow, always
<1> HIDE DEF rules, n
<1>4. ASSUME NEW i \in 1 .. n + 2, rules[i].action = "allow"  PROVE i = n + 2
  <2>1. CASE i = 1  BY <1>1, <1>4, <2>1
  <2>2. CASE i \in 2 .. n + 1
    <3>1. i - 1 \in 1 .. n /\ (i - 1) + 1 = i  BY <1>a, <2>2
    <3> QED  BY <1>2, <1>4, <3>1
  <2> QED  BY <1>a, <2>1, <2>2
<1>5. Permits(rules, op, b) <=> \A j \in 1 .. n + 1 : ~Matches(rules[j], op, b)
  <2>1. n + 2 \in 1 .. n + 2 /\ (n + 2) - 1 = n + 1  BY <1>a
  <2>2. ASSUME Permits(rules, op, b)  PROVE \A j \in 1 .. n + 1 : ~Matches(rules[j], op, b)
    <3>1. PICK i \in 1 .. n + 2 : /\ rules[i].action = "allow"
                                  /\ \A j \in 1 .. i - 1 : ~Matches(rules[j], op, b)
      BY <1>b, <2>2 DEF Permits
    <3>2. i = n + 2  BY <1>4, <3>1
    <3> QED  BY <2>1, <3>1, <3>2
  <2>3. ASSUME \A j \in 1 .. n + 1 : ~Matches(rules[j], op, b)  PROVE Permits(rules, op, b)
    BY <1>b, <1>3, <2>1, <2>3 DEF Permits
  <2> QED  BY <2>2, <2>3
<1>6. (\A j \in 1 .. n + 1 : ~Matches(rules[j], op, b))
        <=> op \notin Listing /\ \A i \in 1 .. n : b = list[i]
  <2>1. ASSUME \A j \in 1 .. n + 1 : ~Matches(rules[j], op, b)
        PROVE  op \notin Listing /\ \A i \in 1 .. n : b = list[i]
    <3>1. op \notin Listing  BY <1>a, <1>1, <2>1
    <3>2. ASSUME NEW i \in 1 .. n  PROVE b = list[i]
      <4>1. i + 1 \in 1 .. n + 1  BY <1>a
      <4> QED  BY <1>2, <2>1, <4>1
    <3> QED  BY <3>1, <3>2
  <2>2. ASSUME op \notin Listing, \A i \in 1 .. n : b = list[i], NEW j \in 1 .. n + 1
        PROVE  ~Matches(rules[j], op, b)
    <3>1. CASE j = 1  BY <1>1, <2>2, <3>1
    <3>2. CASE j \in 2 .. n + 1
      <4>1. j - 1 \in 1 .. n /\ (j - 1) + 1 = j  BY <1>a, <3>2
      <4> QED  BY <1>2, <2>2, <4>1
    <3> QED  BY <1>a, <3>1, <3>2
  <2> QED  BY <2>1, <2>2
<1> QED  BY <1>a, <1>5, <1>6 DEF rules

\* What that means for a list with a bucket in it.
LEMMA OpensListed ==
    ASSUME NEW role, policy[role] = cr.buckets, cr.buckets \in Seq(Buckets), cr.buckets # <<>>
    PROVE  /\ Opens(role) \subseteq Listed
           /\ Len(cr.buckets) = 1 => Opens(role) = Listed
           /\ ~Lists(role)
<1> DEFINE list == cr.buckets
<1>a. /\ DOMAIN list = 1 .. Len(list) /\ Len(list) \in Nat \ {0}
      /\ \A i \in 1 .. Len(list) : list[i] \in Buckets
  OBVIOUS
<1>1. \A op \in Operations, b \in Buckets :
        Permits(createRole(list), op, b)
           <=> op \notin Listing /\ \A i \in DOMAIN list : b = list[i]
  BY PermitsOfRole
<1>2. "any-other" \in Operations \ Listing /\ Listing \subseteq Operations
  BY DEF Operations, Listing
<1>3. Opens(role) = {b \in Buckets : \A i \in DOMAIN list : b = list[i]}
  BY <1>1, <1>2 DEF Opens
<1>4. Listed = {list[i] : i \in DOMAIN list}  BY DEF Listed
<1>5. ~Lists(role)  BY <1>1, <1>2 DEF Lists
<1> HIDE DEF list
<1>6. Opens(role) \subseteq Listed
  <2>1. 1 \in DOMAIN list  BY <1>a
  <2> QED  BY <1>3, <1>4, <2>1
<1>7. ASSUME Len(list) = 1  PROVE Listed \subseteq Opens(role)
  <2>1. DOMAIN list = {1}  BY <1>a, <1>7
  <2>2. list[1] \in Buckets  BY <1>a, <1>7
  <2> QED  BY <1>3, <1>4, <2>1, <2>2
<1> QED  BY <1>5, <1>6, <1>7 DEF list

\* The key a user of a Ready resource holds opens no bucket but those of the spec,
\* and cannot list the others: its role is the recorded one, the role exists as
\* long as the resource is not deleted, and was made for the buckets of the spec.
THEOREM OpensOnlyListed == Spec => []KeyOpensListed
<1>1. ASSUME IInv, GrantInv  PROVE KeyOpensListed
  <2> SUFFICES ASSUME InUse
               PROVE  LET role == roleOf[cr.keySt]
                      IN /\ role \in roles
                         /\ Opens(role) \subseteq Listed
                         /\ Len(cr.buckets) = 1 => Opens(role) = Listed
                         /\ ~Lists(role)
    BY DEF KeyOpensListed
  <2>a. cr \in Resource /\ StoredInv /\ Truthful(cr) /\ cr.buckets # NoBuckets
    BY <1>1 DEF IInv, TypeOK, GrantInv, InUse
  <2>1. cr.keySt # None  BY <2>a DEF Truthful, InUse
  <2>2. cr.roleAnn # None /\ roleOf[cr.keySt] = cr.roleAnn
    BY <2>a, <2>1 DEF StoredInv, InUse, Legacy
  <2>3. cr.roleAnn \in roles /\ policy[cr.roleAnn] = cr.buckets
    BY <2>a, <2>2 DEF Truthful, InUse
  <2>4. cr.buckets \in Seq(Buckets) /\ cr.buckets # <<>>
    BY <2>a, ListsAssumption, FieldTyping
  <2> QED  BY <2>2, <2>3, <2>4, OpensListed
<1> QED  BY <1>1, Invariance, GrantInvariance, PTL
=============================================================================
