----------------------------- MODULE Access_proofs -----------------------------
(***************************************************************************)
(* Who listens may listen, what is revoked holds nothing and what is       *)
(* granted takes effect: for any users, devices, teams, invites and rules. *)
(***************************************************************************)
EXTENDS MCRelay, FiniteSetTheorems, WellFoundedInduction, TLAPS

\* A device that is being recovered has no connection yet, and who has one is enrolled.
SocketsInv == \A d \in Devices : socket[d] # "none" => d \in enrolled \ recovering

\* The rules in force, in whatever order.
RulesOf(rs) == {rs[k] : k \in DOMAIN rs}

\* Nobody has written a rule about a team that does not exist yet.
RulesInv == \A r \in RulesOf(rules) : r.subject \in Teams => team[r.subject].is # "unborn"

IInv == /\ TypeOK /\ SocketsInv /\ RulesInv
        /\ OpenIsActive /\ DeadHoldNothing /\ SubscribersAllowed

-----------------------------------------------------------------------------
(* Lists of rules, as sets.                                                *)

LEMMA LeastOne ==
    ASSUME NEW T \in SUBSET Nat, T # {}
    PROVE  \E p \in T : \A q \in T : p <= q
<1>1. PICK p \in T : \A q \in T : ~(<<q, p>> \in OpToRel(<, Nat))
    BY NatLessThanWellFounded, WFMin
<1>2. \A q \in T : <<q, p>> \in Nat \X Nat /\ <<q, p>>[1] = q /\ <<q, p>>[2] = p
    OBVIOUS
<1>3. \A q \in T : ~(q < p)
    BY <1>1, <1>2 DEF OpToRel
<1> QED BY <1>3

\* The numbers of a set in ascending order.
Enumerates(at, K) ==
    /\ at \in [1..Cardinality(K) -> K]
    /\ \A i, j \in DOMAIN at : i < j => at[i] < at[j]

LEMMA SomeEnumeration ==
    ASSUME NEW n \in Nat, NEW K \in SUBSET (1..n)
    PROVE  \E at : Enumerates(at, K)
<1> DEFINE T == {m \in Nat : \E J \in SUBSET (1..m) : ~ \E at : Enumerates(at, J)}
<1> SUFFICES ASSUME T # {} PROVE FALSE
    OBVIOUS
<1>1. PICK m \in T : \A q \in T : m <= q
    BY LeastOne
<1>2. m \in Nat
    OBVIOUS
<1>3. PICK J \in SUBSET (1..m) : ~ \E at : Enumerates(at, J)
    OBVIOUS
<1>4. m \in J /\ m > 0
  <2>1. CASE J = {}
    <3>1. Cardinality(J) = 0
        BY <2>1, FS_EmptySet
    <3>2. Enumerates([i \in 1..0 |-> 0], J)
        BY <3>1 DEF Enumerates
    <3> QED BY <1>3, <3>2
  <2>2. CASE J # {} /\ m \notin J
    <3>0. PICK i \in J : TRUE
        BY <2>2
    <3>1. m > 0 /\ m - 1 \in Nat
        BY <1>2, <3>0
    <3>2. \A j \in J : j \in 1..m - 1
        BY <1>2, <2>2, <3>1
    <3>3. m - 1 \in T
        BY <1>3, <3>1, <3>2
    <3> HIDE DEF T
    <3>4. m <= m - 1
        BY <1>1, <3>3
    <3> QED BY <1>2, <3>4
  <2> QED BY <1>2, <2>1, <2>2
<1> DEFINE rest == J \ {m}
           c == Cardinality(rest)
<1>5. rest \in SUBSET (1..m - 1) /\ m - 1 \in Nat
    BY <1>2, <1>4
<1>6. m - 1 \notin T
    BY <1>1, <1>2
<1>7. PICK at : Enumerates(at, rest)
    BY <1>5, <1>6
<1>8. IsFiniteSet(J)
  <2>1. IsFiniteSet(1..m)
      BY <1>2, FS_Interval
  <2> QED BY <2>1, FS_Subset
<1>9. IsFiniteSet(rest) /\ c \in Nat /\ Cardinality(J) = c + 1
  <2>1. IsFiniteSet(rest) /\ Cardinality(rest) = Cardinality(J) - 1
      BY <1>4, <1>8, FS_RemoveElement
  <2>2. Cardinality(J) \in Nat /\ c \in Nat
      BY <1>8, <2>1, FS_CardinalityType
  <2> QED BY <2>1, <2>2
<1> DEFINE all == [i \in 1..c + 1 |-> IF i = c + 1 THEN m ELSE at[i]]
<1>10. at \in [1..c -> rest] /\ \A i, j \in 1..c : i < j => at[i] < at[j]
    BY <1>7 DEF Enumerates
<1> HIDE DEF c
<1>11. \A i \in 1..c : at[i] \in J /\ at[i] < m
  <2>1. \A j \in rest : j \in J /\ j < m
      BY <1>2, <1>5
  <2> HIDE DEF rest
  <2> QED BY <1>10, <2>1
<1>12. all \in [1..c + 1 -> J]
    BY <1>4, <1>9, <1>11
<1>13. \A i, j \in 1..c + 1 : i < j => all[i] < all[j]
    BY <1>9, <1>10, <1>11
<1>14. Enumerates(all, J)
    BY <1>9, <1>12, <1>13 DEF Enumerates
<1> QED BY <1>3, <1>14

Onto(at, K) == \A k \in K : \E i \in 1..Cardinality(K) : at[i] = k

LEMMA EnumeratesAll ==
    ASSUME NEW n \in Nat, NEW K \in SUBSET (1..n), NEW at, Enumerates(at, K)
    PROVE  Onto(at, K)
<1> DEFINE c == Cardinality(K)
<1>1. IsFiniteSet(K) /\ c \in Nat
  <2>1. IsFiniteSet(1..n)
      BY FS_Interval
  <2>2. IsFiniteSet(K)
      BY <2>1, FS_Subset
  <2> QED BY <2>2, FS_CardinalityType
<1>2. at \in [1..c -> K] /\ \A i, j \in 1..c : i < j => at[i] < at[j]
    BY DEF Enumerates
<1>3. Cardinality(1..c) = c
    BY <1>1, FS_Interval
<1> HIDE DEF c
<1>4. at \in Injection(1..c, K)
  <2>1. \A i, j \in 1..c : at[i] = at[j] => i = j
    <3> SUFFICES ASSUME NEW i \in 1..c, NEW j \in 1..c, at[i] = at[j], i # j PROVE FALSE
        OBVIOUS
    <3>1. i < j \/ j < i
        BY <1>1
    <3>2. at[i] \in 1..n /\ at[j] \in 1..n
        BY <1>2
    <3> QED BY <1>2, <3>1, <3>2
  <2> QED BY <1>2, <2>1 DEF Injection, IsInjective
<1>5. at \in Surjection(1..c, K)
    BY <1>1, <1>3, <1>4, FS_Injection DEF c
<1> QED BY <1>5 DEF Surjection, Onto, c

\* Only keeps the chosen elements.
LEMMA OnlyKeeps ==
    ASSUME NEW S, NEW rs \in Seq(S), NEW K \in SUBSET DOMAIN rs
    PROVE  Only(rs, K) \in Seq(S) /\ RulesOf(Only(rs, K)) = {rs[k] : k \in K}
<1> DEFINE at == CHOOSE at \in [1..Cardinality(K) -> K] : \A i, j \in DOMAIN at : i < j => at[i] < at[j]
<1>1. Len(rs) \in Nat /\ K \in SUBSET (1..Len(rs)) /\ \A k \in K : rs[k] \in S
    OBVIOUS
<1>2. Enumerates(at, K)
  <2>1. \E a \in [1..Cardinality(K) -> K] : \A i, j \in DOMAIN a : i < j => a[i] < a[j]
      BY <1>1, SomeEnumeration DEF Enumerates
  <2> QED BY <2>1 DEF Enumerates
<1>3. Only(rs, K) = [i \in 1..Cardinality(K) |-> rs[at[i]]]
    BY DEF Only
<1> HIDE DEF at
<1>4. at \in [1..Cardinality(K) -> K] /\ \A k \in K : \E i \in 1..Cardinality(K) : at[i] = k
  <2>1. Onto(at, K)
      BY <1>1, <1>2, EnumeratesAll
  <2> QED BY <1>2, <2>1 DEF Enumerates, Onto
<1>5. Cardinality(K) \in Nat
  <2>1. IsFiniteSet(1..Len(rs))
      BY <1>1, FS_Interval
  <2>2. IsFiniteSet(K)
      BY <1>1, <2>1, FS_Subset
  <2> QED BY <2>2, FS_CardinalityType
<1>6. Only(rs, K) \in Seq(S)
  <2> DEFINE c == Cardinality(K)
  <2>1. \A i \in 1..c : rs[at[i]] \in S
      BY <1>1, <1>4
  <2>2. c \in Nat /\ Only(rs, K) = [i \in 1..c |-> rs[at[i]]]
      BY <1>3, <1>5
  <2> HIDE DEF c
  <2> QED BY <2>1, <2>2
<1>7. RulesOf(Only(rs, K)) = {rs[k] : k \in K}
    BY <1>3, <1>4 DEF RulesOf
<1> QED BY <1>6, <1>7

-----------------------------------------------------------------------------
(* What the rules of a request are made of.                                *)

\* S is R after an allow rule took its permissions from the denials of its subject and
\* pattern.
Superseded(R, S, rule) ==
    /\ \A r \in R : r.effect = "allow" => r \in S
    /\ \A r \in S : r.effect = "allow" => r \in R
    /\ \A r \in S : r.effect = "deny" =>
          /\ \E o \in R : /\ o.effect = "deny" /\ o.subject = r.subject
                         /\ o.pattern = r.pattern /\ r.perms \subseteq o.perms
          /\ r.subject = rule.subject /\ r.pattern = rule.pattern => r.perms \cap rule.perms = {}

\* What is left of one rule.
Left(r, rule) ==
    IF r.effect = "deny" /\ r.subject = rule.subject /\ r.pattern = rule.pattern
    THEN [r EXCEPT !.perms = IF r.perms = Blocked THEN {} ELSE r.perms \ rule.perms]
    ELSE r

LEMMA LeftIs ==
    ASSUME NEW r \in Rule, NEW rule \in Rule
    PROVE  /\ Left(r, rule).perms # {} => Left(r, rule) \in Rule
           /\ Left(r, rule).effect = r.effect /\ Left(r, rule).subject = r.subject
           /\ Left(r, rule).pattern = r.pattern /\ Left(r, rule).perms \subseteq r.perms
           /\ r.effect = "allow" => Left(r, rule) = r
           /\ r.effect = "deny" /\ r.subject = rule.subject /\ r.pattern = rule.pattern
                 => Left(r, rule).perms \cap rule.perms = {}
<1>1. r.perms \subseteq Permissions /\ r.perms # {} /\ r.effect \in {"allow", "deny"}
    BY DEF Rule
<1>2. CASE r.effect = "deny" /\ r.subject = rule.subject /\ r.pattern = rule.pattern
  <2> DEFINE rest == IF r.perms = Blocked THEN {} ELSE r.perms \ rule.perms
             new == [r EXCEPT !.perms = rest]
  <2>1. Left(r, rule) = new
      BY <1>2 DEF Left
  <2>2. rest \subseteq r.perms /\ rest \cap rule.perms = {}
      OBVIOUS
  <2> HIDE DEF rest
  <2>3. /\ new.perms = rest /\ new.effect = r.effect /\ new.subject = r.subject
        /\ new.pattern = r.pattern
      BY DEF Rule
  <2>4. rest # {} => new \in Rule
      BY <1>1, <2>2 DEF Rule
  <2> HIDE DEF new
  <2> QED BY <1>2, <2>1, <2>2, <2>3, <2>4
<1>3. CASE ~(r.effect = "deny" /\ r.subject = rule.subject /\ r.pattern = rule.pattern)
  <2>1. Left(r, rule) = r
      BY <1>3 DEF Left
  <2> QED BY <1>3, <2>1
<1> QED BY <1>2, <1>3

LEMMA SupersedeIs ==
    ASSUME NEW rs \in Seq(Rule), NEW rule \in Rule
    PROVE  LET new == Supersede(rs, rule.subject, rule.perms, rule.pattern)
           IN  new \in Seq(Rule) /\ Superseded(RulesOf(rs), RulesOf(new), rule)
<1> DEFINE all == [k \in DOMAIN rs |-> Left(rs[k], rule)]
           K == {k \in DOMAIN rs : Left(rs[k], rule).perms # {}}
           new == Supersede(rs, rule.subject, rule.perms, rule.pattern)
           kept == Only(rs, K)
<1>1. new = Only(all, K)
    BY DEF Supersede, Left
<1> DEFINE Shortened == {Left(rs[k], rule) : k \in DOMAIN rs}
<1>2. all \in Seq(Shortened) /\ DOMAIN all = DOMAIN rs
    OBVIOUS
<1>3. K \in SUBSET DOMAIN all
    BY <1>2
<1> HIDE DEF all, K, Shortened, new
<1>4. new \in Seq(Shortened) /\ RulesOf(new) = {all[k] : k \in K}
    BY <1>1, <1>2, <1>3, OnlyKeeps
<1>5. \A k \in K : rs[k] \in Rule /\ all[k] = Left(rs[k], rule) /\ all[k].perms # {}
    BY DEF K, all
<1>6. RulesOf(new) \subseteq Rule
    BY <1>4, <1>5, LeftIs
<1>7. new \in Seq(Rule)
  <2>1. \A i \in DOMAIN new : new[i] \in Rule
      BY <1>6 DEF RulesOf
  <2> QED BY <1>4, <2>1
<1>8. Superseded(RulesOf(rs), RulesOf(new), rule)
  <2>1. ASSUME NEW r \in RulesOf(rs), r.effect = "allow" PROVE r \in RulesOf(new)
    <3>1. PICK k \in DOMAIN rs : r = rs[k]
        BY DEF RulesOf
    <3>4. rs[k] \in Rule
        OBVIOUS
    <3>0. rs[k] \in Rule /\ rs[k].perms # {}
        BY <3>4 DEF Rule
    <3>2. Left(rs[k], rule) = rs[k]
        BY <2>1, <3>0, <3>1, LeftIs
    <3>3. k \in K /\ all[k] = r
        BY <3>0, <3>1, <3>2 DEF K, all
    <3> QED BY <1>4, <3>3
  <2>2. ASSUME NEW r \in RulesOf(new), r.effect = "allow" PROVE r \in RulesOf(rs)
    <3>1. PICK k \in K : r = Left(rs[k], rule) /\ rs[k] \in Rule
        BY <1>4, <1>5
    <3>2. r = rs[k]
        BY <2>2, <3>1, LeftIs
    <3> QED BY <3>2 DEF RulesOf, K
  <2>3. ASSUME NEW r \in RulesOf(new), r.effect = "deny"
        PROVE  /\ \E o \in RulesOf(rs) : /\ o.effect = "deny" /\ o.subject = r.subject
                                         /\ o.pattern = r.pattern /\ r.perms \subseteq o.perms
               /\ r.subject = rule.subject /\ r.pattern = rule.pattern => r.perms \cap rule.perms = {}
    <3>1. PICK k \in K : r = Left(rs[k], rule) /\ rs[k] \in Rule
        BY <1>4, <1>5
    <3>2. /\ rs[k].effect = "deny" /\ rs[k].subject = r.subject /\ rs[k].pattern = r.pattern
          /\ r.perms \subseteq rs[k].perms
          /\ r.subject = rule.subject /\ r.pattern = rule.pattern => r.perms \cap rule.perms = {}
        BY <2>3, <3>1, LeftIs
    <3>3. rs[k] \in RulesOf(rs)
        BY DEF RulesOf, K
    <3> QED BY <3>2, <3>3
  <2> QED BY <2>1, <2>2, <2>3 DEF Superseded
<1> QED BY <1>7, <1>8 DEF new

\* S is R with a grant: it is there, it renewed a grant of the same subject and pattern
\* or none, and no denial of its subject and pattern withholds what it gives.
Gives(R, S, rule) ==
    /\ rule \in S
    /\ \A r \in R : r.effect = "allow" =>
          r \in S \/ (r.subject = rule.subject /\ r.pattern = rule.pattern)
    /\ \A r \in S : r.effect = "allow" => r \in R \/ r = rule
    /\ \A r \in S : r.effect = "deny" =>
          /\ \E o \in R : /\ o.effect = "deny" /\ o.subject = r.subject
                         /\ o.pattern = r.pattern /\ r.perms \subseteq o.perms
          /\ r.subject = rule.subject /\ r.pattern = rule.pattern => r.perms \cap rule.perms = {}

LEMMA AppendRules ==
    ASSUME NEW rs \in Seq(Rule), NEW rule \in Rule
    PROVE  Append(rs, rule) \in Seq(Rule) /\ RulesOf(Append(rs, rule)) = RulesOf(rs) \cup {rule}
<1>1. /\ DOMAIN rs = 1..Len(rs) /\ Len(rs) \in Nat /\ DOMAIN Append(rs, rule) = 1..Len(rs) + 1
      /\ \A k \in 1..Len(rs) : Append(rs, rule)[k] = rs[k]
      /\ Append(rs, rule)[Len(rs) + 1] = rule
    OBVIOUS
<1>2. RulesOf(Append(rs, rule)) \subseteq RulesOf(rs) \cup {rule}
  <2> SUFFICES ASSUME NEW k \in 1..Len(rs) + 1
               PROVE  Append(rs, rule)[k] \in RulesOf(rs) \cup {rule}
      BY <1>1 DEF RulesOf
  <2>1. k \in 1..Len(rs) \/ k = Len(rs) + 1
      BY <1>1
  <2> QED BY <1>1, <2>1 DEF RulesOf
<1>3. RulesOf(rs) \cup {rule} \subseteq RulesOf(Append(rs, rule))
  <2>1. \A k \in 1..Len(rs) : k \in 1..Len(rs) + 1
      BY <1>1
  <2>2. Len(rs) + 1 \in 1..Len(rs) + 1
      BY <1>1
  <2> QED BY <1>1, <2>1, <2>2 DEF RulesOf
<1> QED BY <1>2, <1>3

LEMMA WithRuleIs ==
    ASSUME NEW rs \in Seq(Rule), NEW rule \in Rule
    PROVE  /\ WithRule(rs, rule) \in Seq(Rule)
           /\ rule.effect = "allow" => Gives(RulesOf(rs), RulesOf(WithRule(rs, rule)), rule)
           /\ rule.effect # "allow" => RulesOf(WithRule(rs, rule)) = RulesOf(rs) \cup {rule}
<1>1. CASE rule.effect = "allow"
  <2> DEFINE new == Supersede(rs, rule.subject, rule.perms, rule.pattern)
  <2>1. new \in Seq(Rule) /\ Superseded(RulesOf(rs), RulesOf(new), rule)
      BY SupersedeIs
  <2>2. WithRule(rs, rule) = Append(new, rule)
      BY <1>1 DEF WithRule
  <2> HIDE DEF new
  <2>3. RulesOf(WithRule(rs, rule)) = RulesOf(new) \cup {rule} /\ WithRule(rs, rule) \in Seq(Rule)
      BY <2>1, <2>2, AppendRules
  <2>4. Gives(RulesOf(rs), RulesOf(new) \cup {rule}, rule)
      BY <1>1, <2>1 DEF Superseded, Gives
  <2> QED BY <1>1, <2>3, <2>4
<1>2. CASE rule.effect # "allow"
    BY <1>2, AppendRules DEF WithRule
<1> QED BY <1>1, <1>2

\* The grant of a room invite.
Grant(u, preset) == [subject |-> u, effect |-> "allow", perms |-> preset, pattern |-> Whole]

LEMMA WithGrantIs ==
    ASSUME NEW rs \in Seq(Rule), NEW u \in Users, NEW preset \in {Reader, Editor}
    PROVE  /\ WithGrant(rs, u, preset) \in Seq(Rule)
           /\ Gives(RulesOf(rs), RulesOf(WithGrant(rs, u, preset)), Grant(u, preset))
<1> DEFINE Grants == {k \in DOMAIN rs : /\ rs[k].subject = u /\ rs[k].effect = "allow"
                                        /\ rs[k].pattern = Whole}
           oldest == CHOOSE k \in Grants : \A j \in Grants : k <= j
           renewed == [rs EXCEPT ![oldest].perms = preset]
           g == Grant(u, preset)
<1>1. /\ g \in Rule /\ g.effect = "allow" /\ g.subject = u /\ g.perms = preset
      /\ g.pattern = Whole
    BY AccessAssumption DEF Grant, Rule, Reader, Editor, Permissions
<1>2. CASE Grants = {}
  <2>1. WithGrant(rs, u, preset) = WithRule(rs, g)
      BY <1>2 DEF WithGrant, Grant
  <2> HIDE DEF g
  <2> QED BY <1>1, <2>1, WithRuleIs DEF g
<1>3. CASE Grants # {}
  <2>1. oldest \in Grants
    <3>1. Grants \in SUBSET Nat
        OBVIOUS
    <3>2. \E k \in Grants : \A j \in Grants : k <= j
        BY <1>3, <3>1, LeastOne
    <3> QED BY <3>2
  <2>2. WithGrant(rs, u, preset) = Supersede(renewed, u, preset, Whole)
      BY <1>3 DEF WithGrant
  <2> HIDE DEF oldest
  <2>3. rs[oldest] \in Rule /\ [rs[oldest] EXCEPT !.perms = preset] = g
    <3>1. oldest \in DOMAIN rs /\ rs[oldest] \in Rule
        BY <2>1
    <3>2. /\ rs[oldest].subject = u /\ rs[oldest].effect = "allow"
          /\ rs[oldest].pattern = Whole
        BY <2>1
    <3> QED BY <3>1, <3>2 DEF Rule, Grant
  <2>4. /\ renewed \in Seq(Rule) /\ DOMAIN renewed = DOMAIN rs
        /\ \A k \in DOMAIN rs : renewed[k] = IF k = oldest THEN g ELSE rs[k]
    <3>1. renewed = [rs EXCEPT ![oldest] = g]
        BY <2>3
    <3> HIDE DEF renewed, g
    <3> QED BY <1>1, <2>1, <3>1
  <2> HIDE DEF renewed, g
  <2>5. oldest \in DOMAIN rs /\ g \in RulesOf(renewed)
      BY <2>1, <2>4 DEF RulesOf
  <2>6. /\ \A r \in RulesOf(renewed) : r \in RulesOf(rs) \/ r = g
        /\ \A r \in RulesOf(rs) : r \in RulesOf(renewed) \/ r = rs[oldest]
      BY <2>4 DEF RulesOf
  <2>7. /\ WithGrant(rs, u, preset) \in Seq(Rule)
        /\ Superseded(RulesOf(renewed), RulesOf(WithGrant(rs, u, preset)), g)
      BY <1>1, <2>2, <2>4, SupersedeIs
  <2>8. rs[oldest].subject = u /\ rs[oldest].pattern = Whole
      BY <2>1
  <2>9. Gives(RulesOf(rs), RulesOf(WithGrant(rs, u, preset)), g)
    <3> DEFINE S == RulesOf(WithGrant(rs, u, preset))
               R == RulesOf(rs)
               M == RulesOf(renewed)
    <3>1. Superseded(M, S, g) /\ g \in M /\ (\A r \in M : r \in R \/ r = g)
        BY <2>5, <2>6, <2>7
    <3>2. \A r \in R : r \in M \/ (r.subject = g.subject /\ r.pattern = g.pattern)
        BY <1>1, <2>6, <2>8
    <3> HIDE DEF S, R, M
    <3>3. g \in S
        BY <1>1, <3>1 DEF Superseded
    <3>4. \A r \in R : r.effect = "allow" =>
             r \in S \/ (r.subject = g.subject /\ r.pattern = g.pattern)
        BY <3>1, <3>2 DEF Superseded
    <3>5. \A r \in S : r.effect = "allow" => r \in R \/ r = g
        BY <3>1 DEF Superseded
    <3>6. \A r \in S : r.effect = "deny" =>
             /\ \E o \in R : /\ o.effect = "deny" /\ o.subject = r.subject
                            /\ o.pattern = r.pattern /\ r.perms \subseteq o.perms
             /\ r.subject = g.subject /\ r.pattern = g.pattern => r.perms \cap g.perms = {}
        BY <1>1, <3>1 DEF Superseded
    <3> QED BY <3>3, <3>4, <3>5, <3>6 DEF Gives, S, R
  <2> QED BY <2>7, <2>9 DEF g
<1> QED BY <1>2, <1>3

-----------------------------------------------------------------------------
(* The policy, from the rules as a set.                                    *)

MatchesIn(R, T, effect, u, p, path) ==
    \E r \in R : /\ r.effect = effect /\ p \in r.perms /\ path \in Covers[r.pattern]
                 /\ r.subject = u \/ (r.subject \in Teams /\ u \in T[r.subject].members)

MayIn(R, T, u, p, path) ==
    /\ ~MatchesIn(R, T, "deny", u, p, path)
    /\ u = Owner \/ MatchesIn(R, T, "allow", u, p, path)

LEMMA AllowedIs ==
    ASSUME NEW u, NEW p, NEW path
    PROVE  /\ Allowed(u, p, path) <=> MayIn(RulesOf(rules), team, u, p, path)
           /\ Allowed(u, p, path)' <=> MayIn(RulesOf(rules'), team', u, p, path)
<1>1. \A e : Matches(e, u, p, path) <=> MatchesIn(RulesOf(rules), team, e, u, p, path)
    BY DEF Matches, MatchesIn, RulesOf, TeamsOf
<1>2. \A e : Matches(e, u, p, path)' <=> MatchesIn(RulesOf(rules'), team', e, u, p, path)
    BY DEF Matches, MatchesIn, RulesOf, TeamsOf
<1> QED BY <1>1, <1>2 DEF Allowed, MayIn

\* A grant takes nothing of what it gives from anybody.
LEMMA GrantTakesNothing ==
    ASSUME NEW R, NEW S, NEW g, Gives(R, S, g), g.effect = "allow", NEW p \in g.perms,
           NEW T, NEW u, NEW path, MayIn(R, T, u, p, path)
    PROVE  MayIn(S, T, u, p, path)
<1>1. ~MatchesIn(S, T, "deny", u, p, path)
    BY DEF Gives, MayIn, MatchesIn
<1>2. MatchesIn(R, T, "allow", u, p, path) => MatchesIn(S, T, "allow", u, p, path)
    BY DEF Gives, MatchesIn
<1> QED BY <1>1, <1>2 DEF MayIn

LEMMA NobodyHoldsIn ==
    ASSUME NEW R, NEW T, NEW U, NEW u, NEW p, NEW path,
           \A r \in R : r.subject \in Teams =>
              (u \in U[r.subject].members <=> u \in T[r.subject].members)
    PROVE  MayIn(R, T, u, p, path) <=> MayIn(R, U, u, p, path)
<1>1. \A e : MatchesIn(R, T, e, u, p, path) <=> MatchesIn(R, U, e, u, p, path)
    BY DEF MatchesIn
<1> QED BY <1>1 DEF MayIn

-----------------------------------------------------------------------------
(* What a step leaves alone.                                               *)

LEMMA SocketsStay ==
    ASSUME SocketsInv, OpenIsActive, UNCHANGED <<socket, enrolled, recovering, revoked>>
    PROVE  SocketsInv' /\ OpenIsActive'
BY DEF SocketsInv, OpenIsActive

LEMMA RulesStay ==
    ASSUME RulesInv, DeadHoldNothing, UNCHANGED <<rules, team, room>>
    PROVE  RulesInv' /\ DeadHoldNothing'
BY DEF RulesInv, DeadHoldNothing

LEMMA ListenersStay ==
    ASSUME SubscribersAllowed, UNCHANGED <<rules, team, room>>,
           subscribed' \subseteq subscribed, unsettled' = unsettled
    PROVE  SubscribersAllowed'
<1> SUFFICES ASSUME room, NEW d \in subscribed', UserOf[d] \notin unsettled
             PROVE  Allowed(UserOf[d], "subscribe", NoPath)'
    BY DEF SubscribersAllowed
<1>1. Allowed(UserOf[d], "subscribe", NoPath)
    BY DEF SubscribersAllowed
<1> QED BY <1>1, AllowedIs

\* The registry drops whoever may no longer listen.
LEMMA RevalidateKeeps ==
    ASSUME Revalidate, TypeOK
    PROVE  SubscribersAllowed' /\ subscribed' \subseteq Devices /\ unsettled' \subseteq Users
<1>1. unsettled' = {} /\ subscribed' \subseteq subscribed
    BY DEF Revalidate
<1>2. room' => \A d \in subscribed' : Allowed(UserOf[d], "subscribe", NoPath)'
    BY DEF Revalidate
<1> QED BY <1>1, <1>2 DEF TypeOK, SubscribersAllowed

LEMMA InviteTypes ==
    ASSUME NEW v \in Invite
    PROVE  /\ [v EXCEPT !.landed = TRUE] \in Invite
           /\ \A n \in 0..MaxUses : [v EXCEPT !.left = n] \in Invite
           /\ v.left \in 0..MaxUses
           /\ v.target = "team" => v.team \in Teams
           /\ v.target = "room" => v.preset \in {Reader, Editor}
           /\ v.target \in {"team", "room"}
BY DEF Invite

-----------------------------------------------------------------------------
(* Invites, users, devices and connections: the rules stay as they are.    *)

LEMMA OnlyInvites ==
    ASSUME IInv, invite' \in [Invites -> Invite \cup {None}],
           UNCHANGED <<known, enrolled, revoked, recovering, team, room, rules, socket,
                       subscribed, unsettled>>
    PROVE  IInv'
<1>1. TypeOK'
    BY DEF IInv, TypeOK
<1> QED BY <1>1, SocketsStay, RulesStay, ListenersStay DEF IInv

LEMMA InviteSteps ==
    ASSUME IInv, NEW i \in Invites, NEW uses \in 1..MaxUses,
           \/ \E t \in Teams : AskTeamInvite(i, t, uses)
           \/ \E preset \in {Reader, Editor} : AskRoomInvite(i, preset, uses)
    PROVE  IInv'
<1>1. UNCHANGED <<known, enrolled, revoked, recovering, team, room, rules, socket, subscribed,
                  unsettled>>
    BY DEF AskTeamInvite, AskRoomInvite
<1>2. invite \in [Invites -> Invite \cup {None}] /\ uses \in 0..MaxUses
    BY AccessAssumption DEF IInv, TypeOK
<1>3. invite' \in [Invites -> Invite \cup {None}]
  <2>1. CASE \E t \in Teams : AskTeamInvite(i, t, uses)
      BY <1>2, <2>1 DEF AskTeamInvite, Invite
  <2>2. CASE \E preset \in {Reader, Editor} : AskRoomInvite(i, preset, uses)
      BY <1>2, <2>2 DEF AskRoomInvite, Invite
  <2> QED BY <2>1, <2>2
<1> QED BY <1>1, <1>3, OnlyInvites

LEMMA OldInviteSteps ==
    ASSUME IInv, NEW i \in Invites, CreateInvite(i) \/ ExpireInvite(i)
    PROVE  IInv'
<1>1. UNCHANGED <<known, enrolled, revoked, recovering, team, room, rules, socket, subscribed,
                  unsettled>>
    BY DEF CreateInvite, ExpireInvite
<1>2. invite \in [Invites -> Invite \cup {None}] /\ 0 \in 0..MaxUses
    BY AccessAssumption DEF IInv, TypeOK
<1>3. invite' \in [Invites -> Invite \cup {None}]
  <2>1. invite[i] \in Invite
      BY <1>2 DEF CreateInvite, ExpireInvite
  <2>2. /\ [invite[i] EXCEPT !.landed = TRUE] \in Invite
        /\ [invite[i] EXCEPT !.left = 0] \in Invite
      BY <1>2, <2>1, InviteTypes
  <2>3. \/ invite' = [invite EXCEPT ![i] = [invite[i] EXCEPT !.landed = TRUE]]
        \/ invite' = [invite EXCEPT ![i] = [invite[i] EXCEPT !.left = 0]]
      BY DEF CreateInvite, ExpireInvite
  <2> QED BY <1>2, <2>2, <2>3
<1> QED BY <1>1, <1>3, OnlyInvites

\* The steps of users, devices and connections.
OfDevices(d) ==
    \/ AddDevice(d) \/ RevokeDevice(d)
    \/ RecoverOwnerDevice(d) \/ RevokeRecoveredDevice(d) \/ KeepRecoveredDevice(d)
    \/ Hello(d) \/ SubscribeRoom(d) \/ UnsubscribeRoom(d) \/ SocketCloses(d)

LEMMA ClosingIs ==
    ASSUME TypeOK, NEW D
    PROVE  /\ Closing(D) \in [Devices -> {"none", "open", "closing"}]
           /\ \A d \in Devices : /\ Closing(D)[d] = "open" => socket[d] = "open" /\ d \notin D
                                 /\ Closing(D)[d] # "none" => socket[d] # "none"
BY DEF TypeOK, Closing

LEMMA DeviceTypes ==
    ASSUME IInv, NEW d \in Devices, OfDevices(d)
    PROVE  TypeOK'
<1>1. TypeOK
    BY DEF IInv
<1>2. CASE AddDevice(d) \/ RecoverOwnerDevice(d) \/ RevokeRecoveredDevice(d) \/ KeepRecoveredDevice(d)
    BY <1>1, <1>2 DEF TypeOK, AddDevice, RecoverOwnerDevice, RevokeRecoveredDevice, KeepRecoveredDevice
<1>3. CASE RevokeDevice(d)
  <2>1. socket' \in [Devices -> {"none", "open", "closing"}]
      BY <1>1, <1>3, ClosingIs DEF RevokeDevice
  <2> QED BY <1>1, <1>3, <2>1 DEF TypeOK, RevokeDevice
<1>4. CASE Hello(d) \/ SubscribeRoom(d) \/ UnsubscribeRoom(d) \/ SocketCloses(d)
    BY <1>1, <1>4 DEF TypeOK, Hello, SubscribeRoom, UnsubscribeRoom, SocketCloses
<1> QED BY <1>2, <1>3, <1>4 DEF OfDevices

LEMMA DeviceSockets ==
    ASSUME IInv, NEW d \in Devices, OfDevices(d)
    PROVE  SocketsInv' /\ OpenIsActive'
<1>1. TypeOK /\ SocketsInv /\ OpenIsActive /\ socket \in [Devices -> {"none", "open", "closing"}]
    BY DEF IInv, TypeOK
<1>2. CASE AddDevice(d) \/ RecoverOwnerDevice(d) \/ KeepRecoveredDevice(d)
    BY <1>1, <1>2 DEF SocketsInv, OpenIsActive, AddDevice, RecoverOwnerDevice, KeepRecoveredDevice
<1>3. CASE RevokeRecoveredDevice(d)
  <2>1. socket[d] = "none"
      BY <1>1, <1>3 DEF SocketsInv, RevokeRecoveredDevice
  <2>2. \A e \in Devices : UserOf[e] # d
      BY AccessAssumption
  <2> QED BY <1>1, <1>3, <2>1, <2>2 DEF SocketsInv, OpenIsActive, RevokeRecoveredDevice
<1>4. CASE RevokeDevice(d)
  <2>1. \A e \in Devices : /\ socket'[e] = "open" => socket[e] = "open" /\ e # d
                           /\ socket'[e] # "none" => socket[e] # "none"
      BY <1>1, <1>4, ClosingIs DEF RevokeDevice
  <2>2. \A e \in Devices : UserOf[e] # d
      BY AccessAssumption
  <2> QED BY <1>1, <1>4, <2>1, <2>2 DEF SocketsInv, OpenIsActive, RevokeDevice
<1>5. CASE Hello(d)
    BY <1>1, <1>5 DEF SocketsInv, OpenIsActive, Hello
<1>6. CASE SubscribeRoom(d) \/ UnsubscribeRoom(d)
    BY <1>1, <1>6 DEF SocketsInv, OpenIsActive, SubscribeRoom, UnsubscribeRoom
<1>7. CASE SocketCloses(d)
    BY <1>1, <1>7 DEF SocketsInv, OpenIsActive, SocketCloses
<1> QED BY <1>2, <1>3, <1>4, <1>5, <1>6, <1>7 DEF OfDevices

LEMMA DeviceListeners ==
    ASSUME IInv, NEW d \in Devices, OfDevices(d)
    PROVE  SubscribersAllowed'
<1>1. SubscribersAllowed
    BY DEF IInv
<1>2. CASE SubscribeRoom(d)
  <2>1. UNCHANGED <<rules, team, room, unsettled>> /\ subscribed' = subscribed \cup {d}
      BY <1>2 DEF SubscribeRoom
  <2>2. \A e \in Devices : Allowed(UserOf[e], "subscribe", NoPath) => Allowed(UserOf[e], "subscribe", NoPath)'
      BY <2>1, AllowedIs
  <2>3. Allowed(UserOf[d], "subscribe", NoPath)
      BY <1>2 DEF SubscribeRoom
  <2> SUFFICES ASSUME room, NEW e \in subscribed'
               PROVE  Allowed(UserOf[e], "subscribe", NoPath)' \/ UserOf[e] \in unsettled
      BY <2>1 DEF SubscribersAllowed
  <2>4. e \in Devices
      BY <2>1 DEF IInv, TypeOK
  <2> QED BY <1>1, <2>1, <2>2, <2>3, <2>4 DEF SubscribersAllowed
<1>3. CASE ~SubscribeRoom(d)
  <2>1. UNCHANGED <<rules, team, room, unsettled>> /\ subscribed' \subseteq subscribed
      BY <1>3 DEF OfDevices, AddDevice, RevokeDevice, RecoverOwnerDevice, RevokeRecoveredDevice,
                  KeepRecoveredDevice, Hello, UnsubscribeRoom, SocketCloses
  <2> QED BY <1>1, <2>1, ListenersStay
<1> QED BY <1>2, <1>3

LEMMA DeviceSteps ==
    ASSUME IInv, NEW d \in Devices, OfDevices(d)
    PROVE  IInv'
<1>1. UNCHANGED <<rules, team, room>>
    BY DEF OfDevices, AddDevice, RevokeDevice, RecoverOwnerDevice, RevokeRecoveredDevice,
           KeepRecoveredDevice, Hello, SubscribeRoom, UnsubscribeRoom, SocketCloses
<1> QED BY <1>1, DeviceTypes, DeviceSockets, DeviceListeners, RulesStay DEF IInv

LEMMA RevokeUserStep ==
    ASSUME IInv, NEW u \in Users, RevokeUser(u)
    PROVE  IInv'
<1>1. /\ TypeOK /\ socket' = Closing({d \in Devices : UserOf[d] = u})
      /\ revoked' = revoked \cup {u} \cup {d \in enrolled : UserOf[d] = u}
      /\ UNCHANGED <<known, enrolled, recovering, team, room, rules, invite, subscribed, unsettled>>
    BY DEF IInv, RevokeUser
<1>2. /\ socket' \in [Devices -> {"none", "open", "closing"}]
      /\ \A e \in Devices : /\ socket'[e] = "open" => socket[e] = "open" /\ UserOf[e] # u
                            /\ socket'[e] # "none" => socket[e] # "none"
    BY <1>1, ClosingIs
<1>3. TypeOK'
    BY <1>1, <1>2 DEF TypeOK
<1>4. SocketsInv' /\ OpenIsActive'
  <2>1. \A e \in Devices : e # u /\ UserOf[e] \notin Devices
      BY AccessAssumption
  <2>2. SocketsInv /\ OpenIsActive /\ enrolled \subseteq Devices
      BY <1>1 DEF IInv, TypeOK
  <2> QED BY <1>1, <1>2, <2>1, <2>2 DEF SocketsInv, OpenIsActive
<1> QED BY <1>1, <1>3, <1>4, RulesStay, ListenersStay DEF IInv

-----------------------------------------------------------------------------
(* Teams: memberships change under the rules.                              *)

LEMMA TeamTypes ==
    ASSUME TypeOK, NEW t \in Teams
    PROVE  /\ team[t].members \subseteq Users
           /\ team[t].is \in {"unborn", "alive", "deleted"}
           /\ \A M \in SUBSET Users : [team[t] EXCEPT !.members = M]
                 \in [is: {"unborn", "alive", "deleted"}, members: SUBSET Users]
           /\ \A M : /\ [team[t] EXCEPT !.members = M].is = team[t].is
                     /\ [team[t] EXCEPT !.members = M].members = M
<1>1. team[t] \in [is: {"unborn", "alive", "deleted"}, members: SUBSET Users]
    BY DEF TypeOK
<1> QED BY <1>1

LEMMA CreateTeamStep ==
    ASSUME IInv, NEW t \in Teams, CreateTeam(t)
    PROVE  IInv'
<1>1. /\ TypeOK /\ RulesInv /\ DeadHoldNothing /\ SubscribersAllowed
      /\ team[t].is = "unborn"
      /\ team' = [team EXCEPT ![t] = [is |-> "alive", members |-> {Owner}]]
      /\ UNCHANGED <<known, enrolled, revoked, recovering, room, rules, invite, socket,
                     subscribed, unsettled>>
    BY DEF IInv, CreateTeam
<1>2. TypeOK'
  <2>1. [is |-> "alive", members |-> {Owner}]
            \in [is: {"unborn", "alive", "deleted"}, members: SUBSET Users]
      BY AccessAssumption
  <2> QED BY <1>1, <2>1 DEF TypeOK
<1>3. /\ team'[t].is = "alive"
      /\ \A s \in Teams : s # t => team'[s] = team[s]
    BY <1>1 DEF TypeOK
<1>4. RulesInv' /\ DeadHoldNothing'
    BY <1>1, <1>3 DEF RulesInv, DeadHoldNothing
<1>5. SubscribersAllowed'
  <2> SUFFICES ASSUME room', NEW d \in subscribed', UserOf[d] \notin unsettled'
               PROVE  Allowed(UserOf[d], "subscribe", NoPath)'
      BY DEF SubscribersAllowed
  <2>1. Allowed(UserOf[d], "subscribe", NoPath)
      BY <1>1 DEF SubscribersAllowed
  <2>2. \A r \in RulesOf(rules) : r.subject \in Teams => team'[r.subject] = team[r.subject]
      BY <1>1, <1>3 DEF RulesInv
  <2>3. MayIn(RulesOf(rules), team, UserOf[d], "subscribe", NoPath)
      BY <2>1, AllowedIs
  <2>4. MayIn(RulesOf(rules), team', UserOf[d], "subscribe", NoPath)
      BY <2>2, <2>3, NobodyHoldsIn
  <2> QED BY <1>1, <2>4, AllowedIs
<1> QED BY <1>1, <1>2, <1>4, <1>5, SocketsStay DEF IInv

\* Whoever is admitted to a team is unsettled; nobody else notices.
LEMMA Admission ==
    ASSUME IInv, NEW t \in Teams, NEW u \in Users, team[t].is = "alive",
           team' = [team EXCEPT ![t].members = @ \cup {u}],
           unsettled' = unsettled \cup {u}, UNCHANGED <<rules, room, subscribed>>
    PROVE  /\ team' \in [Teams -> [is: {"unborn", "alive", "deleted"}, members: SUBSET Users]]
           /\ RulesInv' /\ DeadHoldNothing' /\ SubscribersAllowed'
<1> DEFINE new == [team[t] EXCEPT !.members = team[t].members \cup {u}]
<1>1. /\ TypeOK /\ RulesInv /\ DeadHoldNothing /\ SubscribersAllowed
      /\ team \in [Teams -> [is: {"unborn", "alive", "deleted"}, members: SUBSET Users]]
    BY DEF IInv, TypeOK
<1>2. /\ new \in [is: {"unborn", "alive", "deleted"}, members: SUBSET Users]
      /\ new.is = "alive" /\ new.members = team[t].members \cup {u}
    BY <1>1, TeamTypes
<1>3. team' = [team EXCEPT ![t] = new]
    OBVIOUS
<1> HIDE DEF new
<1>4. /\ team' \in [Teams -> [is: {"unborn", "alive", "deleted"}, members: SUBSET Users]]
      /\ \A s \in Teams : /\ team'[s].is = team[s].is
                          /\ s # t => team'[s] = team[s]
                          /\ s = t => team'[s].members = team[t].members \cup {u}
    BY <1>1, <1>2, <1>3
<1>5. RulesInv' /\ DeadHoldNothing'
    BY <1>1, <1>4 DEF RulesInv, DeadHoldNothing
<1>6. SubscribersAllowed'
  <2> SUFFICES ASSUME room', NEW d \in subscribed', UserOf[d] \notin unsettled'
               PROVE  Allowed(UserOf[d], "subscribe", NoPath)'
      BY DEF SubscribersAllowed
  <2>1. Allowed(UserOf[d], "subscribe", NoPath) /\ UserOf[d] # u
      BY <1>1 DEF SubscribersAllowed
  <2>2. \A s \in Teams : UserOf[d] \in team'[s].members <=> UserOf[d] \in team[s].members
      BY <1>4, <2>1
  <2>3. MayIn(RulesOf(rules), team, UserOf[d], "subscribe", NoPath)
      BY <2>1, AllowedIs
  <2>4. MayIn(RulesOf(rules), team', UserOf[d], "subscribe", NoPath)
      BY <2>2, <2>3, NobodyHoldsIn
  <2> QED BY <2>4, AllowedIs
<1> QED BY <1>4, <1>5, <1>6

LEMMA AddTeamMemberStep ==
    ASSUME IInv, NEW t \in Teams, NEW u \in Users, AddTeamMember(t, u)
    PROVE  IInv'
<1>1. /\ TypeOK /\ team[t].is = "alive"
      /\ team' = [team EXCEPT ![t].members = @ \cup {u}] /\ unsettled' = unsettled \cup {u}
      /\ UNCHANGED <<known, enrolled, revoked, recovering, room, rules, invite, socket, subscribed>>
    BY DEF IInv, AddTeamMember
<1>2. /\ team' \in [Teams -> [is: {"unborn", "alive", "deleted"}, members: SUBSET Users]]
      /\ RulesInv' /\ DeadHoldNothing' /\ SubscribersAllowed'
    BY <1>1, Admission
<1>3. TypeOK'
    BY <1>1, <1>2 DEF TypeOK
<1> QED BY <1>1, <1>2, <1>3, SocketsStay DEF IInv

LEMMA RevokeMemberStep ==
    ASSUME IInv, NEW t \in Teams, NEW u \in Users, RevokeMember(t, u)
    PROVE  IInv'
<1> DEFINE new == [team[t] EXCEPT !.members = team[t].members \ {u}]
<1>1. /\ TypeOK /\ RulesInv /\ DeadHoldNothing /\ team[t].is = "alive" /\ Revalidate
      /\ team' = [team EXCEPT ![t].members = @ \ {u}]
      /\ UNCHANGED <<known, enrolled, revoked, recovering, room, rules, invite, socket>>
      /\ team \in [Teams -> [is: {"unborn", "alive", "deleted"}, members: SUBSET Users]]
    BY DEF IInv, RevokeMember, TypeOK
<1>2. /\ new \in [is: {"unborn", "alive", "deleted"}, members: SUBSET Users]
      /\ new.is = "alive"
    BY <1>1, TeamTypes
<1>3. team' = [team EXCEPT ![t] = new]
    BY <1>1
<1> HIDE DEF new
<1>4. /\ team' \in [Teams -> [is: {"unborn", "alive", "deleted"}, members: SUBSET Users]]
      /\ \A s \in Teams : /\ team'[s].is = team[s].is
                          /\ s # t => team'[s] = team[s]
    BY <1>1, <1>2, <1>3
<1>5. RulesInv' /\ DeadHoldNothing'
    BY <1>1, <1>4 DEF RulesInv, DeadHoldNothing
<1>6. SubscribersAllowed' /\ subscribed' \subseteq Devices /\ unsettled' \subseteq Users
    BY <1>1, RevalidateKeeps
<1>7. TypeOK'
    BY <1>1, <1>4, <1>6 DEF TypeOK
<1> QED BY <1>1, <1>5, <1>6, <1>7, SocketsStay DEF IInv

LEMMA EmptyRules ==
    ASSUME NEW rs \in Seq(Rule), RulesOf(rs) = {}
    PROVE  rs = <<>>
<1>1. Len(rs) \in Nat /\ \A k \in 1..Len(rs) : rs[k] \in RulesOf(rs)
    BY DEF RulesOf
<1>2. Len(rs) = 0
    BY <1>1
<1> QED BY <1>2

LEMMA DeleteTeamStep ==
    ASSUME IInv, NEW t \in Teams, DeleteTeam(t)
    PROVE  IInv'
<1> DEFINE K == {k \in DOMAIN rules : rules[k].subject # t}
<1>1. /\ TypeOK /\ RulesInv /\ DeadHoldNothing /\ Revalidate
      /\ team' = [team EXCEPT ![t] = [is |-> "deleted", members |-> {}]]
      /\ rules' = Only(rules, K)
      /\ UNCHANGED <<known, enrolled, revoked, recovering, room, socket>>
    BY DEF IInv, DeleteTeam
<1>2. rules \in Seq(Rule) /\ K \in SUBSET DOMAIN rules
    BY <1>1 DEF TypeOK
<1>3. rules' \in Seq(Rule) /\ RulesOf(rules') = {rules[k] : k \in K}
    BY <1>1, <1>2, OnlyKeeps
<1>4. /\ team' \in [Teams -> [is: {"unborn", "alive", "deleted"}, members: SUBSET Users]]
      /\ \A s \in Teams : s # t => team'[s] = team[s]
      /\ team'[t].members = {} /\ team'[t].is = "deleted"
  <2>1. [is |-> "deleted", members |-> {}]
            \in [is: {"unborn", "alive", "deleted"}, members: SUBSET Users]
      OBVIOUS
  <2> QED BY <1>1, <2>1 DEF TypeOK
<1>5. RulesInv'
  <2>1. \A r \in RulesOf(rules') : r \in RulesOf(rules) /\ r.subject # t
      BY <1>3 DEF RulesOf
  <2> QED BY <1>1, <1>4, <2>1 DEF RulesInv
<1>6. DeadHoldNothing'
  <2>1. ~room => RulesOf(rules') = {}
      BY <1>1, <1>3 DEF DeadHoldNothing
  <2>2. ~room => rules' = <<>>
      BY <1>3, <2>1, EmptyRules
  <2> QED BY <1>1, <1>4, <2>2 DEF DeadHoldNothing
<1>7. SubscribersAllowed' /\ subscribed' \subseteq Devices /\ unsettled' \subseteq Users
    BY <1>1, RevalidateKeeps
<1>8. invite' \in [Invites -> Invite \cup {None}]
    BY <1>1 DEF DeleteTeam, TypeOK
<1>9. TypeOK'
    BY <1>1, <1>3, <1>4, <1>7, <1>8 DEF TypeOK
<1> QED BY <1>1, <1>5, <1>6, <1>7, <1>9, SocketsStay DEF IInv

-----------------------------------------------------------------------------
(* Rules: by request, and by an invite that is used.                       *)

LEMMA AskedRulesAreRules ==
    ASSUME NEW rule \in AskedRules
    PROVE  rule \in Rule
<1>1. \A P \in {Reader, Editor} \cup {Blocked} \cup Custom : P \in (SUBSET Permissions) \ {{}}
    BY AccessAssumption DEF Reader, Editor, Blocked, Permissions
<1> QED BY <1>1, AccessAssumption DEF AskedRules, Rule

\* Where the rules of a request come from.
LEMMA NewRulesAre ==
    ASSUME NEW rs \in Seq(Rule), NEW rule \in Rule, NEW new,
           Gives(RulesOf(rs), new, rule) \/ new = RulesOf(rs) \cup {rule}, new \in SUBSET Rule
    PROVE  \A r \in new : r = rule \/ \E o \in RulesOf(rs) : o.subject = r.subject
BY DEF Gives, Rule

LEMMA CreateAclRuleStep ==
    ASSUME IInv, NEW rule \in AskedRules, CreateAclRule(rule)
    PROVE  IInv'
<1>1. /\ TypeOK /\ RulesInv /\ DeadHoldNothing /\ Revalidate /\ room
      /\ rule.subject \in Teams => team[rule.subject].is # "unborn"
      /\ rules' = WithRule(rules, rule)
      /\ UNCHANGED <<known, enrolled, revoked, recovering, team, room, invite, socket>>
    BY DEF IInv, CreateAclRule
<1>2. rule \in Rule /\ rules \in Seq(Rule)
    BY <1>1, AskedRulesAreRules DEF TypeOK
<1>3. /\ rules' \in Seq(Rule)
      /\ \/ Gives(RulesOf(rules), RulesOf(rules'), rule)
         \/ RulesOf(rules') = RulesOf(rules) \cup {rule}
    BY <1>1, <1>2, WithRuleIs
<1>4. RulesOf(rules') \in SUBSET Rule
    BY <1>3 DEF RulesOf
<1>5. RulesInv'
  <2>1. \A r \in RulesOf(rules') : r = rule \/ \E o \in RulesOf(rules) : o.subject = r.subject
      BY <1>2, <1>3, <1>4, NewRulesAre
  <2> QED BY <1>1, <2>1 DEF RulesInv
<1>6. DeadHoldNothing'
    BY <1>1 DEF DeadHoldNothing
<1>7. SubscribersAllowed' /\ subscribed' \subseteq Devices /\ unsettled' \subseteq Users
    BY <1>1, RevalidateKeeps
<1>8. TypeOK'
    BY <1>1, <1>3, <1>7 DEF TypeOK
<1> QED BY <1>1, <1>5, <1>6, <1>7, <1>8, SocketsStay DEF IInv

LEMMA DeleteAclRuleStep ==
    ASSUME IInv, NEW k \in DOMAIN rules, DeleteAclRule(k)
    PROVE  IInv'
<1> DEFINE K == DOMAIN rules \ {k}
<1>1. /\ TypeOK /\ RulesInv /\ DeadHoldNothing /\ Revalidate /\ room
      /\ rules' = Only(rules, K) /\ rules \in Seq(Rule)
      /\ UNCHANGED <<known, enrolled, revoked, recovering, team, room, invite, socket>>
    BY DEF IInv, DeleteAclRule, TypeOK
<1>2. rules' \in Seq(Rule) /\ RulesOf(rules') = {rules[j] : j \in K}
    BY <1>1, OnlyKeeps
<1>3. RulesInv' /\ DeadHoldNothing'
    BY <1>1, <1>2 DEF RulesInv, DeadHoldNothing, RulesOf
<1>4. SubscribersAllowed' /\ subscribed' \subseteq Devices /\ unsettled' \subseteq Users
    BY <1>1, RevalidateKeeps
<1>5. TypeOK'
    BY <1>1, <1>2, <1>4 DEF TypeOK
<1> QED BY <1>1, <1>3, <1>4, <1>5, SocketsStay DEF IInv

LEMMA DeleteRoomStep ==
    ASSUME IInv, DeleteRoom
    PROVE  IInv'
<1>1. /\ TypeOK /\ DeadHoldNothing /\ room' = FALSE /\ rules' = <<>>
      /\ UNCHANGED <<known, enrolled, revoked, recovering, team, socket, subscribed, unsettled>>
    BY DEF IInv, DeleteRoom
<1>2. invite' \in [Invites -> Invite \cup {None}]
    BY <1>1 DEF DeleteRoom, TypeOK
<1>3. TypeOK'
  <2>1. rules' \in Seq(Rule)
    <3>1. <<>> \in Seq(Rule)
        OBVIOUS
    <3> QED BY <1>1, <3>1
  <2>2. room' \in BOOLEAN
      BY <1>1
  <2> QED BY <1>1, <1>2, <2>1, <2>2 DEF TypeOK
<1>4. RulesInv' /\ DeadHoldNothing' /\ SubscribersAllowed'
    BY <1>1 DEF RulesInv, RulesOf, DeadHoldNothing, SubscribersAllowed
<1> QED BY <1>1, <1>3, <1>4, SocketsStay DEF IInv

\* Using an invite gives something and takes nothing.
LEMMA UseKeeps ==
    ASSUME IInv, NEW i \in Invites, NEW u \in Users, Valid(i), Use(i, u),
           UNCHANGED <<room, subscribed>>
    PROVE  /\ team' \in [Teams -> [is: {"unborn", "alive", "deleted"}, members: SUBSET Users]]
           /\ rules' \in Seq(Rule) /\ unsettled' \subseteq Users
           /\ invite' \in [Invites -> Invite \cup {None}]
           /\ RulesInv' /\ DeadHoldNothing' /\ SubscribersAllowed'
<1>1. /\ TypeOK /\ RulesInv /\ DeadHoldNothing /\ SubscribersAllowed
      /\ rules \in Seq(Rule) /\ unsettled \subseteq Users
      /\ team \in [Teams -> [is: {"unborn", "alive", "deleted"}, members: SUBSET Users]]
    BY DEF IInv, TypeOK
<1>2. invite \in [Invites -> Invite \cup {None}] /\ invite[i] \in Invite /\ invite[i].left > 0
    BY <1>1 DEF TypeOK, Valid
<1>3. invite' \in [Invites -> Invite \cup {None}]
  <2>1. MaxUses \in Nat /\ invite[i].left \in 0..MaxUses
      BY <1>2, InviteTypes, AccessAssumption
  <2>2. invite[i].left - 1 \in 0..MaxUses
      BY <1>2, <2>1
  <2>3. [invite[i] EXCEPT !.left = invite[i].left - 1] \in Invite
      BY <1>2, <2>2, InviteTypes
  <2>4. invite' = [invite EXCEPT ![i] = [invite[i] EXCEPT !.left = invite[i].left - 1]]
      BY DEF Use
  <2> QED BY <1>2, <2>3, <2>4
<1>4. CASE /\ invite[i].target = "team"
           /\ team' = [team EXCEPT ![invite[i].team].members = @ \cup {u}]
           /\ unsettled' = unsettled \cup {u}
           /\ UNCHANGED rules
  <2>1. invite[i].team \in Teams /\ team[invite[i].team].is = "alive"
      BY <1>2, <1>4, InviteTypes DEF Valid
  <2>2. /\ team' \in [Teams -> [is: {"unborn", "alive", "deleted"}, members: SUBSET Users]]
        /\ RulesInv' /\ DeadHoldNothing' /\ SubscribersAllowed'
      BY <1>4, <2>1, Admission
  <2> QED BY <1>1, <1>3, <1>4, <2>2
<1>5. CASE /\ invite[i].target = "room"
           /\ rules' = WithGrant(rules, u, invite[i].preset)
           /\ UNCHANGED <<team, unsettled>>
  <2> DEFINE preset == invite[i].preset
             g == Grant(u, preset)
  <2>1. preset \in {Reader, Editor} /\ room
      BY <1>2, <1>5, InviteTypes DEF Valid
  <2> HIDE DEF preset
  <2>2. rules' = WithGrant(rules, u, preset)
      BY <1>5 DEF preset
  <2>3. rules' \in Seq(Rule) /\ Gives(RulesOf(rules), RulesOf(rules'), g)
      BY <1>1, <2>1, <2>2, WithGrantIs
  <2>4. /\ g \in Rule /\ g.effect = "allow" /\ g.subject \notin Teams /\ "subscribe" \in g.perms
      BY <2>1, AccessAssumption DEF Grant, Rule, Reader, Editor, Permissions
  <2> HIDE DEF g
  <2>5. RulesInv'
    <3>1. RulesOf(rules') \in SUBSET Rule
        BY <2>3 DEF RulesOf
    <3>2. \A r \in RulesOf(rules') : r = g \/ \E o \in RulesOf(rules) : o.subject = r.subject
        BY <1>1, <2>3, <2>4, <3>1, NewRulesAre
    <3> QED BY <1>1, <1>5, <2>4, <3>2 DEF RulesInv
  <2>6. DeadHoldNothing'
      BY <1>1, <1>5, <2>1 DEF DeadHoldNothing
  <2>7. SubscribersAllowed'
    <3> SUFFICES ASSUME room', NEW d \in subscribed', UserOf[d] \notin unsettled'
                 PROVE  Allowed(UserOf[d], "subscribe", NoPath)'
        BY DEF SubscribersAllowed
    <3>1. Allowed(UserOf[d], "subscribe", NoPath)
        BY <1>1, <1>5 DEF SubscribersAllowed
    <3>2. MayIn(RulesOf(rules), team, UserOf[d], "subscribe", NoPath)
        BY <3>1, AllowedIs
    <3>3. MayIn(RulesOf(rules'), team, UserOf[d], "subscribe", NoPath)
        BY <2>3, <2>4, <3>2, GrantTakesNothing
    <3> QED BY <1>5, <3>3, AllowedIs
  <2> QED BY <1>1, <1>3, <1>5, <2>3, <2>5, <2>6, <2>7
<1> QED BY <1>4, <1>5 DEF Use

LEMMA AcceptInviteStep ==
    ASSUME IInv, NEW i \in Invites, NEW u \in Users, AcceptInvite(i, u)
    PROVE  IInv'
<1>1. /\ Valid(i) /\ Use(i, u) /\ TypeOK
      /\ UNCHANGED <<known, enrolled, revoked, recovering, room, socket, subscribed>>
    BY DEF IInv, AcceptInvite
<1>2. /\ team' \in [Teams -> [is: {"unborn", "alive", "deleted"}, members: SUBSET Users]]
      /\ rules' \in Seq(Rule) /\ unsettled' \subseteq Users
      /\ invite' \in [Invites -> Invite \cup {None}]
      /\ RulesInv' /\ DeadHoldNothing' /\ SubscribersAllowed'
    BY <1>1, UseKeeps
<1>3. TypeOK'
    BY <1>1, <1>2 DEF TypeOK
<1> QED BY <1>1, <1>2, <1>3, SocketsStay DEF IInv

LEMMA JoinInviteStep ==
    ASSUME IInv, NEW i \in Invites, NEW d \in Devices, JoinInvite(i, d)
    PROVE  IInv'
<1>1. /\ Valid(i) /\ Use(i, UserOf[d]) /\ TypeOK /\ SocketsInv /\ OpenIsActive
      /\ known' = known \cup {UserOf[d]} /\ enrolled' = enrolled \cup {d} /\ d \notin enrolled
      /\ UNCHANGED <<revoked, recovering, room, socket, subscribed>>
    BY DEF IInv, JoinInvite
<1>2. UserOf[d] \in Users
    BY AccessAssumption
<1>3. /\ team' \in [Teams -> [is: {"unborn", "alive", "deleted"}, members: SUBSET Users]]
      /\ rules' \in Seq(Rule) /\ unsettled' \subseteq Users
      /\ invite' \in [Invites -> Invite \cup {None}]
      /\ RulesInv' /\ DeadHoldNothing' /\ SubscribersAllowed'
    BY <1>1, <1>2, UseKeeps
<1>4. TypeOK'
    BY <1>1, <1>2, <1>3 DEF TypeOK
<1>5. SocketsInv' /\ OpenIsActive'
    BY <1>1 DEF SocketsInv, OpenIsActive
<1> QED BY <1>3, <1>4, <1>5 DEF IInv

-----------------------------------------------------------------------------
LEMMA Initially ==
    Init => IInv
<1> SUFFICES ASSUME Init PROVE IInv
    OBVIOUS
<1>1. TypeOK
  <2>1. <<>> \in Seq(Rule)
      OBVIOUS
  <2>2. team \in [Teams -> [is: {"unborn", "alive", "deleted"}, members: SUBSET Users]]
      BY AccessAssumption DEF Init
  <2> QED BY <2>1, <2>2, AccessAssumption DEF Init, TypeOK
<1>2. SocketsInv /\ OpenIsActive /\ SubscribersAllowed
    BY DEF Init, SocketsInv, OpenIsActive, SubscribersAllowed
<1>3. RulesInv /\ DeadHoldNothing
    BY DEF Init, RulesInv, RulesOf, DeadHoldNothing
<1> QED BY <1>1, <1>2, <1>3 DEF IInv

LEMMA StepsKeepIInv ==
    IInv /\ [Next]_vars => IInv'
<1> SUFFICES ASSUME IInv, [Next]_vars PROVE IInv'
    OBVIOUS
<1>1. ASSUME NEW t \in Teams, CreateTeam(t) \/ DeleteTeam(t) PROVE IInv'
    BY <1>1, CreateTeamStep, DeleteTeamStep
<1>2. ASSUME NEW t \in Teams, NEW u \in Users, AddTeamMember(t, u) \/ RevokeMember(t, u) PROVE IInv'
    BY <1>2, AddTeamMemberStep, RevokeMemberStep
<1>3. ASSUME NEW rule \in AskedRules, CreateAclRule(rule) PROVE IInv'
    BY <1>3, CreateAclRuleStep
<1>4. ASSUME NEW k \in DOMAIN rules, DeleteAclRule(k) PROVE IInv'
    BY <1>4, DeleteAclRuleStep
<1>5. CASE DeleteRoom
    BY <1>5, DeleteRoomStep
<1>6. ASSUME NEW i \in Invites, NEW uses \in 1..MaxUses,
             \/ \E t \in Teams : AskTeamInvite(i, t, uses)
             \/ \E preset \in {Reader, Editor} : AskRoomInvite(i, preset, uses)
      PROVE IInv'
    BY <1>6, InviteSteps
<1>7. ASSUME NEW i \in Invites, CreateInvite(i) \/ ExpireInvite(i) PROVE IInv'
    BY <1>7, OldInviteSteps
<1>8. ASSUME NEW i \in Invites, NEW d \in Devices, JoinInvite(i, d) PROVE IInv'
    BY <1>8, JoinInviteStep
<1>9. ASSUME NEW i \in Invites, NEW u \in Users, AcceptInvite(i, u) PROVE IInv'
    BY <1>9, AcceptInviteStep
<1>10. ASSUME NEW u \in Users, RevokeUser(u) PROVE IInv'
    BY <1>10, RevokeUserStep
<1>11. ASSUME NEW d \in Devices, OfDevices(d) PROVE IInv'
    BY <1>11, DeviceSteps
<1>12. CASE UNCHANGED vars
  <2>1. TypeOK'
      BY <1>12 DEF IInv, TypeOK, vars
  <2>2. UNCHANGED <<socket, enrolled, recovering, revoked, rules, team, room, subscribed, unsettled>>
      BY <1>12 DEF vars
  <2> QED BY <2>1, <2>2, SocketsStay, RulesStay, ListenersStay DEF IInv
<1> QED BY <1>1, <1>2, <1>3, <1>4, <1>5, <1>6, <1>7, <1>8, <1>9, <1>10, <1>11, <1>12 DEF Next, OfDevices

\* The inductive invariant holds in every reachable state.
THEOREM Invariance == Spec => []IInv
<1> QED BY Initially, StepsKeepIInv, PTL DEF Spec

\* No connection stays open for what is revoked, a deleted room has no rules and a deleted
\* team no members, whichever requests cross.
THEOREM RevocationsTakeEffect == Spec => []RevocationTakesEffect
<1>1. IInv => RevocationTakesEffect
    BY DEF IInv, RevocationTakesEffect
<1> QED BY <1>1, Invariance, PTL

\* Whoever listens to the room may, except someone a team admitted since the rules were last
\* applied.
THEOREM SubscribersStayAllowed == Spec => []SubscribersAllowed
<1>1. IInv => SubscribersAllowed
    BY DEF IInv
<1> QED BY <1>1, Invariance, PTL

-----------------------------------------------------------------------------
(* A grant takes effect.                                                   *)

GrantedIn(R, u) == {r.perms : r \in {q \in R : /\ q.subject = u /\ q.effect = "allow"
                                               /\ q.pattern = Whole}}

ElsewhereIn(R, T, u, p, path) ==
    \E r \in R : /\ r.effect = "deny" /\ p \in r.perms /\ path \in Covers[r.pattern]
                 /\ \/ r.subject \in Teams /\ u \in T[r.subject].members
                    \/ r.subject = u /\ r.pattern # Whole

\* A new grant of R, from S: at once it is worth what it says.
Worth(R, S, T) ==
    \A u \in Users : \A perms \in GrantedIn(S, u) \ GrantedIn(R, u) :
       \A p \in perms, path \in Paths : MayIn(S, T, u, p, path) \/ ElsewhereIn(S, T, u, p, path)

LEMMA GivesItsWorth ==
    ASSUME NEW R, NEW S, NEW T, NEW g, Gives(R, S, g), g.effect = "allow"
    PROVE  Worth(R, S, T)
<1> SUFFICES ASSUME NEW u \in Users, NEW perms \in GrantedIn(S, u), perms \notin GrantedIn(R, u),
                    NEW p \in perms, NEW path \in Paths, ~ElsewhereIn(S, T, u, p, path)
             PROVE  MayIn(S, T, u, p, path)
    BY DEF Worth
<1>1. g \in S /\ g.subject = u /\ g.pattern = Whole /\ g.perms = perms
    BY DEF GrantedIn, Gives
<1>2. path \in Covers[Whole]
    BY AccessAssumption
<1>3. MatchesIn(S, T, "allow", u, p, path)
    BY <1>1, <1>2 DEF MatchesIn
<1>4. ~MatchesIn(S, T, "deny", u, p, path)
  <2> SUFFICES ASSUME NEW r \in S, r.effect = "deny", p \in r.perms, path \in Covers[r.pattern],
                      r.subject = u \/ (r.subject \in Teams /\ u \in T[r.subject].members)
               PROVE  FALSE
      BY DEF MatchesIn
  <2>1. r.subject = u /\ r.pattern = Whole
      BY DEF ElsewhereIn
  <2>2. r.perms \cap g.perms = {}
      BY <1>1, <2>1 DEF Gives
  <2> QED BY <1>1, <2>2
<1> QED BY <1>3, <1>4 DEF MayIn

\* A step that gives nothing to anybody.
LEMMA NothingGiven ==
    ASSUME NEW R, NEW S, NEW T, \A r \in S : r.effect = "allow" => r \in R
    PROVE  Worth(R, S, T)
BY DEF Worth, GrantedIn

LEMMA WorthIs ==
    ASSUME Worth(RulesOf(rules), RulesOf(rules'), team')
    PROVE  \A u \in Users : \A perms \in Granted(u, rules') \ Granted(u, rules) :
              \A p \in perms, path \in Paths :
                 Allowed(u, p, path)' \/ DeniedElsewhere(u, p, path)'
<1> SUFFICES ASSUME NEW u \in Users, NEW perms \in Granted(u, rules') \ Granted(u, rules),
                    NEW p \in perms, NEW path \in Paths
             PROVE  Allowed(u, p, path)' \/ DeniedElsewhere(u, p, path)'
    OBVIOUS
<1>1. \A rs : Granted(u, rs) = GrantedIn(RulesOf(rs), u)
    BY DEF Granted, GrantedIn, RulesOf
<1>2. ElsewhereIn(RulesOf(rules'), team', u, p, path) => DeniedElsewhere(u, p, path)'
    BY DEF ElsewhereIn, DeniedElsewhere, RulesOf, TeamsOf
<1>3. \/ MayIn(RulesOf(rules'), team', u, p, path)
      \/ ElsewhereIn(RulesOf(rules'), team', u, p, path)
    BY <1>1 DEF Worth
<1> QED BY <1>2, <1>3, AllowedIs

LEMMA CreatedRulesTakeEffect ==
    ASSUME IInv, NEW rule \in AskedRules, CreateAclRule(rule)
    PROVE  Worth(RulesOf(rules), RulesOf(rules'), team')
<1>1. rule \in Rule /\ rules \in Seq(Rule) /\ rules' = WithRule(rules, rule)
    BY AskedRulesAreRules DEF IInv, TypeOK, CreateAclRule
<1>2. CASE rule.effect = "allow"
    BY <1>1, <1>2, WithRuleIs, GivesItsWorth
<1>3. CASE rule.effect # "allow"
  <2>1. RulesOf(rules') = RulesOf(rules) \cup {rule}
      BY <1>1, <1>3, WithRuleIs
  <2> QED BY <1>3, <2>1, NothingGiven
<1> QED BY <1>2, <1>3

LEMMA UsedInvitesTakeEffect ==
    ASSUME IInv, NEW i \in Invites, NEW u \in Users, Valid(i), Use(i, u)
    PROVE  Worth(RulesOf(rules), RulesOf(rules'), team')
<1>1. rules \in Seq(Rule) /\ invite[i] \in Invite
    BY DEF IInv, TypeOK, Valid
<1>2. CASE UNCHANGED rules
    BY <1>2, NothingGiven
<1>3. CASE invite[i].target = "room" /\ rules' = WithGrant(rules, u, invite[i].preset)
  <2> DEFINE preset == invite[i].preset
  <2>1. preset \in {Reader, Editor}
      BY <1>1, <1>3, InviteTypes
  <2> HIDE DEF preset
  <2>2. Gives(RulesOf(rules), RulesOf(rules'), Grant(u, preset))
      BY <1>1, <1>3, <2>1, WithGrantIs DEF preset
  <2>3. Grant(u, preset).effect = "allow"
      BY DEF Grant
  <2> QED BY <2>2, <2>3, GivesItsWorth
<1> QED BY <1>2, <1>3 DEF Use

LEMMA StepsTakeEffect ==
    ASSUME IInv, [Next]_vars
    PROVE  Worth(RulesOf(rules), RulesOf(rules'), team')
<1>1. rules \in Seq(Rule)
    BY DEF IInv, TypeOK
<1>2. ASSUME NEW t \in Teams, DeleteTeam(t) PROVE Worth(RulesOf(rules), RulesOf(rules'), team')
  <2> DEFINE K == {k \in DOMAIN rules : rules[k].subject # t}
  <2>1. rules' = Only(rules, K) /\ K \in SUBSET DOMAIN rules
      BY <1>2 DEF DeleteTeam
  <2>2. RulesOf(rules') = {rules[k] : k \in K}
      BY <1>1, <2>1, OnlyKeeps
  <2>3. RulesOf(rules') \subseteq RulesOf(rules)
      BY <2>2 DEF RulesOf
  <2> QED BY <2>3, NothingGiven
<1>3. ASSUME NEW k \in DOMAIN rules, DeleteAclRule(k)
      PROVE  Worth(RulesOf(rules), RulesOf(rules'), team')
  <2> DEFINE K == DOMAIN rules \ {k}
  <2>1. rules' = Only(rules, K) /\ K \in SUBSET DOMAIN rules
      BY <1>3 DEF DeleteAclRule
  <2>2. RulesOf(rules') = {rules[j] : j \in K}
      BY <1>1, <2>1, OnlyKeeps
  <2>3. RulesOf(rules') \subseteq RulesOf(rules)
      BY <2>2 DEF RulesOf
  <2> QED BY <2>3, NothingGiven
<1>4. CASE DeleteRoom
  <2>1. RulesOf(rules') = {}
      BY <1>4 DEF DeleteRoom, RulesOf
  <2> QED BY <2>1, NothingGiven
<1>5. ASSUME NEW rule \in AskedRules, CreateAclRule(rule)
      PROVE  Worth(RulesOf(rules), RulesOf(rules'), team')
    BY <1>5, CreatedRulesTakeEffect
<1>6. ASSUME NEW i \in Invites, NEW d \in Devices, JoinInvite(i, d)
      PROVE  Worth(RulesOf(rules), RulesOf(rules'), team')
  <2>1. UserOf[d] \in Users
      BY AccessAssumption
  <2> QED BY <1>6, <2>1, UsedInvitesTakeEffect DEF JoinInvite
<1>7. ASSUME NEW i \in Invites, NEW u \in Users, AcceptInvite(i, u)
      PROVE  Worth(RulesOf(rules), RulesOf(rules'), team')
    BY <1>7, UsedInvitesTakeEffect DEF AcceptInvite
<1>8. CASE UNCHANGED rules
    BY <1>8, NothingGiven
<1>9. ASSUME NEW u \in Users, RevokeUser(u) PROVE UNCHANGED rules
    BY <1>9 DEF RevokeUser
<1>10. ASSUME NEW i \in Invites, NEW uses \in 1..MaxUses,
              \/ \E t \in Teams : AskTeamInvite(i, t, uses)
              \/ \E preset \in {Reader, Editor} : AskRoomInvite(i, preset, uses)
       PROVE  UNCHANGED rules
    BY <1>10 DEF AskTeamInvite, AskRoomInvite
<1>11. ASSUME NEW i \in Invites, CreateInvite(i) \/ ExpireInvite(i) PROVE UNCHANGED rules
    BY <1>11 DEF CreateInvite, ExpireInvite
<1>12. ASSUME NEW d \in Devices, OfDevices(d) PROVE UNCHANGED rules
    BY <1>12 DEF OfDevices, AddDevice, RevokeDevice, RecoverOwnerDevice, RevokeRecoveredDevice,
                 KeepRecoveredDevice, Hello, SubscribeRoom, UnsubscribeRoom, SocketCloses
<1>13. ASSUME UNCHANGED vars PROVE UNCHANGED rules
    BY <1>13 DEF vars
<1>14. ASSUME NEW t \in Teams, CreateTeam(t) PROVE UNCHANGED rules
    BY <1>14 DEF CreateTeam
<1>15. ASSUME NEW t \in Teams, NEW u \in Users, AddTeamMember(t, u) \/ RevokeMember(t, u)
       PROVE  UNCHANGED rules
    BY <1>15 DEF AddTeamMember, RevokeMember
<1> QED BY <1>2, <1>3, <1>4, <1>5, <1>6, <1>7, <1>8, <1>9, <1>10, <1>11, <1>12, <1>13, <1>14, <1>15
        DEF Next, OfDevices

\* Whoever is granted the room has at once what the grant says, unless a team or a rule
\* about a part of the room denies it.
THEOREM GrantsTakeEffect == Spec => GrantTakesEffect
<1> DEFINE Effect == \A u \in Users : \A perms \in Granted(u, rules') \ Granted(u, rules) :
                        \A p \in perms, path \in Paths :
                           Allowed(u, p, path)' \/ DeniedElsewhere(u, p, path)'
<1>1. IInv /\ [Next]_vars => Effect
    BY StepsTakeEffect, WorthIs
<1> HIDE DEF Effect
<1>2. Spec => [][Effect]_vars
    BY <1>1, Invariance, PTL DEF Spec
<1> QED BY <1>2 DEF GrantTakesEffect, Effect


-----------------------------------------------------------------------------
(* Devices with cached documents: FileRows, which the run checks beside    *)
(* Access.                                                                 *)

EpochsProofs == INSTANCE FileRows_proofs WITH
    Paths <- {"Note", "note", "other"}, Keys <- {"note", "other"},
    Key <- [p \in {"Note", "note", "other"} |-> IF p = "other" THEN "other" ELSE "note"],
    Contents <- {"x", "empty"}, Empty <- "empty", Ids <- 1..4,
    OldPaths <- {"Note", "note"},
    OldId <- [p \in {"Note", "note"} |-> IF p = "Note" THEN 1 ELSE 2], OldVersions <- {1},
    RenameTargets <- {}, Fetched <- {}, Opened <- {"note"}, MaxVersion <- 4, MaxEpoch <- 3

\* What stands for nothing, and what a quarantined name shows, are neither contents,
\* names, ids nor records.
Distinct ==
    /\ None \notin {"x", "empty"} \cup {"Note", "note", "other"} \cup 1 .. 4
    /\ None \notin [key : {"note", "other"}, version : Nat, content : {"x", "empty"}]
    /\ None \notin [key : {"note", "other"}, epoch : Nat, id : 1 .. 4 \cup {None}]
    /\ Paused \notin {"x", "empty"} /\ Paused # None

\* The instance is one FileRows admits.
LEMMA EpochsFit == ASSUME Distinct PROVE EpochsProofs!FileRowsAssumption
<1> DEFINE K == [p \in {"Note", "note", "other"} |-> IF p = "other" THEN "other" ELSE "note"]
           O == [p \in {"Note", "note"} |-> IF p = "Note" THEN 1 ELSE 2]
<1>1. K \in [{"Note", "note", "other"} -> {"note", "other"}]
    OBVIOUS
<1>2. O \in EpochsProofs!Injection({"Note", "note"}, 1 .. 4)
    BY DEF EpochsProofs!Injection, EpochsProofs!IsInjective
<1> HIDE DEF K, O
<1> QED BY <1>1, <1>2 DEF Distinct, EpochsProofs!FileRowsAssumption, K, O

\* It is the instance of the composition.
LEMMA SameInit == Epochs!Init => EpochsProofs!Init
BY DEF Epochs!Advance, EpochsProofs!Advance, Epochs!Crowded, EpochsProofs!Crowded, Epochs!Floor,
       EpochsProofs!Floor, Epochs!Init, EpochsProofs!Init, Epochs!Lifted, EpochsProofs!Lifted,
       Epochs!LiveAt, EpochsProofs!LiveAt, Epochs!Max, EpochsProofs!Max, Epochs!Migrated,
       EpochsProofs!Migrated, Epochs!NoRow, EpochsProofs!NoRow, Epochs!NoVersions,
       EpochsProofs!NoVersions, Epochs!OldFiles, EpochsProofs!OldFiles, Epochs!OldRow,
       EpochsProofs!OldRow, Epochs!RowsAt, EpochsProofs!RowsAt, Epochs!Versions,
       EpochsProofs!Versions

LEMMA SameNext == Epochs!Next => EpochsProofs!Next
BY DEF Epochs!Becomes, EpochsProofs!Becomes, Epochs!Bounded, EpochsProofs!Bounded,
       Epochs!Cached, EpochsProofs!Cached, Epochs!CreateCrdt, EpochsProofs!CreateCrdt,
       Epochs!CreateFile, EpochsProofs!CreateFile, Epochs!DeleteFile, EpochsProofs!DeleteFile,
       Epochs!DeleteNote, EpochsProofs!DeleteNote, Epochs!Device, EpochsProofs!Device,
       Epochs!Disable, EpochsProofs!Disable, Epochs!Drop, EpochsProofs!Drop, Epochs!Enable,
       EpochsProofs!Enable, Epochs!Fetch, EpochsProofs!Fetch, Epochs!FileRow,
       EpochsProofs!FileRow, Epochs!Floor, EpochsProofs!Floor, Epochs!Hold, EpochsProofs!Hold,
       Epochs!Install, EpochsProofs!Install, Epochs!IsFile, EpochsProofs!IsFile,
       Epochs!IsFresh, EpochsProofs!IsFresh, Epochs!IsUnused, EpochsProofs!IsUnused,
       Epochs!LiveAt, EpochsProofs!LiveAt, Epochs!LiveEditing, EpochsProofs!LiveEditing,
       Epochs!Materialize, EpochsProofs!Materialize, Epochs!Max, EpochsProofs!Max,
       Epochs!Next, EpochsProofs!Next, Epochs!NextVersion, EpochsProofs!NextVersion,
       Epochs!NoRow, EpochsProofs!NoRow, Epochs!NoVersions, EpochsProofs!NoVersions,
       Epochs!Overwrite, EpochsProofs!Overwrite, Epochs!OwnerActs, EpochsProofs!OwnerActs,
       Epochs!Quarantined, EpochsProofs!Quarantined, Epochs!Remove, EpochsProofs!Remove,
       Epochs!RowsAt, EpochsProofs!RowsAt, Epochs!Sight, EpochsProofs!Sight, Epochs!Stored,
       EpochsProofs!Stored, Epochs!UpdateFile, EpochsProofs!UpdateFile, Epochs!Versions,
       EpochsProofs!Versions, Epochs!WholeFile, EpochsProofs!WholeFile, Epochs!Write,
       EpochsProofs!Write

LEMMA SameType == EpochsProofs!TypeOK => Epochs!TypeOK
BY DEF Epochs!Cached, EpochsProofs!Cached, Epochs!FileRow, EpochsProofs!FileRow, Epochs!Sights,
       EpochsProofs!Sights, Epochs!Stored, EpochsProofs!Stored, Epochs!TypeOK,
       EpochsProofs!TypeOK, Epochs!Versions, EpochsProofs!Versions

LEMMA SameIsolated == EpochsProofs!StaleStateIsolated => Epochs!StaleStateIsolated
BY DEF Epochs!Cached, EpochsProofs!Cached, Epochs!LiveAt, EpochsProofs!LiveAt, Epochs!RowsAt,
       EpochsProofs!RowsAt, Epochs!StaleStateIsolated, EpochsProofs!StaleStateIsolated

\* A device that comes back with a cached document is admitted only to the note it is of,
\* in the composed specification the run checks, where nobody renames.
THEOREM StaleStaysIsolated == ASSUME Distinct PROVE MCSpec => []StaleStateIsolated
<1> DEFINE Good == EpochsProofs!IInv /\ EpochsProofs!HeldOK(rows, held)
           Watched == part = "epochs" => Good
<1>1. MCInit => Watched
  <2> SUFFICES ASSUME MCInit, part = "epochs"
               PROVE  Good
      OBVIOUS
  <2>1. EpochsProofs!Init
      BY SameInit DEF MCInit
  <2> QED BY <2>1, EpochsFit, EpochsProofs!InitHolds, EpochsProofs!NothingHeld
<1>2. Watched /\ [MCNext]_<<part, vars, rowsVars, oldVars, backupVars>> => Watched'
  <2> SUFFICES ASSUME Watched, [MCNext]_<<part, vars, rowsVars, oldVars, backupVars>>,
                      part' = "epochs"
               PROVE  Good'
      OBVIOUS
  <2>1. part = "epochs"
      BY DEF MCNext
  <2>2. EpochsProofs!Next \/ UNCHANGED rowsVars
      BY <2>1, SameNext DEF MCNext
  <2>3. [EpochsProofs!Next]_(EpochsProofs!vars)
      BY <2>2 DEF rowsVars, EpochsProofs!vars
  <2>4. EpochsProofs!IInv /\ EpochsProofs!HeldOK(rows, held)
      BY <2>1
  <2>5. EpochsProofs!IInv'
      BY <2>3, <2>4, EpochsFit, EpochsProofs!NextRefines
  <2>6. EpochsProofs!HeldOK(rows', held')
      BY <2>3, <2>4, EpochsFit, EpochsProofs!HeldStep
  <2> QED BY <2>5, <2>6
<1>3. Watched => StaleStateIsolated
  <2> SUFFICES ASSUME Good
               PROVE  Epochs!TypeOK /\ Epochs!StaleStateIsolated
      BY DEF StaleStateIsolated
  <2>1. EpochsProofs!TypeOK
      BY DEF EpochsProofs!IInv
  <2>2. EpochsProofs!StaleStateIsolated
      BY EpochsFit, EpochsProofs!HeldIsolated
  <2> QED BY <2>1, <2>2, SameType, SameIsolated
<1> HIDE DEF Watched
<1> QED BY <1>1, <1>2, <1>3, PTL DEF MCSpec

-----------------------------------------------------------------------------
(* Upgrades of old databases.                                              *)

\* A rule's id: the old rule's number and whose it is, or a number of its own.
Ids2 == Nat \X (OldUsers \cup {None})
NewRules == [id : Ids2, user : OldUsers, effect : {"allow", "deny"}, perms : {"reader", "editor", "blocked"}]
Members == [team : OldTeams, user : OldUsers, role : {"owner", "admin", "member"}, active : BOOLEAN]

Images == [schema : {"team", "released", "current"}, owners : [OldTeams -> OldUsers],
           members : SUBSET Members, oldRules : SUBSET Old!OldRule, rules : SUBSET NewRules,
           rooms : SUBSET Old!Room, shares : SUBSET Old!Room,
           marks : SUBSET {"legacy_v01_migrated", "acl_reader_denies_blocked"}]

OldApart == None \notin Images

\* An old rule is about a user or a role, and whoever owns a team is its owner by role too.
OldRulesMakeSense(img) ==
    /\ \A r \in img.oldRules : /\ r.kind = "user" => r.subject \in OldUsers
                               /\ r.kind = "role" => r.subject \in {"owner", "admin", "member"}
    /\ \A r \in img.oldRules, u \in OldUsers : Old!HasRole(img, r.team, u, "owner") <=> u = img.owners[r.team]

OneEach(s) == \A a, b \in s : a.id = b.id => a = b

\* A database that was never opened by this release.
Raw(img) ==
    /\ img \in Images
    /\ img.schema = "team" => /\ img.marks = {} /\ img.rules = {}
                              /\ OldRulesMakeSense(img) /\ OneEach(img.rooms) /\ OneEach(img.shares)
    /\ img.schema # "team" => "legacy_v01_migrated" \notin img.marks
    /\ \A r \in img.rules : r.id[1] < 2

HandMade(mm) == {x.id : x \in mm}

\* The rules about a user that nobody made by hand.
Inherited(img, u, mm) ==
    {[effect |-> r.effect, perms |-> r.perms] : r \in {s \in img.rules : s.user = u /\ s.id \notin HandMade(mm)}}

\* A database that this release has opened; f is what the first opening found.
Upgraded(img, f, mm) ==
    /\ img \in Images /\ img.schema = "current" /\ "acl_reader_denies_blocked" \in img.marks
    /\ "legacy_v01_migrated" \in img.marks <=> Old!IsV01(f)
    /\ f.schema = "team" => /\ \A u \in OldUsers : Inherited(img, u, mm) = Old!RulesOver(f, u)
                            /\ img.rooms = f.rooms \cup f.shares
    /\ \A r \in img.rules : r.id[1] < 2 + Cardinality(mm)
    /\ \A x \in mm : \A r \in img.rules : r.id = x.id => r.perms = x.perms

\* What was made by hand is numbered from 2.
ByHand(mm) ==
    /\ IsFiniteSet(mm)
    /\ \A x \in mm : x.id \in Ids2 /\ 2 <= x.id[1] /\ x.id[1] < 2 + Cardinality(mm)

UpgradeInv ==
    /\ ByHand(made)
    /\ first = None => opened = None /\ made = {} /\ Raw(image)
    /\ first # None => /\ Raw(first) /\ ~Old!Refused(first)
                       /\ image = first \/ Upgraded(image, first, made)
    /\ opened # None => first # None /\ Upgraded(opened, first, made)

LEMMA UpgradeGives ==
    ASSUME OldApart, UpgradeInv
    PROVE  /\ Old!MembersKeepTheirRules /\ Old!HandMadeRulesStay /\ Old!RoomsAreKept
           /\ Old!MarkTellsTheHistory
<1>1. Old!MembersKeepTheirRules
    BY DEF UpgradeInv, Upgraded, Inherited, HandMade, Old!MembersKeepTheirRules
<1>2. Old!HandMadeRulesStay
    BY DEF UpgradeInv, Upgraded, Old!HandMadeRulesStay
<1>3. Old!MarkTellsTheHistory
    BY DEF UpgradeInv, Upgraded, Old!MarkTellsTheHistory
<1>4. Old!RoomsAreKept
  <2> SUFFICES ASSUME opened # None, first.schema = "team" PROVE Old!RoomsAreKept
    BY DEF Old!RoomsAreKept
  <2>1. /\ Raw(first) /\ ~Old!ShareConflict(first) /\ ~Old!MountConflict(first)
        /\ opened.rooms = first.rooms \cup first.shares
    BY DEF UpgradeInv, Upgraded, Old!Refused
  <2>2. OneEach(first.rooms) /\ OneEach(first.shares)
    BY <2>1 DEF Raw
  <2>3. \A a, b \in opened.rooms : a.id = b.id => a = b
    BY <2>1, <2>2 DEF OneEach, Old!ShareConflict
  <2>4. \A a, b \in opened.rooms : a.owner = b.owner /\ a.mount = b.mount => a.id = b.id
    BY <2>1 DEF Old!MountConflict
  <2> QED BY <2>1, <2>3, <2>4 DEF Old!RoomsAreKept
<1> QED BY <1>1, <1>2, <1>3, <1>4

\* A database that was opened before is as it was when it is opened again.
LEMMA AgainTheSame ==
    ASSUME NEW img, NEW f, NEW mm, Upgraded(img, f, mm)
    PROVE  Old!Migrated(img) = img
<1>1. img \in Images /\ img.schema = "current" /\ "acl_reader_denies_blocked" \in img.marks
    BY DEF Upgraded
<1>2. Old!TeamsMigrated(img) = img /\ ~Old!IsV01(img)
    BY <1>1 DEF Old!TeamsMigrated, Old!IsV01
<1>3. Old!Marked(img, FALSE) = img
    BY <1>1 DEF Old!Marked, Images
<1>4. Old!Widened(img) = img
    BY <1>1 DEF Old!Widened
<1>5. Old!IsV01(img) = FALSE
    BY <1>2 DEF Old!IsV01
<1> QED BY <1>2, <1>3, <1>4, <1>5 DEF Old!Migrated

\* What an old rule says of a user.
IsAbout(img, r, u) ==
    \/ r.kind = "user" /\ r.subject = u
    \/ r.kind = "role" /\ Old!HasRole(img, r.team, u, r.subject)

LEMMA ANewRule ==
    ASSUME NEW n \in {1}, NEW v \in OldUsers \cup {None}, NEW u \in OldUsers, NEW e \in {"allow", "deny"},
           NEW p \in {"reader", "editor"}
    PROVE  LET q == Old!NewRule(<<n, v>>, u, e, p)
           IN  q \in NewRules /\ q.id[1] = 1 /\ q.user = u /\ q.effect = e /\ q.perms = p
BY DEF Old!NewRule, NewRules, Ids2

\* The three kinds of rules written out.
OfUsers(f, q) ==
    \E r \in f.oldRules : r.kind = "user" /\ q = Old!NewRule(<<r.id, None>>, r.subject, r.effect, r.perms)
OfRoles(f, q) ==
    \E r \in f.oldRules, u \in OldUsers :
        /\ r.kind = "role" /\ r.subject \in {"admin", "member"} /\ Old!HasRole(f, r.team, u, r.subject)
        /\ q = Old!NewRule(<<r.id, u>>, u, r.effect, r.perms)
OfOwners(f, q) ==
    \E r \in f.oldRules :
        /\ r.kind = "role" /\ r.subject = "owner"
        /\ q = Old!NewRule(<<r.id, f.owners[r.team]>>, f.owners[r.team], r.effect, r.perms)

LEMMA ExpandedIs ==
    ASSUME NEW f, NEW q
    PROVE  q \in Old!ExpandedRules(f) <=> OfUsers(f, q) \/ OfRoles(f, q) \/ OfOwners(f, q)
<1> DEFINE R == {r \in f.oldRules : r.kind = "role" /\ r.subject \in {"admin", "member"}}
           U(r) == {v \in OldUsers : Old!HasRole(f, r.team, v, r.subject)}
           W(r) == {Old!NewRule(<<r.id, u>>, u, r.effect, r.perms) : u \in U(r)}
           A == {Old!NewRule(<<r.id, None>>, r.subject, r.effect, r.perms) :
                    r \in {s \in f.oldRules : s.kind = "user"}}
           C == {Old!NewRule(<<r.id, f.owners[r.team]>>, f.owners[r.team], r.effect, r.perms) :
                    r \in {s \in f.oldRules : s.kind = "role" /\ s.subject = "owner"}}
           B == UNION {W(r) : r \in R}
<1>1. Old!ExpandedRules(f) = (A \cup B) \cup C
    BY DEF Old!ExpandedRules
<1>2. q \in A <=> OfUsers(f, q)
    BY DEF OfUsers
<1>3. q \in C <=> OfOwners(f, q)
    BY DEF OfOwners
<1>4. \A r : q \in W(r) <=> \E u \in U(r) : q = Old!NewRule(<<r.id, u>>, u, r.effect, r.perms)
    OBVIOUS
<1>5. q \in B <=> \E r \in R : q \in W(r)
    OBVIOUS
<1>6. q \in B <=> OfRoles(f, q)
    BY <1>4, <1>5 DEF OfRoles
<1> HIDE DEF A, B, C
<1> QED BY <1>1, <1>2, <1>3, <1>6

\* The rules written out are about whom the old ones were about, and say the same.
LEMMA ExpandedAre ==
    ASSUME NEW f, Raw(f), f.schema = "team", NEW q \in Old!ExpandedRules(f)
    PROVE  /\ q \in NewRules /\ q.id[1] = 1
           /\ \E r \in f.oldRules : IsAbout(f, r, q.user) /\ q.effect = r.effect /\ q.perms = r.perms
                                    /\ r.perms \in {"reader", "editor"}
<1>1. /\ f.oldRules \subseteq Old!OldRule /\ f.owners \in [OldTeams -> OldUsers] /\ OldRulesMakeSense(f)
    BY DEF Raw, Images
<1>2. \A r \in f.oldRules : r.id \in {1} /\ r.team \in OldTeams /\ r.effect \in {"allow", "deny"}
                            /\ r.perms \in {"reader", "editor"}
    BY <1>1 DEF Old!OldRule
<1>3. CASE \E r \in f.oldRules : r.kind = "user" /\ q = Old!NewRule(<<r.id, None>>, r.subject, r.effect, r.perms)
  <2> PICK r \in f.oldRules : r.kind = "user" /\ q = Old!NewRule(<<r.id, None>>, r.subject, r.effect, r.perms)
    BY <1>3
  <2>1. r.subject \in OldUsers
    BY <1>1 DEF OldRulesMakeSense
  <2>2. q \in NewRules /\ q.id[1] = 1 /\ q.user = r.subject /\ q.effect = r.effect /\ q.perms = r.perms
    BY <1>2, <2>1, ANewRule
  <2> QED BY <1>2, <2>2 DEF IsAbout
<1>4. CASE \E r \in f.oldRules, u \in OldUsers :
              /\ r.kind = "role" /\ Old!HasRole(f, r.team, u, r.subject)
              /\ q = Old!NewRule(<<r.id, u>>, u, r.effect, r.perms)
  <2> PICK r \in f.oldRules, u \in OldUsers :
              /\ r.kind = "role" /\ Old!HasRole(f, r.team, u, r.subject)
              /\ q = Old!NewRule(<<r.id, u>>, u, r.effect, r.perms)
    BY <1>4
  <2>1. q \in NewRules /\ q.id[1] = 1 /\ q.user = u /\ q.effect = r.effect /\ q.perms = r.perms
    BY <1>2, ANewRule
  <2> QED BY <1>2, <2>1 DEF IsAbout
<1>5. CASE \E r \in f.oldRules :
              /\ r.kind = "role" /\ r.subject = "owner"
              /\ q = Old!NewRule(<<r.id, f.owners[r.team]>>, f.owners[r.team], r.effect, r.perms)
  <2> PICK r \in f.oldRules :
              /\ r.kind = "role" /\ r.subject = "owner"
              /\ q = Old!NewRule(<<r.id, f.owners[r.team]>>, f.owners[r.team], r.effect, r.perms)
    BY <1>5
  <2>1. f.owners[r.team] \in OldUsers
    BY <1>1, <1>2
  <2>2. Old!HasRole(f, r.team, f.owners[r.team], r.subject)
    BY <1>1, <2>1 DEF OldRulesMakeSense
  <2> QED BY <1>2, <1>4, <2>1, <2>2
<1>6. OfUsers(f, q) \/ OfRoles(f, q) \/ OfOwners(f, q)
    BY ExpandedIs
<1> QED BY <1>3, <1>4, <1>5, <1>6 DEF OfUsers, OfRoles, OfOwners

LEMMA ExpandedAll ==
    ASSUME NEW f, Raw(f), f.schema = "team", NEW r \in f.oldRules, NEW u \in OldUsers, IsAbout(f, r, u)
    PROVE  \E q \in Old!ExpandedRules(f) : q.user = u /\ q.effect = r.effect /\ q.perms = r.perms
<1>1. OldRulesMakeSense(f) /\ \A i, v, e, p : /\ Old!NewRule(i, v, e, p).user = v
                                              /\ Old!NewRule(i, v, e, p).effect = e
                                              /\ Old!NewRule(i, v, e, p).perms = p
    BY DEF Raw, Old!NewRule
<1>2. CASE r.kind = "user"
  <2>1. r.subject = u
    BY <1>2 DEF IsAbout
  <2>2. Old!NewRule(<<r.id, None>>, r.subject, r.effect, r.perms) \in Old!ExpandedRules(f)
    BY <1>2, ExpandedIs DEF OfUsers
  <2> QED BY <1>1, <2>1, <2>2
<1>3. CASE r.kind = "role" /\ r.subject \in {"admin", "member"}
  <2>1. Old!HasRole(f, r.team, u, r.subject)
    BY <1>3 DEF IsAbout
  <2>2. Old!NewRule(<<r.id, u>>, u, r.effect, r.perms) \in Old!ExpandedRules(f)
    BY <1>3, <2>1, ExpandedIs DEF OfRoles
  <2> QED BY <1>1, <2>2
<1>4. CASE r.kind = "role" /\ r.subject = "owner"
  <2>1. Old!HasRole(f, r.team, u, "owner")
    BY <1>4 DEF IsAbout
  <2>2. u = f.owners[r.team]
    BY <1>1, <2>1 DEF OldRulesMakeSense
  <2>3. Old!NewRule(<<r.id, f.owners[r.team]>>, f.owners[r.team], r.effect, r.perms) \in Old!ExpandedRules(f)
    BY <1>4, ExpandedIs DEF OfOwners
  <2> QED BY <1>1, <2>2, <2>3
<1> QED BY <1>1, <1>2, <1>3, <1>4 DEF OldRulesMakeSense, IsAbout

LEMMA TeamsAre ==
    ASSUME NEW f, Raw(f)
    PROVE  LET t == Old!TeamsMigrated(f)
           IN  /\ t \in Images /\ \A r \in t.rules : r.id[1] < 2
               /\ f.schema # "team" => t = f
               /\ f.schema = "team" => /\ t.rules = Old!ExpandedRules(f) /\ t.rooms = Old!MergedRooms(f)
                                       /\ t.marks = {"legacy_v01_migrated"}
<1> DEFINE t == Old!TeamsMigrated(f)
<1>1. CASE f.schema # "team"
    BY <1>1 DEF Raw, Old!TeamsMigrated
<1>2. CASE f.schema = "team"
  <2> DEFINE M == {IF m.role = "owner" THEN [m EXCEPT !.role = "admin"] ELSE m : m \in f.members}
  <2>1. f \in Images /\ f.marks = {}
    BY <1>2 DEF Raw
  <2>2. t = [f EXCEPT !.schema = "current", !.rules = Old!ExpandedRules(f), !.members = M,
                      !.rooms = Old!MergedRooms(f), !.marks = f.marks \cup {"legacy_v01_migrated"}]
    BY <1>2 DEF Old!TeamsMigrated
  <2>3. \A q \in Old!ExpandedRules(f) : q \in NewRules /\ q.id[1] = 1
    BY <1>2, ExpandedAre
  <2>4. Old!MergedRooms(f) \in SUBSET Old!Room
    BY <2>1 DEF Old!MergedRooms, Images
  <2>5. M \in SUBSET Members
    <3> SUFFICES ASSUME NEW m \in f.members PROVE [m EXCEPT !.role = "admin"] \in Members /\ m \in Members
        OBVIOUS
    <3> QED BY <2>1 DEF Images, Members
  <2> HIDE DEF M
  <2>6. /\ t.rules = Old!ExpandedRules(f) /\ t.rooms = Old!MergedRooms(f)
        /\ t.marks = {"legacy_v01_migrated"}
    BY <2>1, <2>2 DEF Images
  <2>7. t \in Images
    <3>1. \A rr, mm, oo, kk :
            rr \in SUBSET NewRules /\ mm \in SUBSET Members /\ oo \in SUBSET Old!Room
            /\ kk \in SUBSET {"legacy_v01_migrated", "acl_reader_denies_blocked"}
            => [f EXCEPT !.schema = "current", !.rules = rr, !.members = mm, !.rooms = oo, !.marks = kk] \in Images
        BY <2>1 DEF Images
    <3>2. Old!ExpandedRules(f) \in SUBSET NewRules
        BY <2>3
    <3>3. f.marks \cup {"legacy_v01_migrated"} \in SUBSET {"legacy_v01_migrated", "acl_reader_denies_blocked"}
        BY <2>1
    <3> HIDE DEF t
    <3> QED BY <2>2, <2>4, <2>5, <3>1, <3>2, <3>3
  <2>8. \A r \in t.rules : r.id[1] < 2
    BY <2>3, <2>6
  <2> QED BY <1>2, <2>6, <2>7, <2>8
<1> QED BY <1>1, <1>2

LEMMA MarkedIs ==
    ASSUME NEW t \in Images, NEW v \in BOOLEAN
    PROVE  LET k == Old!Marked(t, v)
           IN  /\ k \in Images /\ k.schema = "current" /\ k.rules = t.rules /\ k.rooms = t.rooms
               /\ k.marks = IF v THEN t.marks \cup {"legacy_v01_migrated"} ELSE t.marks
BY DEF Old!Marked, Images

\* What a rule says once denying reading is taken for a block.
Wide(r) == IF r.effect = "deny" /\ r.perms = "reader" THEN [r EXCEPT !.perms = "blocked"] ELSE r

LEMMA WideIs ==
    ASSUME NEW r \in NewRules
    PROVE  /\ Wide(r) \in NewRules /\ Wide(r).id = r.id /\ Wide(r).user = r.user /\ Wide(r).effect = r.effect
           /\ Wide(r).perms = IF r.effect = "deny" /\ r.perms = "reader" THEN "blocked" ELSE r.perms
BY DEF Wide, NewRules

LEMMA WidenedIs ==
    ASSUME NEW k \in Images
    PROVE  LET m == Old!Widened(k)
           IN  /\ m \in Images /\ m.schema = k.schema /\ m.rooms = k.rooms
               /\ m.marks = k.marks \cup {"acl_reader_denies_blocked"}
               /\ "acl_reader_denies_blocked" \in k.marks => m.rules = k.rules
               /\ "acl_reader_denies_blocked" \notin k.marks => m.rules = {Wide(r) : r \in k.rules}
<1>1. CASE "acl_reader_denies_blocked" \in k.marks
    BY <1>1 DEF Old!Widened, Images
<1>2. CASE "acl_reader_denies_blocked" \notin k.marks
  <2> DEFINE W == {Wide(r) : r \in k.rules}
  <2>1. Old!Widened(k) = [k EXCEPT !.rules = W, !.marks = k.marks \cup {"acl_reader_denies_blocked"}]
    BY <1>2 DEF Old!Widened, Wide
  <2>2. k.rules \subseteq NewRules
    BY DEF Images
  <2>3. W \subseteq NewRules
    BY <2>2, WideIs
  <2> HIDE DEF W
  <2>4. Old!Widened(k).rules = W
    BY <2>1 DEF Images
  <2>5. /\ Old!Widened(k).schema = k.schema /\ Old!Widened(k).rooms = k.rooms
        /\ Old!Widened(k).marks = k.marks \cup {"acl_reader_denies_blocked"}
    BY <2>1 DEF Images
  <2>6. Old!Widened(k) \in Images
    BY <2>1, <2>3 DEF Images
  <2> QED BY <1>2, <2>4, <2>5, <2>6 DEF W
<1> QED BY <1>1, <1>2

LEMMA RulesAsBefore ==
    ASSUME NEW mm, ByHand(mm), NEW f, Raw(f), f.schema = "team", NEW m, m.rules = {Wide(q) : q \in Old!ExpandedRules(f)},
           NEW u \in OldUsers
    PROVE  Inherited(m, u, mm) = Old!RulesOver(f, u)
<1> DEFINE Says(r) == [effect |-> r.effect,
                       perms |-> IF r.effect = "deny" /\ r.perms = "reader" THEN "blocked" ELSE r.perms]
<1>1. Old!RulesOver(f, u) = {Says(r) : r \in {s \in f.oldRules : IsAbout(f, s, u)}}
    BY DEF Old!RulesOver, IsAbout
<1>2. \A q \in Old!ExpandedRules(f) : q \in NewRules /\ q.id[1] = 1
    BY ExpandedAre
<1>3. \A q \in Old!ExpandedRules(f) : /\ Wide(q).id = q.id /\ Wide(q).user = q.user
                                       /\ [effect |-> Wide(q).effect, perms |-> Wide(q).perms] = Says(q)
    BY <1>2, WideIs
<1>4. \A q \in Old!ExpandedRules(f) : q.id \notin HandMade(mm)
    BY <1>2 DEF ByHand, HandMade
<1>5. ASSUME NEW x \in Inherited(m, u, mm) PROVE x \in Old!RulesOver(f, u)
  <2>1. PICK q \in Old!ExpandedRules(f) : Wide(q).user = u /\ x = [effect |-> Wide(q).effect, perms |-> Wide(q).perms]
    BY <1>5 DEF Inherited
  <2>2. x = Says(q) /\ q.user = u
    BY <1>3, <2>1
  <2>3. PICK r \in f.oldRules : IsAbout(f, r, q.user) /\ q.effect = r.effect /\ q.perms = r.perms
    BY ExpandedAre
  <2>4. x = Says(r) /\ IsAbout(f, r, u)
    BY <2>2, <2>3
  <2> QED BY <1>1, <2>4
<1>6. ASSUME NEW x \in Old!RulesOver(f, u) PROVE x \in Inherited(m, u, mm)
  <2>1. PICK r \in f.oldRules : IsAbout(f, r, u) /\ x = Says(r)
    BY <1>1, <1>6
  <2>2. PICK q \in Old!ExpandedRules(f) : q.user = u /\ q.effect = r.effect /\ q.perms = r.perms
    BY <2>1, ExpandedAll
  <2>3. x = Says(q)
    BY <2>1, <2>2
  <2>4. Wide(q) \in m.rules /\ Wide(q).user = u /\ Wide(q).id \notin HandMade(mm)
        /\ x = [effect |-> Wide(q).effect, perms |-> Wide(q).perms]
    BY <1>3, <1>4, <2>2, <2>3
  <2> QED BY <2>4 DEF Inherited
<1> QED BY <1>5, <1>6

LEMMA OpensAsUpgraded ==
    ASSUME NEW mm, ByHand(mm), NEW f, Raw(f), ~Old!Refused(f)
    PROVE  Upgraded(Old!Migrated(f), f, mm)
<1> DEFINE t == Old!TeamsMigrated(f)
           k == Old!Marked(t, Old!IsV01(f))
           m == Old!Migrated(f)
<1>1. /\ t \in Images /\ \A r \in t.rules : r.id[1] < 2
      /\ f.schema # "team" => t = f
      /\ f.schema = "team" => /\ t.rules = Old!ExpandedRules(f) /\ t.rooms = Old!MergedRooms(f)
                              /\ t.marks = {"legacy_v01_migrated"}
    BY TeamsAre
<1>2. f \in Images /\ (f.schema # "team" => "legacy_v01_migrated" \notin f.marks)
    BY DEF Raw
<1>3. Old!IsV01(f) \in BOOLEAN /\ (f.schema = "team" => Old!IsV01(f))
    BY DEF Old!IsV01
<1>4. /\ k \in Images /\ k.schema = "current" /\ k.rules = t.rules /\ k.rooms = t.rooms
      /\ k.marks = IF Old!IsV01(f) THEN t.marks \cup {"legacy_v01_migrated"} ELSE t.marks
    BY <1>1, <1>3, MarkedIs
<1>5. m = Old!Widened(k)
    BY DEF Old!Migrated
<1> HIDE DEF m, k, t
<1>6. /\ m \in Images /\ m.schema = k.schema /\ m.rooms = k.rooms
      /\ m.marks = k.marks \cup {"acl_reader_denies_blocked"}
      /\ "acl_reader_denies_blocked" \in k.marks => m.rules = k.rules
      /\ "acl_reader_denies_blocked" \notin k.marks => m.rules = {Wide(r) : r \in k.rules}
    BY <1>4, <1>5, WidenedIs
<1>7. "legacy_v01_migrated" \in m.marks <=> Old!IsV01(f)
    BY <1>1, <1>2, <1>3, <1>4, <1>6
<1>8. \A r \in m.rules : r.id[1] < 2
  <2>1. k.rules \subseteq NewRules
    BY <1>4 DEF Images
  <2>2. \A r \in k.rules : Wide(r).id = r.id
    BY <2>1, WideIs
  <2> QED BY <1>1, <1>4, <1>6, <2>2
<1>9. Cardinality(mm) \in Nat
    BY FS_CardinalityType DEF ByHand
<1>10. \A r \in m.rules : r.id[1] \in Nat
    BY <1>6 DEF Images, NewRules, Ids2
<1>11. \A r \in m.rules : r.id[1] < 2 + Cardinality(mm)
    BY <1>8, <1>9, <1>10
<1>12. \A x \in mm : \A r \in m.rules : r.id = x.id => r.perms = x.perms
    BY <1>8 DEF ByHand, Ids2
<1>13. ASSUME f.schema = "team" PROVE \A u \in OldUsers : Inherited(m, u, mm) = Old!RulesOver(f, u)
  <2>1. m.rules = {Wide(r) : r \in Old!ExpandedRules(f)}
    BY <1>1, <1>3, <1>4, <1>6, <1>13
  <2> QED BY <1>13, <2>1, RulesAsBefore
<1>14. ASSUME f.schema = "team" PROVE m.rooms = f.rooms \cup f.shares
  <2>1. ~Old!ShareConflict(f)
    BY <1>14 DEF Old!Refused
  <2>2. m.rooms = Old!MergedRooms(f)
    BY <1>1, <1>4, <1>6, <1>14
  <2>3. \A s \in f.shares, r \in f.rooms : s.id = r.id => s = r
    BY <2>1 DEF Old!ShareConflict
  <2> QED BY <2>2, <2>3 DEF Old!MergedRooms
<1> QED BY <1>4, <1>6, <1>7, <1>11, <1>12, <1>13, <1>14 DEF Upgraded, m

LEMMA AnImage ==
    ASSUME NEW s \in {"team", "released", "current"}, NEW o \in [OldTeams -> OldUsers], NEW m \in SUBSET Members,
           NEW a \in SUBSET Old!OldRule, NEW r \in SUBSET NewRules, NEW n \in SUBSET Old!Room,
           NEW h \in SUBSET Old!Room, NEW k \in SUBSET {"legacy_v01_migrated", "acl_reader_denies_blocked"}
    PROVE  LET i == Old!Image(s, o, m, a, r, n, h, k)
           IN  /\ i \in Images /\ i.schema = s /\ i.owners = o /\ i.members = m /\ i.oldRules = a
               /\ i.rules = r /\ i.rooms = n /\ i.shares = h /\ i.marks = k
BY DEF Old!Image, Images

LEMMA MembersOf ==
    ASSUME NEW p \in [OldTeams -> OldUsers], NEW m \in Old!Memberships(p)
    PROVE  m \subseteq Members /\ \A x \in m : x.role = "owner" => x.active = TRUE
<1> DEFINE K == ({"admin", "member"} \X BOOLEAN) \cup {None}
           Q(h) == {q \in OldTeams \X OldUsers : p[q[1]] # q[2] /\ h[q] # None}
           A == {[team |-> t, user |-> p[t], role |-> "owner", active |-> TRUE] : t \in OldTeams}
           B(h) == {[team |-> q[1], user |-> q[2], role |-> h[q][1], active |-> h[q][2]] : q \in Q(h)}
<1>1. PICK h \in [OldTeams \X OldUsers -> K] : m = A \cup B(h)
    BY DEF Old!Memberships
<1>2. \A x \in A : x \in Members /\ x.active = TRUE
  <2>1. ASSUME NEW t \in OldTeams
        PROVE  LET x == [team |-> t, user |-> p[t], role |-> "owner", active |-> TRUE]
               IN  x \in Members /\ x.active = TRUE
    <3>1. p[t] \in OldUsers
        OBVIOUS
    <3> QED BY <3>1 DEF Members
  <2> QED BY <2>1
<1>3. ASSUME NEW q \in Q(h)
      PROVE  LET x == [team |-> q[1], user |-> q[2], role |-> h[q][1], active |-> h[q][2]]
             IN  x \in Members /\ x.role # "owner"
  <2>1. q[1] \in OldTeams /\ q[2] \in OldUsers
    OBVIOUS
  <2>2. h[q] \in {"admin", "member"} \X BOOLEAN
    OBVIOUS
  <2>3. h[q][1] \in {"admin", "member"} /\ h[q][2] \in BOOLEAN
    BY <2>2
  <2> QED BY <2>1, <2>3 DEF Members
<1>4. \A x \in B(h) : x \in Members /\ x.role # "owner"
    BY <1>3
<1> HIDE DEF A, B
<1> QED BY <1>1, <1>2, <1>4

LEMMA TeamsAreRaw ==
    ASSUME NEW img \in Old!TeamImages, Old!Coherent(img)
    PROVE  Raw(img)
<1>1. PICK o \in [OldTeams -> OldUsers], m \in UNION {Old!Memberships(p) : p \in [OldTeams -> OldUsers]},
           r \in {s \in Old!OldRule : s.kind = "user" <=> s.subject \in OldUsers} :
           img = Old!Image("team", o, m, {r}, {}, {}, {}, {})
    BY DEF Old!TeamImages
<1>2. m \subseteq Members /\ \A x \in m : x.role = "owner" => x.active = TRUE
    BY MembersOf
<1>3. /\ img \in Images /\ img.schema = "team" /\ img.owners = o /\ img.members = m /\ img.oldRules = {r}
      /\ img.rules = {} /\ img.rooms = {} /\ img.shares = {} /\ img.marks = {}
    BY <1>1, <1>2, AnImage
<1>4. /\ r.kind = "user" => r.subject \in OldUsers
      /\ r.kind = "role" => r.subject \in {"owner", "admin", "member"}
      /\ r.team \in OldTeams
    BY DEF Old!OldRule
<1>5. ASSUME NEW u \in OldUsers PROVE Old!HasRole(img, r.team, u, "owner") <=> u = o[r.team]
  <2> DEFINE N == {n \in m : n.team = r.team /\ n.role = "owner"}
             x == [team |-> r.team, user |-> u, role |-> "owner", active |-> TRUE]
  <2>1. {n.user : n \in N} = {o[r.team]}
    BY <1>3, <1>4 DEF Old!Coherent
  <2>2. Old!HasRole(img, r.team, u, "owner") <=> x \in m
    BY <1>3 DEF Old!HasRole
  <2>3. ASSUME x \in m PROVE u = o[r.team]
    <3>1. x \in N /\ x.user = u
        BY <2>3
    <3> HIDE DEF N, x
    <3> QED BY <2>1, <3>1
  <2>4. ASSUME u = o[r.team] PROVE x \in m
    <3>1. PICK n \in N : n.user = u
        BY <2>1, <2>4
    <3>2. n \in Members /\ n.team = r.team /\ n.role = "owner" /\ n.active = TRUE
        BY <1>2
    <3>3. n = x
        BY <3>1, <3>2 DEF Members
    <3> QED BY <3>3
  <2> QED BY <2>2, <2>3, <2>4
<1>6. OldRulesMakeSense(img)
    BY <1>3, <1>4, <1>5 DEF OldRulesMakeSense
<1> QED BY <1>3, <1>6 DEF Raw, OneEach

OtherKinds == {<<"released", {}>>, <<"current", {}>>, <<"current", {"acl_reader_denies_blocked"}>>}
AnOwner == [t \in OldTeams |-> CHOOSE u \in OldUsers : TRUE]

LEMMA OthersAreRaw ==
    ASSUME OldUsers # {}, NEW img \in Old!RoomImages \cup Old!OtherImages
    PROVE  Raw(img)
<1>1. (CHOOSE u \in OldUsers : TRUE) \in OldUsers
    OBVIOUS
<1>2. CASE img \in Old!RoomImages
  <2>1. PICK r \in Old!RoomSets, s \in Old!RoomSets :
             img = Old!Image("team", [t \in OldTeams |-> CHOOSE u \in OldUsers : TRUE], {}, {}, {}, r, s, {})
    BY <1>2 DEF Old!RoomImages
  <2>2. r \subseteq Old!Room /\ s \subseteq Old!Room /\ OneEach(r) /\ OneEach(s)
    BY DEF Old!RoomSets, OneEach
  <2>3. /\ img \in Images /\ img.schema = "team" /\ img.oldRules = {} /\ img.rules = {}
        /\ img.rooms = r /\ img.shares = s /\ img.marks = {}
    BY <1>1, <2>1, <2>2, AnImage
  <2> QED BY <2>2, <2>3 DEF Raw, OldRulesMakeSense
<1>3. CASE img \in Old!OtherImages
  <2>0. Old!OtherImages = {Old!Image(x[1], AnOwner, {}, {}, {Old!NewRule(<<1, None>>, v, e, p)}, {}, {}, x[2]) :
            x \in OtherKinds, v \in OldUsers, e \in {"allow", "deny"}, p \in {"reader", "editor"}}
    BY DEF Old!OtherImages, OtherKinds, AnOwner
  <2> DEFINE I(x, v, e, p) == Old!Image(x[1], AnOwner, {}, {}, {Old!NewRule(<<1, None>>, v, e, p)}, {}, {}, x[2])
  <2>6. Old!OtherImages = {I(x, v, e, p) : x \in OtherKinds, v \in OldUsers, e \in {"allow", "deny"},
                                           p \in {"reader", "editor"}}
    BY <2>0
  <2> HIDE DEF I
  <2>5. \E x \in OtherKinds, v \in OldUsers, e \in {"allow", "deny"}, p \in {"reader", "editor"} :
             img = I(x, v, e, p)
    BY <1>3, <2>6
  <2>1. PICK x \in OtherKinds, v \in OldUsers, e \in {"allow", "deny"}, p \in {"reader", "editor"} :
             img = Old!Image(x[1], AnOwner, {}, {}, {Old!NewRule(<<1, None>>, v, e, p)}, {}, {}, x[2])
    BY <2>5 DEF I
  <2>2. /\ x[1] \in {"released", "current"} /\ x[2] \in SUBSET {"acl_reader_denies_blocked"}
        /\ AnOwner \in [OldTeams -> OldUsers]
    BY <1>1 DEF OtherKinds, AnOwner
  <2>3. Old!NewRule(<<1, None>>, v, e, p) \in NewRules /\ Old!NewRule(<<1, None>>, v, e, p).id[1] = 1
    BY ANewRule
  <2>4. /\ img \in Images /\ img.schema = x[1] /\ img.marks = x[2]
        /\ img.rules = {Old!NewRule(<<1, None>>, v, e, p)}
    BY <1>1, <2>1, <2>2, <2>3, AnImage
  <2> QED BY <2>2, <2>3, <2>4 DEF Raw
<1> QED BY <1>2, <1>3

LEMMA UpgradeInit ==
    ASSUME OldUsers # {}, Old!Init
    PROVE  UpgradeInv
<1>1. Raw(image)
    BY TeamsAreRaw, OthersAreRaw DEF Old!Init
<1>2. IsFiniteSet(made) /\ made = {}
    BY FS_EmptySet DEF Old!Init
<1> QED BY <1>1, <1>2 DEF Old!Init, UpgradeInv, ByHand

LEMMA UpgradeOpens ==
    ASSUME OldApart, UpgradeInv, Old!Open
    PROVE  UpgradeInv'
<1>1. /\ opened = None /\ ~Old!Refused(image) /\ opened' = Old!Migrated(image)
      /\ first' = (IF first = None THEN image ELSE first) /\ image' = image /\ made' = made
    BY DEF Old!Open
<1>2. PICK f : f = first'
    OBVIOUS
<1>3. Raw(f) /\ ~Old!Refused(f) /\ (image = f \/ Upgraded(image, f, made)) /\ f # None
    BY <1>1, <1>2 DEF UpgradeInv, OldApart, Raw
<1>4. ByHand(made)
    BY DEF UpgradeInv
<1>5. Upgraded(Old!Migrated(image), f, made)
    BY <1>3, <1>4, OpensAsUpgraded, AgainTheSame
<1> QED BY <1>1, <1>2, <1>3, <1>4, <1>5 DEF UpgradeInv

\* The core's second pass over the open database, its saving and its closing.
LEMMA UpgradeRests ==
    ASSUME OldApart, UpgradeInv, Old!OpenCore \/ Old!Save \/ Old!Stop \/ UNCHANGED oldVars
    PROVE  UpgradeInv'
<1>1. CASE Old!OpenCore
  <2>1. /\ opened # None /\ opened' = Old!Migrated(opened) /\ image' = image /\ first' = first /\ made' = made
    BY <1>1 DEF Old!OpenCore
  <2>2. Upgraded(opened, first, made)
    BY <2>1 DEF UpgradeInv
  <2>3. opened' = opened
    BY <2>1, <2>2, AgainTheSame
  <2> QED BY <2>1, <2>3 DEF UpgradeInv
<1>2. CASE Old!Save
    BY <1>2 DEF Old!Save, UpgradeInv
<1>3. CASE Old!Stop
    BY <1>3 DEF Old!Stop, UpgradeInv
<1>4. CASE UNCHANGED oldVars
    BY <1>4 DEF oldVars, UpgradeInv
<1> QED BY <1>1, <1>2, <1>3, <1>4

\* The instance counts as the library does.
LEMMA SameCardinality ==
    \A S : Old!Cardinality(S) = Cardinality(S)
BY DEF Old!Cardinality, Cardinality

LEMMA UpgradeAdds ==
    ASSUME OldApart, UpgradeInv, NEW v \in OldUsers, NEW p \in {"reader", "editor"}, Old!AddRule(v, p)
    PROVE  UpgradeInv'
<1> DEFINE c == Cardinality(made)
           id == <<2 + c, None>>
           new == [id |-> id, perms |-> p]
           mm == made \cup {new}
           q == Old!NewRule(id, v, "deny", p)
<1>1. /\ opened # None /\ opened' = [opened EXCEPT !.rules = opened.rules \cup {q}] /\ made' = mm
      /\ image' = image /\ first' = first
    BY SameCardinality DEF Old!AddRule
<1>2. ByHand(made) /\ first # None /\ Upgraded(opened, first, made) /\ Raw(first) /\ ~Old!Refused(first)
      /\ (image = first \/ Upgraded(image, first, made))
    BY <1>1 DEF UpgradeInv
<1>3. c \in Nat /\ new \notin made
  <2>1. c \in Nat
    BY <1>2, FS_CardinalityType DEF ByHand
  <2>2. ASSUME new \in made PROVE FALSE
    <3>1. new.id[1] < 2 + c
        BY <1>2, <2>2 DEF ByHand
    <3> QED BY <2>1, <3>1
  <2> QED BY <2>1, <2>2
<1>4. IsFiniteSet(mm) /\ Cardinality(mm) = c + 1
    BY <1>2, <1>3, FS_AddElement DEF ByHand
<1>5. id \in Ids2 /\ id[1] = 2 + c
    BY <1>3 DEF Ids2
<1>6. q \in NewRules /\ q.id = id /\ q.perms = p /\ q.effect = "deny" /\ q.user = v
    BY <1>5 DEF Old!NewRule, NewRules
<1>7. new.id = id /\ new.perms = p
    OBVIOUS
<1> HIDE DEF c, id, new, mm, q
<1>8. mm = made \cup {new}
    BY DEF mm
<1>9. ByHand(mm)
    BY <1>2, <1>3, <1>4, <1>5, <1>7, <1>8 DEF ByHand, Ids2, c
<1>10. ASSUME NEW i, Upgraded(i, first, made) PROVE Upgraded(i, first, mm)
  <2>1. i.rules \subseteq NewRules
    BY <1>10 DEF Upgraded, Images
  <2>2. \A r \in i.rules : r.id[1] \in Nat /\ r.id[1] < 2 + c
    BY <1>10, <2>1 DEF Upgraded, NewRules, Ids2, c
  <2>3. \A r \in i.rules : r.id # id /\ r.id[1] < 2 + Cardinality(mm)
    BY <1>3, <1>4, <1>5, <2>2
  <2>4. \A r \in i.rules : r.id \in HandMade(mm) <=> r.id \in HandMade(made)
    BY <1>7, <1>8, <2>3 DEF HandMade
  <2>5. \A u \in OldUsers : Inherited(i, u, mm) = Inherited(i, u, made)
    BY <2>4 DEF Inherited
  <2>6. \A x \in mm : \A r \in i.rules : r.id = x.id => r.perms = x.perms
    BY <1>7, <1>8, <1>10, <2>3 DEF Upgraded
  <2> QED BY <1>10, <2>3, <2>5, <2>6 DEF Upgraded
<1>11. Upgraded(opened, first, mm)
    BY <1>2, <1>10
<1>12. Upgraded(opened', first, mm)
  <2>1. opened \in Images
    BY <1>2 DEF Upgraded
  <2>2. /\ opened'.rules = opened.rules \cup {q} /\ opened'.schema = opened.schema
        /\ opened'.marks = opened.marks /\ opened'.rooms = opened.rooms
    BY <1>1, <2>1 DEF Images
  <2>3. opened' \in Images
    BY <1>1, <1>6, <2>1 DEF Images
  <2>4. q.id \in HandMade(mm)
    BY <1>6, <1>7, <1>8 DEF HandMade
  <2>5. \A u \in OldUsers : Inherited(opened', u, mm) = Inherited(opened, u, mm)
    BY <2>2, <2>4 DEF Inherited
  <2>6. q.id[1] < 2 + Cardinality(mm)
    BY <1>3, <1>4, <1>5, <1>6
  <2>7. \A x \in mm : q.id = x.id => q.perms = x.perms
    <3>1. \A x \in made : x.id # id
        BY <1>2, <1>3, <1>5 DEF ByHand, Ids2, c
    <3> QED BY <1>6, <1>7, <1>8, <3>1
  <2> QED BY <1>11, <2>2, <2>3, <2>5, <2>6, <2>7 DEF Upgraded
<1>13. image = first \/ Upgraded(image, first, mm)
    BY <1>2, <1>10
<1>14. Upgraded(opened, first, made)' /\ ByHand(made)' /\ (image = first \/ Upgraded(image, first, made))'
    BY <1>1, <1>9, <1>12, <1>13
<1>15. first' # None /\ Raw(first)' /\ ~Old!Refused(first)'
    BY <1>1, <1>2
<1> QED BY <1>14, <1>15 DEF UpgradeInv

LEMMA UpgradeKeeps ==
    ASSUME OldApart, UpgradeInv, Old!Next \/ UNCHANGED oldVars
    PROVE  UpgradeInv'
BY UpgradeOpens, UpgradeRests, UpgradeAdds DEF Old!Next

-----------------------------------------------------------------------------
(* Backups of a v0.1 database.                                             *)

\* The contents a database file has, and those that the migration leaves.
Files == {f \in {"v01", "used", "empty", "torn", "blank"} \X Nat :
             f[1] \in {"empty", "torn", "blank"} => f[2] = 0}
Opens == {f \in Files : f[1] \in {"used", "empty"}}

BackupApart == None \notin Files

BackupShapes ==
    /\ db \in Files \cup {None} /\ bak \in Files \cup {None}
    /\ running \in Opens \cup {None} /\ images \in Nat

\* What was upgraded is in a backup: the one beside the database or one put aside.
UpgradedKept == \A f \in upgraded : Backup!IsV01(f) /\ f \in {bak} \cup aside

\* A v0.1 database is only overwritten once it is backed up.
StageInv ==
    /\ stage = "copying" => db \in {Backup!Torn, Backup!Blank} /\ Backup!IsV01(bak)
    /\ stage = "opened" => running # None /\ (Backup!IsV01(db) => bak = db)
    /\ stage = "running" => running # None /\ ~Backup!IsV01(db)
    /\ stage \in {"restoring", "restored"} => ~Backup!IsV01(db) /\ Backup!IsV01(bak)
    /\ stage = "restored" => db \in prev

\* An empty database comes without a backup of v0.1, unless a copy was cut off.
EmptyInv ==
    /\ db = Backup!Blank => cut
    /\ stage = "starting" /\ db \in {None, Backup!Empty} => ~Backup!IsV01(bak)
    /\ stage \in {"opened", "running"} /\ running = Backup!Empty => ~Backup!IsV01(bak) \/ cut

BackupInv == BackupShapes /\ UpgradedKept /\ StageInv /\ EmptyInv

\* What the files' kinds are.
LEMMA FileKinds ==
    ASSUME BackupApart
    PROVE  /\ Backup!Empty \in Opens /\ Backup!Torn \in Files /\ Backup!Blank \in Files
           /\ \A f \in Opens : f \in Files /\ ~Backup!IsV01(f) /\ f \notin {Backup!Torn, Backup!Blank, None}
           /\ \A f \in Files : f # None /\ (Backup!IsV01(f) => f \notin {Backup!Torn, Backup!Blank,
                                                                        Backup!Empty})
           /\ \A n \in Nat : /\ Backup!V01(n) \in Files /\ Backup!IsV01(Backup!V01(n))
                             /\ Backup!Used(n) \in Opens /\ Backup!Used(n) # Backup!Empty
           /\ ~Backup!IsV01(None)
BY DEF BackupApart, Files, Opens, Backup!Empty, Backup!IsV01, Backup!Torn, Backup!Blank, Backup!V01,
       Backup!Used

LEMMA Apart3 ==
    /\ Backup!Blank # Backup!Torn /\ Backup!Blank # Backup!Empty /\ Backup!Empty # Backup!Torn
BY DEF Backup!Empty, Backup!Torn, Backup!Blank

\* What opens is of this release; it is empty only if nobody has used what was opened.
LEMMA Migrates ==
    ASSUME BackupApart, NEW f \in Files \cup {None}, f # Backup!Torn
    PROVE  /\ Backup!Migrated(f) \in Opens
           /\ Backup!Migrated(f) = Backup!Empty => f \in {None, Backup!Empty, Backup!Blank}
<1>1. CASE f \in {None, Backup!Empty, Backup!Blank}
    BY <1>1, FileKinds DEF Backup!Migrated
<1>2. CASE f \in Files /\ f \notin {Backup!Empty, Backup!Blank} /\ Backup!IsV01(f)
  <2>1. f[2] \in Nat
    BY <1>2 DEF Files
  <2>2. Backup!Migrated(f) = Backup!Used(f[2])
    BY <1>2, FileKinds DEF Backup!Migrated
  <2> QED BY <2>1, <2>2, FileKinds
<1>3. CASE f \in Files /\ f \notin {Backup!Empty, Backup!Blank} /\ ~Backup!IsV01(f)
  <2>1. f[1] \in {"used"} /\ f # None
    BY <1>3, FileKinds DEF Files, Backup!IsV01, Backup!Torn, Backup!Blank, Backup!Empty
  <2>2. f \in Opens
    BY <1>3, <2>1 DEF Opens
  <2>3. Backup!Migrated(f) = f
    BY <1>3, <2>1 DEF Backup!Migrated
  <2> QED BY <1>3, <2>2, <2>3
<1> QED BY <1>1, <1>2, <1>3

LEMMA BackupInit == ASSUME BackupApart, Backup!Init PROVE BackupInv
<1>1. 1 \in Nat /\ 2 \in Nat
    OBVIOUS
<1> QED BY <1>1, FileKinds, Apart3 DEF Backup!Init, BackupInv, BackupShapes, UpgradedKept, StageInv, EmptyInv

\* The file is written by a start, a save or a restore.
LEMMA BackupStarts ==
    ASSUME BackupApart, BackupInv,
           \/ Backup!RelayRecovers \/ Backup!RelayCopied \/ Backup!PluginRecovers \/ Backup!StartFails
           \/ Backup!PutAside \/ Backup!BackUp
    PROVE  BackupInv'
<1>1. CASE Backup!RelayRecovers
  <2>1. BackupShapes' /\ UpgradedKept'
    BY <1>1, FileKinds DEF Backup!RelayRecovers, BackupInv, BackupShapes, UpgradedKept
  <2>2. StageInv' /\ EmptyInv'
    BY <1>1, FileKinds, Apart3 DEF Backup!RelayRecovers, Backup!Recoverable, Backup!EmptyCurrent, BackupInv,
       StageInv, EmptyInv
  <2> QED BY <2>1, <2>2 DEF BackupInv
<1>2. CASE Backup!RelayCopied
  <2>1. Backup!IsV01(bak) /\ bak \in Files
    BY <1>2, FileKinds DEF Backup!RelayCopied, BackupInv, BackupShapes, StageInv
  <2> QED BY <1>2, <2>1, FileKinds DEF Backup!RelayCopied, BackupInv, BackupShapes, UpgradedKept, StageInv,
             EmptyInv
<1>3. CASE Backup!PluginRecovers
  <2>1. CASE Backup!Recoverable
    <3>1. Backup!IsV01(bak) /\ bak \in Files /\ db \in {None, Backup!Empty} /\ ~Backup!IsV01(db)
      BY <2>1, FileKinds DEF Backup!Recoverable, Backup!EmptyCurrent, BackupInv, BackupShapes
    <3>2. Backup!Migrated(bak) \in Opens /\ Backup!Migrated(bak) # Backup!Empty
      BY <3>1, Migrates, FileKinds
    <3> QED BY <1>3, <2>1, <3>1, <3>2, FileKinds DEF Backup!PluginRecovers, BackupInv, BackupShapes,
               UpgradedKept, StageInv, EmptyInv
  <2>2. CASE ~Backup!Recoverable
    BY <1>3, <2>2, FileKinds DEF Backup!PluginRecovers, Backup!Recoverable, Backup!EmptyCurrent, BackupInv,
       BackupShapes, UpgradedKept, StageInv, EmptyInv
  <2> QED BY <2>1, <2>2
<1>4. CASE Backup!StartFails
    BY <1>4, FileKinds DEF Backup!StartFails, BackupInv, BackupShapes, UpgradedKept, StageInv, EmptyInv
<1>5. CASE Backup!PutAside
    BY <1>5, FileKinds DEF Backup!PutAside, BackupInv, BackupShapes, UpgradedKept, StageInv, EmptyInv
<1>6. CASE Backup!BackUp
    BY <1>6, FileKinds DEF Backup!BackUp, BackupInv, BackupShapes, UpgradedKept, StageInv, EmptyInv
<1> QED BY <1>1, <1>2, <1>3, <1>4, <1>5, <1>6

LEMMA BackupRuns ==
    ASSUME BackupApart, BackupInv,
           \/ Backup!Open \/ Backup!FirstSave \/ Backup!Edit \/ Backup!Save \/ Backup!Stop \/ Backup!Crash
           \/ Backup!Restore \/ Backup!RestoreCopies \/ Backup!RestoreReplaces \/ Backup!OldRelease
    PROVE  BackupInv'
<1>1. CASE Backup!Open
  <2>1. /\ Backup!Migrated(db) \in Opens
        /\ Backup!Migrated(db) = Backup!Empty => db \in {None, Backup!Empty, Backup!Blank}
    BY <1>1, Migrates DEF Backup!Open, BackupInv, BackupShapes
  <2> QED BY <1>1, <2>1, FileKinds DEF Backup!Open, BackupInv, BackupShapes, UpgradedKept, StageInv, EmptyInv
<1>2. CASE Backup!FirstSave
  <2>1. running \in Opens
    BY <1>2 DEF Backup!FirstSave, BackupInv, BackupShapes, StageInv
  <2>2. UpgradedKept'
    BY <1>2 DEF Backup!FirstSave, BackupInv, UpgradedKept, StageInv
  <2> QED BY <1>2, <2>1, <2>2, FileKinds DEF Backup!FirstSave, BackupInv, BackupShapes, StageInv, EmptyInv
<1>3. CASE Backup!Edit
  <2>1. images + 1 \in Nat
    BY DEF BackupInv, BackupShapes
  <2>2. Backup!Used(images + 1) \in Opens /\ Backup!Used(images + 1) # Backup!Empty
    BY <2>1, FileKinds
  <2> QED BY <1>3, <2>1, <2>2, FileKinds DEF Backup!Edit, BackupInv, BackupShapes, UpgradedKept, StageInv,
             EmptyInv
<1>4. CASE Backup!Save \/ Backup!Stop \/ Backup!Restore
  <2>1. stage = "running" /\ running \in Opens /\ db' = running
    BY <1>4 DEF Backup!Save, Backup!Stop, Backup!Restore, BackupInv, BackupShapes, StageInv
  <2>2. BackupShapes' /\ UpgradedKept'
    BY <1>4, <2>1, FileKinds DEF Backup!Save, Backup!Stop, Backup!Restore, BackupInv, BackupShapes, UpgradedKept
  <2>3. ~Backup!IsV01(db') /\ db' # Backup!Blank
    BY <2>1, FileKinds
  <2>4. StageInv' /\ EmptyInv'
    BY <1>4, <2>1, <2>3 DEF Backup!Save, Backup!Stop, Backup!Restore, BackupInv, StageInv, EmptyInv
  <2> QED BY <2>2, <2>4 DEF BackupInv
<1>5. CASE Backup!Crash
    BY <1>5 DEF Backup!Crash, BackupInv, BackupShapes, UpgradedKept, StageInv, EmptyInv
<1>6. CASE Backup!RestoreCopies
    BY <1>6 DEF Backup!RestoreCopies, BackupInv, BackupShapes, UpgradedKept, StageInv, EmptyInv
<1>7. CASE Backup!RestoreReplaces
  <2>1. Backup!IsV01(bak) /\ bak \in Files /\ bak # Backup!Blank
    BY <1>7, FileKinds DEF Backup!RestoreReplaces, BackupInv, BackupShapes, StageInv
  <2> QED BY <1>7, <2>1 DEF Backup!RestoreReplaces, BackupInv, BackupShapes, UpgradedKept, StageInv, EmptyInv
<1>8. CASE Backup!OldRelease
  <2>1. images + 1 \in Nat
    BY DEF BackupInv, BackupShapes
  <2>2. Backup!V01(images + 1) \in Files /\ Backup!V01(images + 1) # Backup!Blank
    BY <2>1, FileKinds
  <2> QED BY <1>8, <2>1, <2>2 DEF Backup!OldRelease, BackupInv, BackupShapes, UpgradedKept, StageInv, EmptyInv
<1> QED BY <1>1, <1>2, <1>3, <1>4, <1>5, <1>6, <1>7, <1>8

LEMMA BackupKeeps == ASSUME BackupApart, BackupInv, Backup!Next PROVE BackupInv'
BY BackupStarts, BackupRuns DEF Backup!Next

LEMMA BackupRests ==
    ASSUME BackupInv, UNCHANGED backupVars
    PROVE  BackupInv'
BY DEF BackupInv, BackupShapes, UpgradedKept, StageInv, EmptyInv, backupVars

LEMMA BackupGives ==
    ASSUME BackupApart, BackupInv
    PROVE  Backup!V01IsKept /\ Backup!RecoveredFirst
BY DEF BackupInv, UpgradedKept, EmptyInv, Backup!V01IsKept, Backup!RecoveredFirst

\* A database in use gives way to what is in memory, or is copied first.
UsedGives == db # None /\ db[1] = "used" /\ db' # db => db' = running \/ db \in prev' \/ images' # images

LEMMA UsedStays == ASSUME BackupApart, BackupInv, Backup!Next PROVE UsedGives
<1>1. db # None /\ db[1] = "used" => db \notin {None, Backup!Empty, Backup!Torn, Backup!Blank}
    BY DEF Backup!Empty, Backup!Torn, Backup!Blank
<1>2. CASE Backup!RelayRecovers \/ Backup!RelayCopied
    BY <1>1, <1>2 DEF Backup!RelayRecovers, Backup!RelayCopied, Backup!Recoverable, Backup!EmptyCurrent,
       BackupInv, StageInv, UsedGives
<1>3. CASE Backup!RestoreReplaces \/ Backup!OldRelease
  <2>1. images \in Nat
    BY DEF BackupInv, BackupShapes
  <2> QED BY <1>3, <2>1 DEF Backup!RestoreReplaces, Backup!OldRelease, BackupInv, StageInv, UsedGives
<1>4. CASE \/ Backup!PluginRecovers \/ Backup!StartFails \/ Backup!PutAside \/ Backup!BackUp \/ Backup!Open
           \/ Backup!FirstSave \/ Backup!Edit \/ Backup!Save \/ Backup!Stop \/ Backup!Crash
           \/ Backup!Restore \/ Backup!RestoreCopies
    BY <1>4 DEF Backup!PluginRecovers, Backup!StartFails, Backup!PutAside, Backup!BackUp, Backup!Open,
       Backup!FirstSave, Backup!Edit, Backup!Save, Backup!Stop, Backup!Crash, Backup!Restore,
       Backup!RestoreCopies, UsedGives
<1> QED BY <1>2, <1>3, <1>4 DEF Backup!Next

-----------------------------------------------------------------------------
(* Both, in the composed specification.                                    *)

KeepInv == (part = "upgrade" => UpgradeInv) /\ (part = "backup" => BackupInv)

LEMMA KeepInit == ASSUME OldUsers # {}, BackupApart, MCInit PROVE KeepInv
BY UpgradeInit, BackupInit DEF MCInit, KeepInv

LEMMA KeepNext ==
    ASSUME OldApart, BackupApart, KeepInv, [MCNext]_<<part, vars, rowsVars, oldVars, backupVars>>
    PROVE  KeepInv' /\ [UsedGives]_(Backup!vars)
<1>1. /\ part' = part
      /\ \/ part = "upgrade" /\ Old!Next
         \/ UNCHANGED oldVars
      /\ \/ part = "backup" /\ Backup!Next
         \/ UNCHANGED backupVars
    BY DEF MCNext
<1>2. ASSUME part = "upgrade" PROVE UpgradeInv'
    BY <1>1, <1>2, UpgradeKeeps DEF KeepInv
<1>3. ASSUME part = "backup" PROVE BackupInv'
    BY <1>1, <1>3, BackupKeeps, BackupRests DEF KeepInv
<1>4. ASSUME part = "backup" /\ Backup!Next PROVE UsedGives
    BY <1>4, UsedStays DEF KeepInv
<1>5. ASSUME UNCHANGED backupVars PROVE UNCHANGED Backup!vars
    BY <1>5 DEF backupVars, Backup!vars
<1> QED BY <1>1, <1>2, <1>3, <1>4, <1>5 DEF KeepInv

\* Opening old databases, cut off and repeated, loses nothing: members keep what their rules
\* gave them, rules made by hand and rooms stay, the mark tells where the database came from,
\* and a v0.1 database or one in use is never overwritten, nor a new server set up while a
\* backup can be recovered.
THEOREM UpgradesLoseNothing ==
    ASSUME OldUsers # {}, OldApart, BackupApart
    PROVE  MCSpec => UpgradesKeepAll
<1>1. MCInit => KeepInv
    BY KeepInit
<1>2. KeepInv /\ [MCNext]_<<part, vars, rowsVars, oldVars, backupVars>> => KeepInv' /\ [UsedGives]_(Backup!vars)
    BY KeepNext
<1> DEFINE Kept == part = "upgrade" => /\ Old!MembersKeepTheirRules /\ Old!HandMadeRulesStay
                                       /\ Old!RoomsAreKept /\ Old!MarkTellsTheHistory
           Safe == part = "backup" => Backup!V01IsKept /\ Backup!RecoveredFirst
<1>3. KeepInv => Kept /\ Safe
    BY UpgradeGives, BackupGives DEF KeepInv
<1>4. MCSpec => []KeepInv /\ [][UsedGives]_(Backup!vars)
    BY <1>1, <1>2, PTL DEF MCSpec
<1>5. MCSpec => []Kept /\ []Safe
    BY <1>3, <1>4, PTL
<1>6. MCSpec => Backup!UsedIsKept
    BY <1>4 DEF Backup!UsedIsKept, UsedGives
<1> HIDE DEF Kept, Safe
<1> QED BY <1>5, <1>6 DEF UpgradesKeepAll, Kept, Safe
===============================================================================
