---------------------------- MODULE RuleEngineProofs ----------------------------
(***************************************************************************)
(* Proofs about the rules over several runs of the engine, for any rules   *)
(* enabled together, any commits and any way to cut history into runs: the *)
(* outputs of a commit come out in the order of the rules, rules that keep *)
(* nothing grant for exactly the commits that deserve it, records and      *)
(* firsts are those of all of history, what rules count is what a single   *)
(* run over all of history would count, and fortunes are told when they    *)
(* come true.                                                              *)
(***************************************************************************)
EXTENDS RuleEngine, EnumerationProofs

AnyGrant   == [rule : AllRules, commit : Nat, user : Users, title : Nat]
GrantBy(r) == [rule : {r}, commit : Nat, user : Users, title : Nat]

-----------------------------------------------------------------------------
(* What one rule put out, of a list of outputs.                            *)
LEMMA OfRuleType ==
  ASSUME NEW s \in Seq(AnyGrant), NEW r
  PROVE  OfRule(s, r) \in Seq(GrantBy(r))
<1> DEFINE S == {i \in DOMAIN s : s[i].rule = r}
           p == Part(s, S)
<1>1. S \in SUBSET DOMAIN s
  OBVIOUS
<1>2. /\ Cardinality(S) \in Nat
      /\ p \in Seq(AnyGrant) /\ Len(p) = Cardinality(S)
      /\ DOMAIN p = 1..Cardinality(S)
      /\ \A k \in DOMAIN p : NthOf(S, k) \in S /\ p[k] = s[NthOf(S, k)]
  <2> HIDE DEF S
  <2> QED
    BY <1>1, PartType
<1>3. \A k \in DOMAIN p : p[k] \in AnyGrant /\ p[k].rule = r
  <2>1. \A k \in DOMAIN p : p[k] \in AnyGrant
    <3> HIDE DEF p
    <3> QED
      BY <1>2, ElementOfSeq
  <2>2. \A k \in DOMAIN p : s[NthOf(S, k)].rule = r
    BY <1>2
  <2> QED
    BY <1>2, <2>1, <2>2
<1> HIDE DEF p, S
<1>4. \A k \in DOMAIN p : p[k] \in GrantBy(r)
  BY <1>3 DEF AnyGrant, GrantBy
<1>5. p \in [1..Cardinality(S) -> GrantBy(r)]
  <2>1. p = [k \in 1..Cardinality(S) |-> p[k]]
    BY <1>2, LenProperties
  <2> QED
    BY <1>2, <1>4, <2>1
<1>6. p \in Seq(GrantBy(r))
  BY <1>2, <1>5, SeqDef
<1> QED
  BY <1>6 DEF OfRule, p, S

LEMMA GrantByAny ==
  ASSUME NEW r \in AllRules
  PROVE  /\ GrantBy(r) \subseteq AnyGrant
         /\ Seq(GrantBy(r)) \subseteq Seq(AnyGrant)
<1>1. GrantBy(r) \subseteq AnyGrant
  BY DEF GrantBy, AnyGrant
<1> QED
  BY <1>1, SeqMonotonic

LEMMA OfRuleConcat ==
  ASSUME NEW s \in Seq(AnyGrant), NEW t \in Seq(AnyGrant), NEW r
  PROVE  OfRule(s \o t, r) = OfRule(s, r) \o OfRule(t, r)
<1> DEFINE Y == {g \in AnyGrant : g.rule = r}
<1>1. ASSUME NEW p \in Seq(AnyGrant) PROVE OfRule(p, r) = Where(p, Y)
  <2>1. \A i \in DOMAIN p : p[i] \in AnyGrant
    BY LenProperties, ElementOfSeq
  <2>2. {i \in DOMAIN p : p[i].rule = r} = {i \in DOMAIN p : p[i] \in Y}
    BY <2>1
  <2> QED
    BY <2>2 DEF OfRule, Where
<1>2. s \o t \in Seq(AnyGrant)
  BY ConcatProperties
<1> HIDE DEF Y
<1>3. Where(s \o t, Y) = Where(s, Y) \o Where(t, Y)
  BY WhereConcat
<1> QED
  BY <1>1, <1>2, <1>3

(* Of what one rule put out, that rule put out all and the others nothing. *)
LEMMA OfRuleOwn ==
  ASSUME NEW q \in AllRules, NEW s \in Seq(GrantBy(q)), NEW r
  PROVE  OfRule(s, r) = IF r = q THEN s ELSE <<>>
<1>1. \A i \in DOMAIN s : s[i].rule = q
  <2>1. \A i \in DOMAIN s : s[i] \in GrantBy(q)
    BY LenProperties, ElementOfSeq
  <2> QED
    BY <2>1 DEF GrantBy
<1>2. CASE r = q
  <2>1. {i \in DOMAIN s : s[i].rule = r} = DOMAIN s
    BY <1>1, <1>2
  <2> QED
    BY <1>2, <2>1, PartAll DEF OfRule
<1>3. CASE r # q
  <2>1. {i \in DOMAIN s : s[i].rule = r} = {}
    BY <1>1, <1>3
  <2> QED
    BY <1>3, <2>1, PartNone DEF OfRule
<1> QED
  BY <1>2, <1>3

LEMMA OfRuleNone == \A r : OfRule(<<>>, r) = <<>>
<1>1. \A r : {i \in DOMAIN <<>> : <<>>[i].rule = r} = {}
  OBVIOUS
<1> QED
  BY <1>1, PartNone DEF OfRule

-----------------------------------------------------------------------------
(* The rules of the engine in order, and lists joined in that order.       *)
LEMMA EngineProperties ==
  ASSUME enabled \in Focuses
  PROVE  /\ enabled \subseteq AllRules
         /\ Len(Engine) \in Nat /\ DOMAIN Engine = 1..Len(Engine)
         /\ \A k \in DOMAIN Engine : Engine[k] \in enabled
         /\ \A k, m \in DOMAIN Engine : k < m => Engine[k] < Engine[m]
         /\ \A r \in enabled : \E k \in DOMAIN Engine : Engine[k] = r
<1>1. enabled \subseteq AllRules
  BY FocusAssumption
<1>2. enabled \in SUBSET (1..19)
  BY <1>1 DEF AllRules
<1> QED
  BY <1>1, <1>2, ListOfType DEF Engine

\* A list for each rule of the engine, in their order.
Parts(parts) ==
  /\ parts \in Seq(Seq(AnyGrant)) /\ Len(parts) = Len(Engine)
  /\ \A k \in DOMAIN Engine : parts[k] \in Seq(GrantBy(Engine[k]))

LEMMA PartsType ==
  ASSUME enabled \in Focuses, NEW out,
         \A r \in enabled : out[r] \in Seq(GrantBy(r))
  PROVE  /\ Parts([i \in DOMAIN Engine |-> out[Engine[i]]])
         /\ \A k \in DOMAIN Engine :
              [i \in DOMAIN Engine |-> out[Engine[i]]][k] = out[Engine[k]]
<1> DEFINE parts == [i \in DOMAIN Engine |-> out[Engine[i]]]
           n == Len(Engine)
<1>1. /\ n \in Nat /\ DOMAIN Engine = 1..n /\ enabled \subseteq AllRules
      /\ \A k \in 1..n : Engine[k] \in enabled
  BY EngineProperties
<1>2. \A k \in 1..n : out[Engine[k]] \in Seq(GrantBy(Engine[k]))
  BY <1>1
<1>3. \A k \in 1..n : out[Engine[k]] \in Seq(AnyGrant)
  BY <1>1, <1>2, GrantByAny
<1>4. /\ parts \in [1..n -> Seq(AnyGrant)]
      /\ \A k \in 1..n : parts[k] = out[Engine[k]]
  BY <1>1, <1>3
<1>5. parts \in Seq(Seq(AnyGrant)) /\ Len(parts) = n
  BY <1>1, <1>4, SeqDef, LenProperties
<1> QED
  BY <1>1, <1>2, <1>4, <1>5 DEF Parts

(* The lists of the first n rules joined have for each of these rules its  *)
(* list and nothing of the others; if no list has more than one output,    *)
(* they are in the order of the rules.                                     *)
LEMMA JoinedByRule ==
  ASSUME enabled \in Focuses, NEW parts, Parts(parts)
  PROVE  /\ Joined(parts) \in Seq(AnyGrant)
         /\ \A k \in DOMAIN Engine : OfRule(Joined(parts), Engine[k]) = parts[k]
<1> DEFINE N == Len(Engine)
           J(n) == JoinedUpTo(parts)[n]
           Bad == {n \in 0..N : \E k \in 1..N :
                     OfRule(J(n), Engine[k]) # IF k <= n THEN parts[k] ELSE <<>>}
<1>1. /\ N \in Nat /\ DOMAIN Engine = 1..N /\ enabled \subseteq AllRules
      /\ \A k \in 1..N : Engine[k] \in enabled
      /\ \A k, m \in 1..N : k < m => Engine[k] < Engine[m]
  BY EngineProperties
<1>2. /\ parts \in Seq(Seq(AnyGrant)) /\ Len(parts) = N
      /\ \A k \in 1..N : parts[k] \in Seq(GrantBy(Engine[k]))
      /\ \A k \in 1..N : parts[k] \in Seq(AnyGrant)
  BY <1>1, ElementOfSeq, LenProperties DEF Parts
<1>3. /\ J(0) = <<>>
      /\ \A n \in 1..N : J(n) = J(n - 1) \o parts[n]
      /\ \A n \in 0..N : J(n) \in Seq(AnyGrant)
  BY <1>2, JoinedUpToStep
<1>4. \A k, m \in 1..N : k # m => Engine[k] # Engine[m]
  <2>1. SUFFICES ASSUME NEW k \in 1..N, NEW m \in 1..N, k # m PROVE Engine[k] # Engine[m]
    OBVIOUS
  <2>2. k < m \/ m < k
    BY <1>1, <2>1
  <2>3. Engine[k] < Engine[m] \/ Engine[m] < Engine[k]
    BY <1>1, <2>2
  <2>4. Engine[k] \in Int /\ Engine[m] \in Int
    <3>1. Engine[k] \in AllRules /\ Engine[m] \in AllRules
      BY <1>1
    <3> QED
      BY <3>1 DEF AllRules
  <2> QED
    BY <2>3, <2>4
<1> HIDE DEF J
<1>5. Bad = {}
  <2>1. SUFFICES ASSUME Bad # {} PROVE FALSE
    OBVIOUS
  <2>2. Bad \in SUBSET Nat
    <3>1. 0..N \in SUBSET Nat
      BY <1>1
    <3> QED
      BY <3>1
  <2>3. PICK n \in Bad : \A b \in Bad : n <= b
    BY <2>1, <2>2, LeastExists
  <2>4. PICK k \in 1..N : OfRule(J(n), Engine[k]) # IF k <= n THEN parts[k] ELSE <<>>
    OBVIOUS
  <2>5. n \in 0..N /\ n # 0
    <3>1. n = 0 => OfRule(J(n), Engine[k]) = <<>> /\ ~(k <= n)
      BY <1>1, <1>3, OfRuleNone
    <3>2. n \in 0..N
      OBVIOUS
    <3> QED
      BY <2>4, <3>1, <3>2
  <2>6. n \in 1..N /\ n - 1 \in 0..N /\ ~(n <= n - 1)
    BY <1>1, <2>5
  <2>7. n - 1 \notin Bad
    <3> HIDE DEF Bad
    <3> QED
      BY <2>3, <2>6
  <2>8. OfRule(J(n - 1), Engine[k]) = IF k <= n - 1 THEN parts[k] ELSE <<>>
    BY <2>6, <2>7
  <2>9. J(n) = J(n - 1) \o parts[n] /\ J(n - 1) \in Seq(AnyGrant) /\ parts[n] \in Seq(AnyGrant)
    BY <1>2, <1>3, <2>6
  <2>10. OfRule(J(n), Engine[k]) = OfRule(J(n - 1), Engine[k]) \o OfRule(parts[n], Engine[k])
    BY <2>9, OfRuleConcat
  <2>11. OfRule(parts[n], Engine[k]) = IF k = n THEN parts[n] ELSE <<>>
    <3>1. /\ Engine[n] \in AllRules /\ parts[n] \in Seq(GrantBy(Engine[n]))
          /\ Engine[k] = Engine[n] <=> k = n
      BY <1>1, <1>2, <1>4, <2>6
    <3> QED
      BY <3>1, OfRuleOwn
  <2>12. parts[k] \in Seq(AnyGrant) /\ <<>> \in Seq(AnyGrant)
    BY <1>2, EmptySeq
  <2>13. CASE k = n
    <3>1. ~(k <= n - 1) /\ k <= n
      BY <1>1, <2>6, <2>13
    <3> QED
      BY <2>4, <2>8, <2>10, <2>11, <2>12, <2>13, <3>1, ConcatEmptySeq
  <2>14. CASE k # n
    <3>1. k <= n - 1 <=> k <= n
      BY <1>1, <2>6, <2>14
    <3> QED
      BY <2>4, <2>8, <2>10, <2>11, <2>12, <2>14, <3>1, ConcatEmptySeq
  <2> QED
    BY <2>13, <2>14
<1>6. N \in 0..N /\ Joined(parts) = J(N)
  BY <1>1, <1>2 DEF Joined, J
<1>7. ASSUME NEW k \in 1..N PROVE OfRule(J(N), Engine[k]) = parts[k]
  <2>1. N \notin Bad /\ k <= N
    BY <1>1, <1>5
  <2> QED
    BY <1>6, <2>1
<1> QED
  BY <1>1, <1>3, <1>6, <1>7

Rising(s) == \A i, j \in DOMAIN s : i < j => s[i].rule < s[j].rule

LEMMA JoinedRises ==
  ASSUME enabled \in Focuses, NEW parts, Parts(parts),
         \A k \in DOMAIN Engine : Len(parts[k]) <= 1
  PROVE  Rising(Joined(parts))
<1> DEFINE N == Len(Engine)
           J(n) == JoinedUpTo(parts)[n]
           UpTo(n) == \A i \in DOMAIN J(n) : \E k \in 1..n : J(n)[i].rule = Engine[k]
           Bad == {n \in 0..N : ~(Rising(J(n)) /\ UpTo(n))}
<1>1. /\ N \in Nat /\ DOMAIN Engine = 1..N
      /\ \A k \in 1..N : Engine[k] \in Int
      /\ \A k, m \in 1..N : k < m => Engine[k] < Engine[m]
  <2>1. \A r \in enabled : r \in Int
    BY EngineProperties DEF AllRules
  <2> QED
    BY <2>1, EngineProperties
<1>2. /\ parts \in Seq(Seq(AnyGrant)) /\ Len(parts) = N
      /\ \A k \in 1..N : /\ parts[k] \in Seq(AnyGrant) /\ Len(parts[k]) <= 1
                         /\ parts[k] \in Seq(GrantBy(Engine[k]))
  BY <1>1, ElementOfSeq, LenProperties DEF Parts
<1>3. /\ J(0) = <<>>
      /\ \A n \in 1..N : J(n) = J(n - 1) \o parts[n]
      /\ \A n \in 0..N : J(n) \in Seq(AnyGrant)
  BY <1>2, JoinedUpToStep
<1> HIDE DEF J
<1>4. Bad = {}
  <2>1. SUFFICES ASSUME Bad # {} PROVE FALSE
    OBVIOUS
  <2>2. Bad \in SUBSET Nat
    <3>1. 0..N \in SUBSET Nat
      BY <1>1
    <3> QED
      BY <3>1
  <2>3. PICK n \in Bad : \A b \in Bad : n <= b
    BY <2>1, <2>2, LeastExists
  <2>4. n \in 0..N /\ ~(Rising(J(n)) /\ UpTo(n))
    OBVIOUS
  <2>5. n # 0
    BY <1>3, <2>4 DEF Rising
  <2>6. n \in 1..N /\ n - 1 \in 0..N /\ ~(n <= n - 1)
    BY <1>1, <2>4, <2>5
  <2>7. n - 1 \notin Bad
    <3> HIDE DEF Bad
    <3> QED
      BY <2>3, <2>6
  <2> DEFINE s == J(n - 1)
             t == parts[n]
             u == J(n)
             p == Len(s)
  <2>8. Rising(s) /\ \A i \in DOMAIN s : \E k \in 1..(n - 1) : s[i].rule = Engine[k]
    BY <2>6, <2>7
  <2>9. /\ s \in Seq(AnyGrant) /\ t \in Seq(AnyGrant) /\ u = s \o t
        /\ t \in Seq(GrantBy(Engine[n])) /\ Len(t) <= 1
    BY <1>2, <1>3, <2>6
  <2> HIDE DEF s, t, u
  <2>10. /\ p \in Nat /\ Len(t) \in 0..1 /\ DOMAIN s = 1..p
         /\ u \in Seq(AnyGrant) /\ DOMAIN u = 1 .. p + Len(t)
         /\ \A i \in 1 .. p + Len(t) : u[i] = IF i <= p THEN s[i] ELSE t[i - p]
    <3>1. p \in Nat /\ DOMAIN s = 1..p /\ Len(t) \in Nat
      BY <2>9, LenProperties
    <3>2. Len(t) \in 0..1
      <4>1. Len(t) \in Nat /\ Len(t) <= 1
        BY <2>9, <3>1
      <4>2. \A x \in Nat : x <= 1 => x \in 0..1
        OBVIOUS
      <4> QED
        BY <4>1, <4>2, Zenon
    <3>3. /\ u \in Seq(AnyGrant) /\ Len(u) = p + Len(t)
          /\ \A i \in 1 .. p + Len(t) : u[i] = IF i <= p THEN s[i] ELSE t[i - p]
      BY <2>9, ConcatProperties
    <3> QED
      BY <3>1, <3>2, <3>3, LenProperties
  <2>11. \A i \in DOMAIN u : i \in 1..p \/ (i = p + 1 /\ 1 \in 1..Len(t))
    <3>1. Len(t) = 0 \/ Len(t) = 1
      BY <2>10
    <3> HIDE DEF p
    <3> QED
      BY <2>10, <3>1
  <2>12. \A i \in 1..p : i \in DOMAIN u /\ u[i] = s[i]
    BY <2>10
  <2>13. 1 \in 1..Len(t) => u[p + 1].rule = Engine[n]
    <3>1. SUFFICES ASSUME 1 \in 1..Len(t) PROVE u[p + 1].rule = Engine[n]
      OBVIOUS
    <3>2. p + 1 \in 1 .. p + Len(t) /\ ~(p + 1 <= p) /\ (p + 1) - p = 1
      BY <2>10, <3>1
    <3>3. u[p + 1] = t[1]
      BY <2>10, <3>2
    <3>4. t[1] \in GrantBy(Engine[n])
      BY <2>9, <3>1, ElementOfSeq
    <3> QED
      BY <3>3, <3>4 DEF GrantBy
  <2>14. \A i \in 1..p : \E k \in 1..(n - 1) : u[i].rule = Engine[k]
    BY <2>8, <2>10, <2>12
  <2>15. \A k \in 1..(n - 1) : k \in 1..n /\ k \in 1..N /\ k < n
    BY <1>1, <2>6
  <2>16. UpTo(n)
    <3>1. SUFFICES ASSUME NEW i \in DOMAIN u PROVE \E k \in 1..n : u[i].rule = Engine[k]
      BY DEF u
    <3>2. n \in 1..n
      BY <1>1, <2>6
    <3> QED
      BY <2>11, <2>13, <2>14, <2>15, <3>1, <3>2
  <2>17. Rising(u)
    <3>1. SUFFICES ASSUME NEW i \in DOMAIN u, NEW j \in DOMAIN u, i < j
                   PROVE  u[i].rule < u[j].rule
      BY DEF Rising
    <3>2. CASE j \in 1..p
      <4>1. i \in 1..p
        BY <2>10, <3>1, <3>2
      <4> QED
        BY <2>8, <2>10, <2>12, <3>1, <3>2, <4>1 DEF Rising
    <3>3. CASE j \notin 1..p
      <4>1. j = p + 1 /\ u[j].rule = Engine[n] /\ i \in 1..p
        BY <2>10, <2>11, <2>13, <3>1, <3>3
      <4> QED
        BY <1>1, <2>6, <2>14, <2>15, <4>1
    <3> QED
      BY <3>2, <3>3
  <2> QED
    BY <2>4, <2>16, <2>17 DEF u
<1>5. N \in 0..N /\ Joined(parts) = J(N)
  BY <1>1, <1>2 DEF Joined, J
<1> QED
  BY <1>4, <1>5

(* Sorting keeps what each rule put out, and nothing of rules that are not *)
(* of the engine; it puts the rules in order if each put out one at most.  *)
LEMMA SortedByRule ==
  ASSUME enabled \in Focuses, NEW s \in Seq(AnyGrant)
  PROVE  /\ Sorted(s) \in Seq(AnyGrant)
         /\ \A r \in enabled : OfRule(Sorted(s), r) = OfRule(s, r)
         /\ (\A r \in enabled : Len(OfRule(s, r)) <= 1) => Rising(Sorted(s))
<1> DEFINE out == [r \in enabled |-> OfRule(s, r)]
           parts == [i \in DOMAIN Engine |-> out[Engine[i]]]
<1>1. \A r \in enabled : out[r] \in Seq(GrantBy(r)) /\ out[r] = OfRule(s, r)
  BY OfRuleType
<1> HIDE DEF out
<1>2. Parts(parts) /\ \A k \in DOMAIN Engine : parts[k] = out[Engine[k]]
  BY <1>1, PartsType
<1>3. \A k \in DOMAIN Engine : Engine[k] \in enabled
  BY EngineProperties
<1>4. Sorted(s) = Joined(parts)
  <2>1. parts = [i \in DOMAIN Engine |-> OfRule(s, Engine[i])]
    BY <1>1, <1>3
  <2> QED
    BY <2>1 DEF Sorted
<1> HIDE DEF parts
<1>5. /\ Joined(parts) \in Seq(AnyGrant)
      /\ \A k \in DOMAIN Engine : OfRule(Joined(parts), Engine[k]) = parts[k]
  BY <1>2, JoinedByRule
<1>6. \A r \in enabled : OfRule(Sorted(s), r) = OfRule(s, r)
  BY <1>1, <1>2, <1>4, <1>5, EngineProperties
<1>7. (\A r \in enabled : Len(OfRule(s, r)) <= 1) => Rising(Sorted(s))
  <2>1. SUFFICES ASSUME \A r \in enabled : Len(OfRule(s, r)) <= 1 PROVE Rising(Joined(parts))
    BY <1>4
  <2>2. \A k \in DOMAIN Engine : Len(parts[k]) <= 1
    BY <1>1, <1>2, <1>3, <2>1
  <2> QED
    BY <1>2, <2>2, JoinedRises
<1> QED
  BY <1>4, <1>5, <1>6, <1>7

LEMMA PushedByRule ==
  ASSUME enabled \in Focuses, NEW out,
         \A r \in enabled : out[r] \in Seq(GrantBy(r))
  PROVE  /\ Pushed(out) \in Seq(AnyGrant)
         /\ \A r \in enabled : OfRule(Pushed(out), r) = out[r]
<1> DEFINE parts == [i \in DOMAIN Engine |-> out[Engine[i]]]
<1>1. Parts(parts) /\ \A k \in DOMAIN Engine : parts[k] = out[Engine[k]]
  BY PartsType
<1>2. Pushed(out) = Joined(parts)
  BY DEF Pushed
<1> HIDE DEF parts
<1>3. /\ Joined(parts) \in Seq(AnyGrant)
      /\ \A k \in DOMAIN Engine : OfRule(Joined(parts), Engine[k]) = parts[k]
  BY <1>1, JoinedByRule
<1> QED
  BY <1>1, <1>2, <1>3, EngineProperties

-----------------------------------------------------------------------------
(***************************************************************************)
(* Types: what observers say, and what each rule keeps.                    *)
(***************************************************************************)
Tokens == Seq([length : Nat, names : Nat])

Observation ==
  [kind : Kinds, value : {0}]
    \cup [kind : {"Subject"}, value : [length : Nat, topic : Nat]]
    \cup [kind : {"ParentCount", "Profanity", "QuinePrefix"}, value : Nat]
    \cup [kind : {"HexTokens"}, value : Tokens]

\* The rules that grant while a commit is looked at; the others wait.
Prompt == Stateless \cup {9}

\* The rules that look at each commit by itself.
OneShotRules == Stateless \cup {17}

\* At most one grant, of rule r.
OneOf(r) == {s \in Seq(GrantBy(r)) : Len(s) <= 1}

Counts  == [Users -> Nat]
Lengths == Nat \cup {NoLength}

RecordMemory(r) == [best : Lengths, candidate : OneOf(r)]
FirstMemory(r)  == [settled : Nat, earliest : OneOf(r)]
LeaderMemory    == [counts : Counts, leader : {s \in Seq(Users) : Len(s) <= 1}]
FortuneMemory   == [visited : Seq(Nat),
                    tokens : Seq([names : Nat, source : Nat, user : Users, cutoff : Int])]
FortuneCache    == Seq([names : Nat, source : Nat, user : Users])
NihiloMemory    == [root : BOOLEAN, empty : BOOLEAN]
RootsMemory     == [count : Nat, roots : SUBSET [commit : 1..MaxCommits, user : Users]]
CopiesMemory    == [seen : SUBSET Nat, counts : Counts,
                    buffer : SUBSET [commit : 1..MaxCommits, user : Users, topic : Nat]]
CopiesCache     == [seen : SUBSET Nat, counts : Counts]

Memory(r) ==
  CASE r \in {2, 3} -> RecordMemory(r)  [] r \in {7, 14} -> FirstMemory(r)
    [] r = 9  -> Counts                 [] r = 10 -> LeaderMemory
    [] r = 13 -> FortuneMemory          [] r = 17 -> NihiloMemory
    [] r = 18 -> RootsMemory            [] r = 19 -> CopiesMemory
    [] OTHER  -> {<<>>}

Cached(r) ==
  CASE r \in {2, 3} -> Lengths          [] r \in {7, 14} -> Nat
    [] r = 9  -> Counts                 [] r = 10 -> LeaderMemory
    [] r = 13 -> FortuneCache           [] r = 18 -> Nat
    [] r = 19 -> CopiesCache            [] OTHER  -> {<<>>}

\* The outputs of rule r that wait for the commit to be complete.
Held(r) == OfRule(pending, r)

TypeOK ==
  /\ enabled \in Focuses
  /\ history \in Seq(Fact) /\ Len(history) <= MaxCommits
  /\ ends \subseteq 1..Len(history)
  /\ phase \in {"idle", "walk", "commit"}
  /\ at \in 0..Len(history)
  /\ phase # "idle" => processed < Len(history)
  /\ phase = "walk" => processed <= at
  /\ phase = "commit" => processed < at /\ todo \subseteq Observed(history[at])
  /\ pending \in Seq(AnyGrant)
  /\ phase # "commit" => pending = <<>>
  /\ granted \in Seq(AnyGrant \X Nat)
  /\ DOMAIN memory = enabled /\ DOMAIN cache = enabled
  /\ \A r \in enabled : memory[r] \in Memory(r) /\ cache[r] \in Cached(r)

(***************************************************************************)
(* A commit says each thing once, so no rule has more than one output of a *)
(* commit before it is complete, and most have none.                       *)
(***************************************************************************)
HeldOnce ==
  \A r \in enabled :
    /\ Held(r) \in OneOf(r)
    /\ Held(r) # <<>> => r \in Prompt /\ \A o \in todo : o.kind \notin Consumes(r)

BatchInOrder == phase = "walk" => Rising(batch)

\* The commits the rules have seen: those of earlier runs, and of this one.
InRun == IF phase = "idle" THEN {} ELSE at + 1 .. Len(history)
Met   == Seen \cup InRun

\* What has been said of the commit at hand.
Told == IF phase = "commit" THEN Observed(history[at]) \ todo ELSE {}

\* What a rule that keeps nothing grants for.
Wants(r, o) ==
  CASE r = 1  -> o.kind = "Fixup"        [] r = 4  -> o.kind = "NonUnicodeMessage"
    [] r = 5  -> o.kind = "EmptyCommit"  [] r = 6  -> o.kind = "WhitespaceOnly"
    [] r = 8  -> o.kind = "Profanity"    [] r = 12 -> o.kind = "QuinePrefix" /\ o.value >= MinQuine
    [] r = 15 -> o.kind = "ParentCount" /\ o.value >= OctopusThreshold
                 /\ o.value < CthulhuThreshold
    [] r = 16 -> o.kind = "ParentCount" /\ o.value >= CthulhuThreshold

(* The grants of such a rule are one for each commit met that deserves it; *)
(* what waits is for the commit at hand, if that was said of it.           *)
GrantsMatch(r) ==
  /\ {GrantsOf(r)[i].commit : i \in DOMAIN GrantsOf(r)} = {c \in Met : Deserves(r, history[c])}
  /\ \A i, j \in DOMAIN GrantsOf(r) : GrantsOf(r)[i].commit = GrantsOf(r)[j].commit => i = j

HeldMatches(r) ==
  IF r = 17 THEN
    phase = "commit" =>
      /\ memory[17].root  <=> \E o \in Told : o.kind = "ParentCount" /\ o.value = 0
      /\ memory[17].empty <=> \E o \in Told : o.kind = "EmptyCommit"
  ELSE IF \E o \in Told : Wants(r, o) THEN Held(r) # <<>> /\ Held(r)[1].commit = at
       ELSE Held(r) = <<>>

OneShots == \A r \in enabled \cap OneShotRules : GrantsMatch(r) /\ HeldMatches(r)

-----------------------------------------------------------------------------
\* The commits of this run that have told rule r something, or nothing at all.
HeardInRun(r) == InRun \cup {c \in {at} : \E o \in Told : o.kind \in Consumes(r)}

\* What h007 and h014 look for.
Did(r, f) == IF r = 7 THEN f.swears > 0 ELSE "CiConfig" \in f.kinds

FirstOfAll(r, S, c) ==
  /\ c \in S /\ Did(r, history[c])
  /\ \A d \in S : Did(r, history[d]) => c <= d

Nobody(r, S) == \A c \in S : ~Did(r, history[c])

FirstBy(r, c) == <<GrantOf(r, c, history[c].author, 0)>>

\* Who was first in what earlier runs saw, and what this run found so far.
FirstsSettled(r) ==
  \/ Nobody(r, Seen) /\ cache[r] = NullCommit /\ GrantsOf(r) = <<>>
  \/ FirstOfAll(r, Seen, cache[r]) /\ GrantsOf(r) = FirstBy(r, cache[r])

FirstsHeard(r) ==
  phase # "idle" =>
    /\ memory[r].settled = cache[r]
    /\ cache[r] = NullCommit =>
         \/ Nobody(r, HeardInRun(r)) /\ memory[r].earliest = <<>>
         \/ \E c \in HeardInRun(r) :
              FirstOfAll(r, HeardInRun(r), c) /\ memory[r].earliest = FirstBy(r, c)

Firsts == \A r \in enabled \cap {7, 14} : FirstsSettled(r) /\ FirstsHeard(r)

-----------------------------------------------------------------------------
\* What h002 and h003 compare.
Beats(r, a, b) == IF r = 2 THEN a < b ELSE a > b
Worthy(r, l)   == IF r = 2 THEN l < ShortThreshold ELSE l > LongThreshold
LengthOf(c)    == history[c].length

Best(r, S, b) ==
  \/ b = NoLength /\ \A c \in S : ~Worthy(r, LengthOf(c))
  \/ /\ b \in Nat /\ Worthy(r, b)
     /\ \E c \in S : LengthOf(c) = b
     /\ \A c \in S : ~Beats(r, LengthOf(c), b)

\* The last grant is for the record in the cache, and each broke the one before.
Holders(r, own) ==
  /\ \A i \in DOMAIN own : own[i].commit \in Seen
  /\ IF own = <<>> THEN cache[r] = NoLength ELSE LengthOf(own[Len(own)].commit) = cache[r]
  /\ \A i, j \in DOMAIN own : i < j => Beats(r, LengthOf(own[j].commit), LengthOf(own[i].commit))

\* The record of what earlier runs saw, and what this run found so far.
RecordsSettled(r) == Best(r, Seen, cache[r]) /\ Holders(r, GrantsOf(r))

RecordsHeard(r) ==
  phase # "idle" =>
    /\ Best(r, Seen \cup HeardInRun(r), memory[r].best)
    /\ IF memory[r].candidate = <<>> THEN memory[r].best = cache[r]
       ELSE /\ memory[r].candidate[1].commit \in HeardInRun(r)
            /\ LengthOf(memory[r].candidate[1].commit) = memory[r].best
            /\ memory[r].best \in Nat
            /\ cache[r] # NoLength => Beats(r, memory[r].best, cache[r])

Records == \A r \in enabled \cap {2, 3} : RecordsSettled(r) /\ RecordsHeard(r)

-----------------------------------------------------------------------------
(***************************************************************************)
(* Types of what rules do.                                                 *)
(***************************************************************************)
LEMMA OneOfProperties ==
  ASSUME NEW r
  PROVE  /\ <<>> \in OneOf(r) /\ OneOf(r) \subseteq Seq(GrantBy(r))
         /\ \A g \in GrantBy(r) : <<g>> \in OneOf(r)
         /\ \A s \in OneOf(r) : s # <<>> => /\ Len(s) = 1 /\ DOMAIN s = {1}
                                            /\ s[1] \in GrantBy(r) /\ s = <<s[1]>>
<1>1. <<>> \in OneOf(r) /\ OneOf(r) \subseteq Seq(GrantBy(r))
  BY EmptySeq DEF OneOf
<1>2. ASSUME NEW g \in GrantBy(r) PROVE <<g>> \in OneOf(r)
  <2>1. <<g>> \in Seq(GrantBy(r)) /\ Len(<<g>>) = 1
    OBVIOUS
  <2> QED
    BY <2>1 DEF OneOf
<1>3. ASSUME NEW s \in OneOf(r), s # <<>>
      PROVE  /\ Len(s) = 1 /\ DOMAIN s = {1} /\ s[1] \in GrantBy(r) /\ s = <<s[1]>>
  <2>1. s \in Seq(GrantBy(r)) /\ Len(s) <= 1
    BY DEF OneOf
  <2>2. Len(s) \in Nat \ {0}
    BY <1>3, <2>1, EmptySeq
  <2>3. \A x \in Nat \ {0} : x <= 1 => x = 1
    OBVIOUS
  <2>4. Len(s) = 1
    BY <2>1, <2>2, <2>3, Zenon
  <2>5. DOMAIN s = 1..1 /\ s[1] \in GrantBy(r)
    <3>1. DOMAIN s = 1..1
      BY <2>1, <2>4, LenProperties
    <3>2. 1 \in 1..1
      OBVIOUS
    <3> QED
      BY <2>1, <2>4, <3>1, <3>2, ElementOfSeq
  <2>6. DOMAIN s = {1}
    BY <2>5
  <2>7. s = <<s[1]>>
    <3>1. <<s[1]>> \in Seq(GrantBy(r)) /\ Len(<<s[1]>>) = 1 /\ <<s[1]>>[1] = s[1]
      BY <2>5
    <3>2. \A i \in 1..1 : i = 1
      OBVIOUS
    <3>3. \A i \in 1..Len(s) : s[i] = <<s[1]>>[i]
      BY <2>4, <3>1, <3>2
    <3> QED
      BY <2>1, <2>4, <3>1, <3>3, SeqEqual
  <2> QED
    BY <2>4, <2>5, <2>6, <2>7
<1> QED
  BY <1>1, <1>2, <1>3

LEMMA GrantOfType ==
  ASSUME NEW r, NEW c \in Nat, NEW u \in Users, NEW t \in Nat
  PROVE  /\ GrantOf(r, c, u, t) \in GrantBy(r)
         /\ <<GrantOf(r, c, u, t)>> \in OneOf(r)
         /\ <<GrantOf(r, c, u, t)>> # <<>>
         /\ <<GrantOf(r, c, u, t)>>[1].commit = c
<1>1. GrantOf(r, c, u, t) \in GrantBy(r)
  BY DEF GrantOf, GrantBy
<1>2. <<GrantOf(r, c, u, t)>>[1].commit = c
  BY DEF GrantOf
<1>3. <<GrantOf(r, c, u, t)>> # <<>>
  OBVIOUS
<1> QED
  BY <1>1, <1>2, <1>3, OneOfProperties

(* What observers say of a commit: each kind once, and what it is told by. *)
LEMMA ObservedProperties ==
  ASSUME NEW f \in Fact
  PROVE  /\ Observed(f) \subseteq Observation
         /\ \A o, p \in Observed(f) : o.kind = p.kind => o = p
<1> DEFINE Flags   == {[kind |-> k, value |-> 0] : k \in f.kinds}
           Subject == [kind |-> "Subject", value |-> [length |-> f.length, topic |-> f.topic]]
           Parents == [kind |-> "ParentCount", value |-> f.parents]
           Some(o) == \/ o \in Flags \/ o = Subject \/ o = Parents
                      \/ (f.swears # 0 /\ o = [kind |-> "Profanity", value |-> f.swears])
                      \/ (f.quine # 0 /\ o = [kind |-> "QuinePrefix", value |-> f.quine])
                      \/ (f.tokens # <<>> /\ o = [kind |-> "HexTokens", value |-> f.tokens])
<1>1. /\ f.kinds \subseteq Kinds /\ f.length \in Nat /\ f.topic \in Nat /\ f.parents \in Nat
      /\ f.swears \in Nat /\ f.quine \in Nat /\ f.tokens \in Tokens
  BY DEF Fact, Tokens
<1>2. \A o \in Observed(f) : Some(o)
  BY DEF Observed
<1>3. \A o \in Flags : o.kind \in Kinds /\ o.value = 0 /\ o = [kind |-> o.kind, value |-> 0]
  BY <1>1
<1>4. ASSUME NEW o \in Observed(f) PROVE o \in Observation
  <2> USE DEF Observation
  <2>1. CASE o \in Flags
    BY <1>3, <2>1
  <2>2. CASE o = Subject
    BY <1>1, <2>2
  <2>3. CASE o = Parents
    BY <1>1, <2>3
  <2>4. CASE o = [kind |-> "Profanity", value |-> f.swears]
    BY <1>1, <2>4
  <2>5. CASE o = [kind |-> "QuinePrefix", value |-> f.quine]
    BY <1>1, <2>5
  <2>6. CASE o = [kind |-> "HexTokens", value |-> f.tokens]
    BY <1>1, <2>6
  <2> QED
    BY <1>2, <2>1, <2>2, <2>3, <2>4, <2>5, <2>6
<1>5. ASSUME NEW o \in Observed(f), NEW p \in Observed(f), o.kind = p.kind
      PROVE  o = p
  <2>1. Some(o) /\ Some(p)
    BY <1>2
  <2>2. CASE o \in Flags
    <3>1. o.kind \in Kinds
      BY <1>3, <2>2
    <3>2. p \in Flags
      BY <1>5, <2>1, <3>1 DEF Kinds
    <3> QED
      BY <1>3, <1>5, <2>2, <3>2
  <2>3. CASE p \in Flags
    <3>1. p.kind \in Kinds
      BY <1>3, <2>3
    <3>2. o \in Flags
      BY <1>5, <2>1, <3>1 DEF Kinds
    <3> QED
      BY <1>3, <1>5, <2>3, <3>2
  <2>4. CASE o \notin Flags /\ p \notin Flags
    <3> HIDE DEF Flags
    <3> QED
      BY <1>5, <2>1, <2>4
  <2> QED
    BY <2>2, <2>3, <2>4
<1> QED
  BY <1>4, <1>5

(* Rules that keep nothing grant when, and only when, they are told what   *)
(* they want.                                                              *)
LEMMA StatelessProcess ==
  ASSUME NEW r \in Stateless, NEW m, NEW c \in Nat, NEW u \in Users, NEW o \in Observation
  PROVE  /\ Process(r, m, c, u, o).m = m
         /\ Process(r, m, c, u, o).out \in OneOf(r)
         /\ Wants(r, o) => /\ o.kind \in Consumes(r)
                           /\ Process(r, m, c, u, o).out # <<>>
                           /\ Process(r, m, c, u, o).out[1].commit = c
         /\ ~Wants(r, o) => Process(r, m, c, u, o).out = <<>>
<1> DEFINE p == Process(r, m, c, u, o)
<1>1. /\ \E t \in Nat : p = [m |-> m, out |-> IF Wants(r, o) THEN <<GrantOf(r, c, u, t)>> ELSE <<>>]
      /\ Wants(r, o) => o.kind \in Consumes(r)
  <2>1. CASE r = 1
    BY <2>1 DEF Process, FixupProcess, Wants, Consumes
  <2>2. CASE r = 4
    BY <2>2 DEF Process, NonUnicodeProcess, Wants, Consumes
  <2>3. CASE r = 5
    BY <2>3 DEF Process, EmptyCommitProcess, Wants, Consumes
  <2>4. CASE r = 6
    BY <2>4 DEF Process, WhitespaceOnlyProcess, Wants, Consumes
  <2>5. CASE r = 8
    BY <2>5 DEF Process, PottyMouthProcess, Wants, Consumes
  <2>6. CASE r = 12
    BY <2>6 DEF Process, QuineCommitProcess, Wants, Consumes
  <2>7. CASE r = 15
    BY <2>7 DEF Process, OctopusProcess, Wants, Consumes
  <2>8. CASE r = 16
    <3>1. p = [m |-> m, out |-> IF Wants(r, o) THEN <<GrantOf(r, c, u, o.value)>> ELSE <<>>]
      BY <2>8 DEF Process, CthulhuProcess, Wants
    <3>4. Wants(r, o) => o.kind \in Consumes(r)
      BY <2>8 DEF Wants, Consumes
    <3>2. CASE o.value \in Nat
      BY <3>1, <3>2, <3>4
    <3>3. CASE o.value \notin Nat
      <4>1. o.kind # "ParentCount"
        BY <3>3 DEF Observation, Kinds
      <4>2. ~Wants(r, o)
        BY <2>8, <4>1 DEF Wants
      <4> QED
        BY <3>1, <3>4, <4>2
    <3> QED
      BY <3>2, <3>3
  <2> QED
    BY <2>1, <2>2, <2>3, <2>4, <2>5, <2>6, <2>7, <2>8 DEF Stateless
<1> HIDE DEF p
<1>3. PICK t \in Nat : p = [m |-> m, out |-> IF Wants(r, o) THEN <<GrantOf(r, c, u, t)>> ELSE <<>>]
  BY <1>1
<1>4. p.m = m /\ p.out = IF Wants(r, o) THEN <<GrantOf(r, c, u, t)>> ELSE <<>>
  BY <1>3
<1>5. /\ <<GrantOf(r, c, u, t)>> \in OneOf(r) /\ <<>> \in OneOf(r)
      /\ <<GrantOf(r, c, u, t)>> # <<>> /\ <<GrantOf(r, c, u, t)>>[1].commit = c
  BY GrantOfType, OneOfProperties
<1> QED
  BY <1>1, <1>4, <1>5 DEF p

LEMMA KeptIs == \A m : Kept(m).m = m /\ Kept(m).out = <<>>
  BY DEF Kept

LEMMA MemoryIs ==
  /\ \A r \in {2, 3}  : Memory(r) = RecordMemory(r) /\ Cached(r) = Lengths
  /\ \A r \in {7, 14} : Memory(r) = FirstMemory(r) /\ Cached(r) = Nat
  /\ Memory(9)  = Counts /\ Cached(9) = Counts
  /\ Memory(10) = LeaderMemory /\ Cached(10) = LeaderMemory
  /\ Memory(13) = FortuneMemory /\ Cached(13) = FortuneCache
  /\ Memory(17) = NihiloMemory /\ Cached(17) = {<<>>}
  /\ Memory(18) = RootsMemory /\ Cached(18) = Nat
  /\ Memory(19) = CopiesMemory /\ Cached(19) = CopiesCache
  /\ \A r \in Stateless : Memory(r) = {<<>>} /\ Cached(r) = {<<>>}
<1>1. \A r \in {2, 3} : Memory(r) = RecordMemory(r) /\ Cached(r) = Lengths
  BY DEF Memory, Cached
<1>2. \A r \in {7, 14} : Memory(r) = FirstMemory(r) /\ Cached(r) = Nat
  BY DEF Memory, Cached
<1>3. /\ Memory(9)  = Counts /\ Cached(9) = Counts
      /\ Memory(10) = LeaderMemory /\ Cached(10) = LeaderMemory
      /\ Memory(13) = FortuneMemory /\ Cached(13) = FortuneCache
  BY DEF Memory, Cached
<1>4. /\ Memory(17) = NihiloMemory /\ Cached(17) = {<<>>}
      /\ Memory(18) = RootsMemory /\ Cached(18) = Nat
      /\ Memory(19) = CopiesMemory /\ Cached(19) = CopiesCache
  BY DEF Memory, Cached
<1>5. \A r \in Stateless : Memory(r) = {<<>>} /\ Cached(r) = {<<>>}
  BY DEF Memory, Cached, Stateless
<1> QED
  BY <1>1, <1>2, <1>3, <1>4, <1>5

(* An observation grants at most once, and only to a rule that asked for   *)
(* it; the others keep what they are told.                                 *)
LEMMA ProcessType ==
  ASSUME NEW r \in AllRules, NEW m \in Memory(r), NEW c \in 1..MaxCommits,
         NEW u \in Users, NEW o \in Observation
  PROVE  /\ Process(r, m, c, u, o).m \in Memory(r)
         /\ Process(r, m, c, u, o).out \in OneOf(r)
         /\ Process(r, m, c, u, o).out # <<>> => r \in Prompt /\ o.kind \in Consumes(r)
<1>1. c \in Nat /\ <<>> \in OneOf(r)
  BY HistoryAssumption, OneOfProperties
<1>2. CASE r \in Stateless
  <2>1. r \in Prompt
    BY <1>2 DEF Prompt
  <2> QED
    BY <1>1, <1>2, <2>1, StatelessProcess
<1>3. CASE r \in {2, 3}
  <2>1. m \in [best : Lengths, candidate : OneOf(r)]
    BY <1>3, MemoryIs DEF RecordMemory
  <2>2. Memory(r) = [best : Lengths, candidate : OneOf(r)]
    BY <1>3, MemoryIs DEF RecordMemory
  <2>3. <<GrantOf(r, c, u, 0)>> \in OneOf(r)
    BY <1>1, GrantOfType
  <2>4. o.kind = "Subject" => o.value.length \in Lengths
    BY DEF Observation, Kinds, Lengths
  <2>5. Process(r, m, c, u, o) = Kept(m)
        \/ /\ o.kind = "Subject"
           /\ Process(r, m, c, u, o)
                = Kept([best |-> o.value.length, candidate |-> <<GrantOf(r, c, u, 0)>>])
    <3>1. CASE r = 2
      BY <3>1 DEF Process, ShortestSubjectProcess
    <3>2. CASE r = 3
      BY <3>2 DEF Process, LongestSubjectProcess
    <3> QED
      BY <1>3, <3>1, <3>2
  <2> QED
    BY <1>1, <2>1, <2>2, <2>3, <2>4, <2>5 DEF Kept
<1>4. CASE r \in {7, 14}
  <2>1. m \in [settled : Nat, earliest : OneOf(r)]
    BY <1>4, MemoryIs DEF FirstMemory
  <2>2. Memory(r) = [settled : Nat, earliest : OneOf(r)]
    BY <1>4, MemoryIs DEF FirstMemory
  <2>3. <<GrantOf(r, c, u, 0)>> \in OneOf(r)
    BY <1>1, GrantOfType
  <2>4. Process(r, m, c, u, o) = Kept(m)
        \/ Process(r, m, c, u, o) = Kept([m EXCEPT !.earliest = <<GrantOf(r, c, u, 0)>>])
    <3>1. CASE r = 7
      BY <3>1 DEF Process, FirstProfanityProcess
    <3>2. CASE r = 14
      BY <3>2 DEF Process, AddedFirstCiProcess
    <3> QED
      BY <1>4, <3>1, <3>2
  <2> QED
    BY <1>1, <2>1, <2>2, <2>3, <2>4 DEF Kept
<1>5. CASE r = 9
  <2>1. Memory(r) = [Users -> Nat] /\ m \in [Users -> Nat]
    BY <1>5, MemoryIs DEF Counts
  <2>2. CASE o.kind # "Profanity"
    <3>1. Process(r, m, c, u, o) = Kept(m)
      BY <1>5, <2>2 DEF Process, LikeASailorProcess
    <3> QED
      BY <1>1, <3>1 DEF Kept
  <2>3. CASE o.kind = "Profanity"
    <3> DEFINE crossed == {t \in SailorThresholds : m[u] < t /\ m[u] + o.value >= t}
               next == [m EXCEPT ![u] = @ + o.value]
               out == IF crossed = {} THEN <<>> ELSE <<GrantOf(9, c, u, LastOf(crossed))>>
    <3>1. o.value \in Nat
      BY <2>3 DEF Observation, Kinds
    <3>2. Process(r, m, c, u, o) = [m |-> next, out |-> out]
      BY <1>5, <2>3 DEF Process, LikeASailorProcess
    <3>3. next \in [Users -> Nat]
      BY <2>1, <3>1
    <3>4. m[u] + o.value \in Nat /\ crossed \in SUBSET (0 .. m[u] + o.value)
      <4>1. \A t \in SailorThresholds : t \in Nat
        BY RuleThresholdsAssumption
      <4>2. m[u] \in Nat
        BY <2>1
      <4> QED
        BY <3>1, <4>1, <4>2
    <3> HIDE DEF crossed, next
    <3>5. crossed # {} => LastOf(crossed) \in Nat
      <4>1. crossed # {} => LastOf(crossed) \in crossed
        BY <3>4, LastOfIs
      <4>2. \A x \in 0 .. m[u] + o.value : x \in Nat
        BY <3>4
      <4> QED
        BY <3>4, <4>1, <4>2
    <3>6. out \in OneOf(r)
      BY <1>1, <1>5, <3>5, GrantOfType
    <3>7. 9 \in Prompt /\ "Profanity" \in Consumes(9)
      BY DEF Consumes, Prompt
    <3> HIDE DEF out
    <3> QED
      BY <1>5, <2>1, <2>3, <3>2, <3>3, <3>6, <3>7
  <2> QED
    BY <2>2, <2>3
<1>6. CASE r = 10
  <2> DEFINE Leaders == {s \in Seq(Users) : Len(s) <= 1}
  <2>1. Memory(r) = [counts : Counts, leader : Leaders]
    BY <1>6, MemoryIs DEF LeaderMemory
  <2>2. m.counts \in [Users -> Nat] /\ m.leader \in Leaders
    BY <2>1 DEF Counts
  <2>3. <<u>> \in Leaders
    OBVIOUS
  <2> HIDE DEF Leaders
  <2>4. CASE o.kind # "Profanity"
    <3>1. Process(r, m, c, u, o) = Kept(m)
      BY <1>6, <2>4 DEF Process, MostProfoundProcess
    <3> QED
      BY <1>1, <3>1 DEF Kept
  <2>5. CASE o.kind = "Profanity"
    <3> DEFINE counts == [m.counts EXCEPT ![u] = @ + o.value]
               leader == Process(r, m, c, u, o).m.leader
    <3>1. o.value \in Nat
      BY <2>5 DEF Observation, Kinds
    <3>2. counts \in Counts
      BY <2>2, <3>1 DEF Counts
    <3>3. \/ Process(r, m, c, u, o) = Kept([counts |-> counts, leader |-> <<u>>])
          \/ Process(r, m, c, u, o) = Kept([counts |-> counts, leader |-> m.leader])
      BY <1>6, <2>5 DEF Process, MostProfoundProcess
    <3> HIDE DEF counts
    <3> QED
      BY <1>1, <2>1, <2>2, <2>3, <3>2, <3>3 DEF Kept
  <2> QED
    BY <2>4, <2>5
<1>7. CASE r = 13
  <2> DEFINE Token == [names : Nat, source : Nat, user : Users, cutoff : Int]
  <2>1. Memory(r) = [visited : Seq(Nat), tokens : Seq(Token)]
    BY <1>7, MemoryIs DEF FortuneMemory
  <2>2. m.visited \in Seq(Nat) /\ m.tokens \in Seq(Token)
    BY <2>1
  <2>3. CASE o.kind # "HexTokens"
    <3>1. Process(r, m, c, u, o) = Kept(m)
      BY <1>7, <2>3 DEF Process, FortuneTellerProcess
    <3> QED
      BY <1>1, <3>1 DEF Kept
  <2>4. CASE o.kind = "HexTokens"
    <3> DEFINE fit == Fitting(o.value)
               new == [i \in DOMAIN fit |-> [names |-> fit[i].names, source |-> c,
                                             user |-> u, cutoff |-> Len(m.visited) - 1]]
    <3>1. o.value \in Tokens
      BY <2>4 DEF Observation, Kinds
    <3>2. fit \in Tokens
      <4> DEFINE S == {i \in DOMAIN o.value : o.value[i].length \in MinToken .. MaxToken}
      <4>1. S \in SUBSET DOMAIN o.value
        OBVIOUS
      <4>2. fit = Part(o.value, S)
        BY DEF Fitting
      <4> HIDE DEF S, fit
      <4> QED
        BY <3>1, <4>1, <4>2, PartType DEF Tokens
    <3> HIDE DEF fit
    <3>3. /\ Len(fit) \in Nat /\ DOMAIN fit = 1..Len(fit)
          /\ \A i \in 1..Len(fit) : fit[i].names \in Nat
      <4>1. \A i \in 1..Len(fit) : fit[i] \in [length : Nat, names : Nat]
        BY <3>2, ElementOfSeq DEF Tokens
      <4> QED
        BY <3>2, <4>1, LenProperties DEF Tokens
    <3>4. Len(m.visited) - 1 \in Int
      <4>1. Len(m.visited) \in Nat
        BY <2>2, LenProperties
      <4> QED
        BY <4>1
    <3>5. new \in [1..Len(fit) -> Token]
      BY <1>1, <3>3, <3>4
    <3>6. new \in Seq(Token)
      BY <3>3, <3>5, SeqDef
    <3> HIDE DEF new, Token
    <3>7. m.tokens \o new \in Seq(Token)
      BY <2>2, <3>6, ConcatProperties
    <3>8. Process(r, m, c, u, o) = Kept([m EXCEPT !.tokens = @ \o new])
      BY <1>7, <2>4 DEF Process, FortuneTellerProcess, fit, new
    <3>9. [m EXCEPT !.tokens = @ \o new] \in Memory(r)
      BY <2>1, <2>2, <3>7
    <3> QED
      BY <1>1, <3>8, <3>9, KeptIs
  <2> QED
    BY <2>3, <2>4
<1>8. CASE r = 17
  <2>1. Memory(r) = [root : BOOLEAN, empty : BOOLEAN]
    BY <1>8, MemoryIs DEF NihiloMemory
  <2>2. \/ Process(r, m, c, u, o) = Kept(m)
        \/ Process(r, m, c, u, o) = Kept([root |-> TRUE, empty |-> m.empty])
        \/ Process(r, m, c, u, o) = Kept([root |-> m.root, empty |-> TRUE])
    BY <1>8 DEF Process, ExNihiloProcess
  <2>3. m \in [root : BOOLEAN, empty : BOOLEAN]
    BY <2>1
  <2>4. m.root \in BOOLEAN /\ m.empty \in BOOLEAN
    BY <2>3
  <2>6. /\ [root |-> TRUE, empty |-> m.empty] \in Memory(r)
        /\ [root |-> m.root, empty |-> TRUE] \in Memory(r)
    BY <2>1, <2>4, Zenon
  <2>7. \E x \in Memory(r) : Process(r, m, c, u, o) = Kept(x)
    BY <2>2, <2>6, Zenon
  <2> QED
    BY <1>1, <2>7, KeptIs
<1>9. CASE r = 18
  <2>1. Memory(r) = [count : Nat, roots : SUBSET [commit : 1..MaxCommits, user : Users]]
    BY <1>9, MemoryIs DEF RootsMemory
  <2>2. \/ Process(r, m, c, u, o) = Kept(m)
        \/ Process(r, m, c, u, o)
             = Kept([m EXCEPT !.roots = @ \cup {[commit |-> c, user |-> u]}])
    BY <1>9 DEF Process, SecondChanceProcess
  <2>3. [m EXCEPT !.roots = @ \cup {[commit |-> c, user |-> u]}] \in Memory(r)
    <3>1. m.count \in Nat /\ m.roots \subseteq [commit : 1..MaxCommits, user : Users]
      BY <2>1
    <3>2. m.roots \cup {[commit |-> c, user |-> u]} \subseteq [commit : 1..MaxCommits, user : Users]
      BY <3>1
    <3> QED
      BY <2>1, <3>2
  <2>4. \E x \in Memory(r) : Process(r, m, c, u, o) = Kept(x)
    BY <2>2, <2>3, Zenon
  <2> QED
    BY <1>1, <2>4, KeptIs
<1>10. CASE r = 19
  <2>1. Memory(r) = [seen : SUBSET Nat, counts : Counts,
                     buffer : SUBSET [commit : 1..MaxCommits, user : Users, topic : Nat]]
    BY <1>10, MemoryIs DEF CopiesMemory
  <2>2. o.kind = "Subject" => o.value.topic \in Nat
    BY DEF Observation, Kinds
  <2>3. \/ Process(r, m, c, u, o) = Kept(m)
        \/ /\ o.kind = "Subject"
           /\ Process(r, m, c, u, o)
                = Kept([m EXCEPT !.buffer = @ \cup {[commit |-> c, user |-> u,
                                                      topic |-> o.value.topic]}])
    BY <1>10 DEF Process, FlatteryProcess
  <2>4. o.kind = "Subject" =>
          [m EXCEPT !.buffer = @ \cup {[commit |-> c, user |-> u, topic |-> o.value.topic]}]
            \in Memory(r)
    <3>1. m.buffer \subseteq [commit : 1..MaxCommits, user : Users, topic : Nat]
      BY <2>1
    <3>2. o.kind = "Subject" =>
            m.buffer \cup {[commit |-> c, user |-> u, topic |-> o.value.topic]}
              \subseteq [commit : 1..MaxCommits, user : Users, topic : Nat]
      BY <2>2, <3>1
    <3> QED
      BY <2>1, <3>2
  <2>5. \E x \in Memory(r) : Process(r, m, c, u, o) = Kept(x)
    BY <2>3, <2>4, Zenon
  <2> QED
    BY <1>1, <2>5, KeptIs
<1> QED
  BY <1>2, <1>3, <1>4, <1>5, <1>6, <1>7, <1>8, <1>9, <1>10 DEF AllRules, Stateless

LEMMA CacheTypes ==
  ASSUME NEW r \in AllRules
  PROVE  /\ NoCache(r) \in Cached(r)
         /\ \A x \in Cached(r) : InitCache(r, x) \in Memory(r)
<1>1. NoCounts \in Counts
  BY DEF NoCounts, Counts
<1>2. <<>> \in OneOf(r)
  BY OneOfProperties
<1>3. CASE r \in {2, 3}
  <2>1. NoCache(r) = NoLength /\ \A x : InitCache(r, x) = [best |-> x, candidate |-> <<>>]
    BY <1>3 DEF NoCache, InitCache
  <2>2. NoLength \in Lengths /\ Memory(r) = RecordMemory(r) /\ Cached(r) = Lengths
    BY <1>3, MemoryIs DEF Lengths
  <2>3. \A x \in Lengths : [best |-> x, candidate |-> <<>>] \in RecordMemory(r)
    BY <1>2 DEF RecordMemory
  <2> QED
    BY <2>1, <2>2, <2>3
<1>4. CASE r \in {7, 14}
  <2>1. NoCache(r) = NullCommit /\ \A x : InitCache(r, x) = [settled |-> x, earliest |-> <<>>]
    BY <1>4 DEF NoCache, InitCache
  <2>2. NullCommit \in Nat /\ Memory(r) = FirstMemory(r) /\ Cached(r) = Nat
    BY <1>4, MemoryIs DEF NullCommit
  <2>3. \A x \in Nat : [settled |-> x, earliest |-> <<>>] \in FirstMemory(r)
    BY <1>2 DEF FirstMemory
  <2> QED
    BY <2>1, <2>2, <2>3
<1>5. CASE r = 9
  <2>1. NoCache(r) = NoCounts /\ \A x : InitCache(r, x) = x
    BY <1>5 DEF NoCache, InitCache
  <2> QED
    BY <1>1, <1>5, <2>1, MemoryIs
<1>6. CASE r = 10
  <2>1. NoCache(r) = [counts |-> NoCounts, leader |-> <<>>] /\ \A x : InitCache(r, x) = x
    BY <1>6 DEF NoCache, InitCache
  <2>2. <<>> \in {s \in Seq(Users) : Len(s) <= 1}
    BY EmptySeq
  <2>3. [counts |-> NoCounts, leader |-> <<>>] \in LeaderMemory
    BY <1>1, <2>2 DEF LeaderMemory
  <2> QED
    BY <1>6, <2>1, <2>3, MemoryIs
<1>7. CASE r = 13
  <2> DEFINE Token  == [names : Nat, source : Nat, user : Users]
             Token4 == [names : Nat, source : Nat, user : Users, cutoff : Int]
             Dated(x) == [i \in DOMAIN x |-> [names |-> x[i].names, source |-> x[i].source,
                                              user |-> x[i].user, cutoff |-> UsizeMax]]
  <2>1. NoCache(r) = <<>> /\ \A x : InitCache(r, x) = [visited |-> <<>>, tokens |-> Dated(x)]
    BY <1>7 DEF NoCache, InitCache
  <2>2. <<>> \in FortuneCache /\ <<>> \in Seq(Nat)
    BY EmptySeq DEF FortuneCache
  <2>3. ASSUME NEW x \in FortuneCache PROVE Dated(x) \in Seq(Token4)
    <3>1. Len(x) \in Nat /\ DOMAIN x = 1..Len(x) /\ \A i \in 1..Len(x) : x[i] \in Token
      BY LenProperties, ElementOfSeq DEF FortuneCache
    <3>2. Dated(x) \in [1..Len(x) -> Token4]
      <4>1. UsizeMax \in Int
        BY RuleThresholdsAssumption
      <4> QED
        BY <3>1, <4>1
    <3> HIDE DEF Dated, Token4
    <3> QED
      BY <3>1, <3>2, SeqDef
  <2> HIDE DEF Dated
  <2>4. \A x \in FortuneCache : [visited |-> <<>>, tokens |-> Dated(x)] \in FortuneMemory
    BY <2>2, <2>3 DEF FortuneMemory
  <2> QED
    BY <1>7, <2>1, <2>2, <2>4, MemoryIs
<1>8. CASE r = 17
  <2>1. NoCache(r) = <<>> /\ \A x : InitCache(r, x) = [root |-> FALSE, empty |-> FALSE]
    BY <1>8 DEF NoCache, InitCache
  <2>2. [root |-> FALSE, empty |-> FALSE] \in NihiloMemory
    BY Zenon DEF NihiloMemory
  <2> QED
    BY <1>8, <2>1, <2>2, MemoryIs
<1>9. CASE r = 18
  <2>1. NoCache(r) = 0 /\ \A x : InitCache(r, x) = [count |-> x, roots |-> {}]
    BY <1>9 DEF NoCache, InitCache
  <2>2. \A x \in Nat : [count |-> x, roots |-> {}] \in RootsMemory
    BY DEF RootsMemory
  <2> QED
    BY <1>9, <2>1, <2>2, MemoryIs
<1>10. CASE r = 19
  <2>1. /\ NoCache(r) = [seen |-> {}, counts |-> NoCounts]
        /\ \A x : InitCache(r, x) = [seen |-> x.seen, counts |-> x.counts, buffer |-> {}]
    BY <1>10 DEF NoCache, InitCache
  <2>2. [seen |-> {}, counts |-> NoCounts] \in CopiesCache
    BY <1>1 DEF CopiesCache
  <2>3. \A x \in CopiesCache :
          [seen |-> x.seen, counts |-> x.counts, buffer |-> {}] \in CopiesMemory
    BY DEF CopiesCache, CopiesMemory
  <2> QED
    BY <1>10, <2>1, <2>2, <2>3, MemoryIs
<1>11. CASE r \in Stateless
  <2>1. NoCache(r) = <<>> /\ \A x : InitCache(r, x) = <<>>
    BY <1>11 DEF NoCache, InitCache, Stateless
  <2> QED
    BY <1>11, <2>1, MemoryIs
<1> QED
  BY <1>3, <1>4, <1>5, <1>6, <1>7, <1>8, <1>9, <1>10, <1>11 DEF AllRules, Stateless

LEMMA StartedType ==
  ASSUME NEW r \in AllRules, NEW m \in Memory(r), NEW c \in Nat
  PROVE  CommitStarted(r, m, c) \in Memory(r)
<1>1. CASE r = 13
  <2>1. m \in FortuneMemory
    BY <1>1, MemoryIs
  <2>2. m.visited \in Seq(Nat)
    BY <2>1 DEF FortuneMemory
  <2>3. Append(m.visited, c) \in Seq(Nat)
    BY <2>2
  <2>4. [m EXCEPT !.visited = Append(@, c)] \in FortuneMemory
    BY <2>1, <2>3 DEF FortuneMemory
  <2> QED
    BY <1>1, <2>4, MemoryIs DEF CommitStarted
<1>2. CASE r = 17
  <2>1. [root |-> FALSE, empty |-> FALSE] \in NihiloMemory
    BY Zenon DEF NihiloMemory
  <2> QED
    BY <1>2, <2>1, MemoryIs DEF CommitStarted
<1>3. CASE r # 13 /\ r # 17
  BY <1>3 DEF CommitStarted
<1> QED
  BY <1>1, <1>2, <1>3

LEMMA CompletedType ==
  ASSUME NEW r \in AllRules, NEW m, NEW c \in Nat, NEW u \in Users
  PROVE  /\ CommitCompleted(r, m, c, u) \in OneOf(r)
         /\ CommitCompleted(r, m, c, u) # <<>> => r = 17
<1>1. <<>> \in OneOf(r) /\ <<GrantOf(17, c, u, 0)>> \in OneOf(17)
  BY OneOfProperties, GrantOfType
<1> QED
  BY <1>1 DEF CommitCompleted

(* Entries in the order of their commits.                                  *)
LEMMA InTimeType ==
  ASSUME NEW n \in Nat, NEW S, \A x \in S : x.commit \in 1..n
  PROVE  /\ Cardinality({x.commit : x \in S}) \in Nat
         /\ InTime(S) \in Seq(S)
         /\ Len(InTime(S)) = Cardinality({x.commit : x \in S})
         /\ \A k \in 1..Len(InTime(S)) :
              InTime(S)[k].commit = NthOf({x.commit : x \in S}, k)
<1> DEFINE times == {x.commit : x \in S}
           K == Cardinality(times)
           pick(k) == CHOOSE x \in S : x.commit = NthOf(times, k)
<1>1. times \in SUBSET (1..n)
  OBVIOUS
<1>2. K \in Nat /\ \A k \in 1..K : NthOf(times, k) \in times
  <2> HIDE DEF times
  <2> QED
    BY <1>1, RankProperties, NthProperties
<1>3. \A k \in 1..K : pick(k) \in S /\ pick(k).commit = NthOf(times, k)
  <2>1. SUFFICES ASSUME NEW k \in 1..K PROVE pick(k) \in S /\ pick(k).commit = NthOf(times, k)
    OBVIOUS
  <2>2. \E x \in S : x.commit = NthOf(times, k)
    BY <1>2
  <2> QED
    BY <2>2
<1>4. InTime(S) = [k \in 1..K |-> pick(k)]
  BY DEF InTime
<1> HIDE DEF times, pick
<1>5. InTime(S) \in [1..K -> S] /\ \A k \in 1..K : InTime(S)[k] = pick(k)
  BY <1>3, <1>4
<1>6. InTime(S) \in Seq(S) /\ Len(InTime(S)) = K
  BY <1>2, <1>5, SeqDef, LenProperties
<1> QED
  BY <1>2, <1>3, <1>5, <1>6 DEF times

LEMMA RootsFinalized ==
  ASSUME NEW m \in RootsMemory
  PROVE  /\ GrantRoots(m).m \in RootsMemory
         /\ GrantRoots(m).out \in Seq(GrantBy(18))
<1> DEFINE roots == InTime(m.roots)
           all == [i \in DOMAIN roots |->
                     GrantOf(18, roots[i].commit, roots[i].user, m.count + i)]
           Root == [commit : 1..MaxCommits, user : Users]
<1>1. m.count \in Nat /\ m.roots \subseteq Root
  BY DEF RootsMemory
<1>2. roots \in Seq(m.roots)
  <2>1. MaxCommits \in Nat /\ \A x \in m.roots : x.commit \in 1..MaxCommits
    BY <1>1, HistoryAssumption
  <2> QED
    BY <2>1, InTimeType
<1>3. Len(roots) \in Nat /\ DOMAIN roots = 1..Len(roots) /\ \A i \in DOMAIN roots : roots[i] \in m.roots
  BY <1>2, LenProperties, ElementOfSeq
<1> HIDE DEF roots
<1>4. \A i \in DOMAIN roots : /\ roots[i].commit \in Nat /\ roots[i].user \in Users
                              /\ m.count + i \in Nat
  <2>1. \A x \in m.roots : x.commit \in Nat /\ x.user \in Users
    BY <1>1, HistoryAssumption
  <2> QED
    BY <1>1, <1>3, <2>1
<1>5. all \in [1..Len(roots) -> GrantBy(18)]
  BY <1>3, <1>4, GrantOfType
<1>6. all \in Seq(GrantBy(18))
  <2> HIDE DEF all
  <2> QED
    BY <1>3, <1>5, SeqDef
<1> DEFINE S == {i \in DOMAIN all : all[i].title > 1}
<1>7. Part(all, S) \in Seq(GrantBy(18))
  <2>1. S \in SUBSET DOMAIN all
    OBVIOUS
  <2> HIDE DEF S, all
  <2> QED
    BY <1>6, <2>1, PartType
<1>8. GrantRoots(m) = [m |-> [count |-> m.count + Len(roots), roots |-> {}], out |-> Part(all, S)]
  BY DEF GrantRoots, ButTheFirst, roots
<1> HIDE DEF S, all
<1>9. [count |-> m.count + Len(roots), roots |-> {}] \in RootsMemory
  BY <1>1, <1>3 DEF RootsMemory
<1> QED
  BY <1>7, <1>8, <1>9

LEMMA CopiesFinalized ==
  ASSUME NEW m \in CopiesMemory
  PROVE  /\ GrantCopies(m).m \in CopiesMemory
         /\ GrantCopies(m).out \in Seq(GrantBy(19))
<1> DEFINE copied == {x \in m.buffer :
                        \/ x.topic \in m.seen
                        \/ \E y \in m.buffer : y.topic = x.topic /\ y.commit < x.commit}
           copies == InTime(copied)
           Own(i) == {j \in 1..i : copies[j].user = copies[i].user}
           CountAt(i) == m.counts[copies[i].user] + Cardinality(Own(i))
           all == [i \in DOMAIN copies |->
                     GrantOf(19, copies[i].commit, copies[i].user, CountAt(i))]
           seen == m.seen \cup {x.topic : x \in m.buffer}
           counts == [u \in Users |-> m.counts[u]
                        + Cardinality({i \in DOMAIN copies : copies[i].user = u})]
           Copy == [commit : 1..MaxCommits, user : Users, topic : Nat]
<1>1. m.seen \subseteq Nat /\ m.counts \in [Users -> Nat] /\ m.buffer \subseteq Copy
  BY DEF CopiesMemory, Counts
<1>2. copied \subseteq m.buffer
  OBVIOUS
<1> HIDE DEF copied
<1>3. copies \in Seq(copied)
  <2>1. MaxCommits \in Nat /\ \A x \in copied : x.commit \in 1..MaxCommits
    BY <1>1, <1>2, HistoryAssumption
  <2> QED
    BY <2>1, InTimeType
<1>4. /\ Len(copies) \in Nat /\ DOMAIN copies = 1..Len(copies)
      /\ \A i \in DOMAIN copies : copies[i].commit \in Nat /\ copies[i].user \in Users
  <2>1. \A x \in copied : x.commit \in Nat /\ x.user \in Users
    BY <1>1, <1>2, HistoryAssumption
  <2> QED
    BY <1>3, <2>1, LenProperties, ElementOfSeq
<1> HIDE DEF copies
<1>5. ASSUME NEW i \in DOMAIN copies PROVE CountAt(i) \in Nat
  <2>1. Own(i) \in SUBSET (1..i) /\ i \in Nat
    BY <1>4
  <2>2. Cardinality(Own(i)) \in Nat
    <3> HIDE DEF Own
    <3> QED
      BY <2>1, RankProperties
  <2>3. m.counts[copies[i].user] \in Nat
    BY <1>1, <1>4
  <2> HIDE DEF Own
  <2> QED
    BY <2>2, <2>3
<1> HIDE DEF Own, CountAt
<1>6. all \in [1..Len(copies) -> GrantBy(19)]
  BY <1>4, <1>5, GrantOfType
<1>7. all \in Seq(GrantBy(19))
  <2> HIDE DEF all
  <2> QED
    BY <1>4, <1>6, SeqDef
<1> DEFINE S == {i \in DOMAIN all : all[i].title \in CopyThresholds}
<1>8. Part(all, S) \in Seq(GrantBy(19))
  <2>1. S \in SUBSET DOMAIN all
    OBVIOUS
  <2> HIDE DEF S, all
  <2> QED
    BY <1>7, <2>1, PartType
<1>9. GrantCopies(m) = [m |-> [seen |-> seen, counts |-> counts, buffer |-> {}],
                        out |-> Part(all, S)]
  BY DEF GrantCopies, CountAt, Own, copies, copied
<1> HIDE DEF S, all
<1>10. counts \in Counts
  <2>1. ASSUME NEW u \in Users
        PROVE  m.counts[u] + Cardinality({i \in DOMAIN copies : copies[i].user = u}) \in Nat
    <3> DEFINE his == {i \in DOMAIN copies : copies[i].user = u}
    <3>1. his \in SUBSET (1..Len(copies))
      BY <1>4
    <3> HIDE DEF his
    <3>2. Cardinality(his) \in Nat
      BY <1>4, <3>1, RankProperties
    <3>3. m.counts[u] \in Nat
      BY <1>1
    <3>4. m.counts[u] + Cardinality(his) \in Nat
      BY <3>2, <3>3
    <3> QED
      BY <3>4 DEF his
  <2> QED
    BY <2>1 DEF Counts
<1>11. seen \subseteq Nat
  BY <1>1
<1> HIDE DEF counts, seen
<1>12. [seen |-> seen, counts |-> counts, buffer |-> {}] \in CopiesMemory
  BY <1>10, <1>11 DEF CopiesMemory
<1> QED
  BY <1>8, <1>9, <1>12

LEMMA FinalizedType ==
  ASSUME NEW r \in AllRules, NEW m \in Memory(r)
  PROVE  /\ Finalized(r, m).m \in Memory(r)
         /\ Finalized(r, m).out \in Seq(GrantBy(r))
<1>1. <<>> \in OneOf(r) /\ OneOf(r) \subseteq Seq(GrantBy(r)) /\ <<>> \in Seq(GrantBy(r))
  BY OneOfProperties
<1>2. CASE r \in {2, 3}
  <2>1. m \in RecordMemory(r) /\ Memory(r) = RecordMemory(r)
    BY <1>2, MemoryIs
  <2>2. Finalized(r, m) = [m |-> [m EXCEPT !.candidate = <<>>], out |-> m.candidate]
    BY <1>2 DEF Finalized
  <2>3. m.candidate \in OneOf(r) /\ [m EXCEPT !.candidate = <<>>] \in RecordMemory(r)
    BY <1>1, <2>1 DEF RecordMemory
  <2> QED
    BY <1>1, <2>1, <2>2, <2>3
<1>3. CASE r \in {7, 14}
  <2>1. m \in FirstMemory(r) /\ Memory(r) = FirstMemory(r)
    BY <1>3, MemoryIs
  <2>2. Finalized(r, m) = SettleFirst(m)
    BY <1>3 DEF Finalized
  <2>3. m.earliest \in OneOf(r)
    BY <2>1 DEF FirstMemory
  <2>4. CASE m.settled # NullCommit \/ m.earliest = <<>>
    BY <1>1, <2>1, <2>2, <2>4, KeptIs DEF SettleFirst
  <2>5. CASE ~(m.settled # NullCommit \/ m.earliest = <<>>)
    <3>1. SettleFirst(m) = [m |-> [settled |-> m.earliest[1].commit, earliest |-> <<>>],
                            out |-> m.earliest]
      BY <2>5 DEF SettleFirst
    <3>2. m.earliest[1] \in GrantBy(r)
      BY <2>3, <2>5, OneOfProperties
    <3>3. m.earliest[1].commit \in Nat
      BY <3>2 DEF GrantBy
    <3>4. [settled |-> m.earliest[1].commit, earliest |-> <<>>] \in FirstMemory(r)
      BY <1>1, <3>3 DEF FirstMemory
    <3> QED
      BY <1>1, <2>1, <2>2, <2>3, <3>1, <3>4
  <2> QED
    BY <2>4, <2>5
<1>4. CASE r = 10
  <2>1. m \in LeaderMemory
    BY <1>4, MemoryIs
  <2>2. m.leader \in Seq(Users)
    BY <2>1 DEF LeaderMemory
  <2>3. m.leader # <<>> => m.leader[1] \in Users
    <3>1. SUFFICES ASSUME m.leader # <<>> PROVE m.leader[1] \in Users
      OBVIOUS
    <3>2. Len(m.leader) \in Nat \ {0}
      BY <2>2, <3>1, EmptySeq
    <3>3. 1 \in 1..Len(m.leader)
      BY <3>2
    <3> QED
      BY <2>2, <3>3, ElementOfSeq
  <2>4. m.leader # <<>> => <<GrantOf(10, NullCommit, m.leader[1], 0)>> \in OneOf(10)
    BY <2>3, GrantOfType DEF NullCommit
  <2>5. Finalized(r, m) = [m |-> m, out |-> IF m.leader = <<>> THEN <<>>
                             ELSE <<GrantOf(10, NullCommit, m.leader[1], 0)>>]
    BY <1>4 DEF Finalized, GrantLeader
  <2>6. Finalized(r, m).m = m /\ Finalized(r, m).out \in OneOf(r)
    BY <1>1, <1>4, <2>4, <2>5
  <2> QED
    BY <1>1, <2>6
<1>5. CASE r = 13
  <2> DEFINE true == {i \in DOMAIN m.tokens : \E k \in DOMAIN m.visited :
                        k <= m.tokens[i].cutoff /\ m.visited[k] = m.tokens[i].names}
             t == m.tokens[FirstOf(true)]
             out == IF true = {} THEN <<>> ELSE <<GrantOf(13, t.source, t.user, 0)>>
             Token4 == [names : Nat, source : Nat, user : Users, cutoff : Int]
  <2>1. m \in FortuneMemory
    BY <1>5, MemoryIs
  <2>2. m.tokens \in Seq(Token4)
    BY <2>1 DEF FortuneMemory
  <2>3. /\ Len(m.tokens) \in Nat /\ DOMAIN m.tokens = 1..Len(m.tokens)
        /\ \A i \in DOMAIN m.tokens : m.tokens[i] \in Token4
    BY <2>2, LenProperties, ElementOfSeq
  <2>4. true \in SUBSET (1..Len(m.tokens)) /\ true \in SUBSET Nat
    BY <2>3
  <2>5. Finalized(r, m) = [m |-> m, out |-> out]
    BY <1>5 DEF Finalized, FirstFortune
  <2> HIDE DEF true
  <2>6. true # {} => FirstOf(true) \in 1..Len(m.tokens)
    BY <2>4, FirstOfIs
  <2>7. true # {} => t.source \in Nat /\ t.user \in Users
    BY <2>3, <2>6
  <2> HIDE DEF t
  <2>8. out \in OneOf(r)
    BY <1>1, <1>5, <2>7, GrantOfType
  <2> HIDE DEF out
  <2> QED
    BY <1>1, <2>5, <2>8
<1>6. CASE r = 18
  <2>1. Finalized(r, m) = GrantRoots(m)
    BY <1>6 DEF Finalized
  <2> QED
    BY <1>6, <2>1, MemoryIs, RootsFinalized
<1>7. CASE r = 19
  <2>1. Finalized(r, m) = GrantCopies(m)
    BY <1>7 DEF Finalized
  <2> QED
    BY <1>7, <2>1, MemoryIs, CopiesFinalized
<1>8. CASE r \in Stateless \cup {9, 17}
  <2>1. Finalized(r, m) = Kept(m)
    BY <1>8 DEF Finalized, Stateless
  <2> QED
    BY <1>1, <2>1, KeptIs
<1> QED
  BY <1>2, <1>3, <1>4, <1>5, <1>6, <1>7, <1>8 DEF AllRules, Stateless

LEMMA FiniType ==
  ASSUME NEW r \in AllRules, NEW m \in Memory(r)
  PROVE  FiniCache(r, m) \in Cached(r)
<1>1. CASE r \in {2, 3}
  <2>1. m \in RecordMemory(r) /\ Cached(r) = Lengths /\ FiniCache(r, m) = m.best
    BY <1>1, MemoryIs DEF FiniCache
  <2> QED
    BY <2>1 DEF RecordMemory
<1>2. CASE r \in {7, 14}
  <2>1. m \in FirstMemory(r) /\ Cached(r) = Nat /\ FiniCache(r, m) = m.settled
    BY <1>2, MemoryIs DEF FiniCache
  <2> QED
    BY <2>1 DEF FirstMemory
<1>3. CASE r \in {9, 10}
  <2>1. FiniCache(r, m) = m
    BY <1>3 DEF FiniCache
  <2>2. Cached(r) = Memory(r)
    BY <1>3, MemoryIs
  <2> QED
    BY <2>1, <2>2
<1>4. CASE r = 13
  <2> DEFINE S == {i \in DOMAIN m.tokens :
                     \A k \in DOMAIN m.visited : m.visited[k] # m.tokens[i].names}
             kept == Part(m.tokens, S)
             Token  == [names : Nat, source : Nat, user : Users]
             Token4 == [names : Nat, source : Nat, user : Users, cutoff : Int]
             left == [i \in DOMAIN kept |-> [names |-> kept[i].names, source |-> kept[i].source,
                                             user |-> kept[i].user]]
  <2>1. m \in FortuneMemory /\ Cached(r) = FortuneCache
    BY <1>4, MemoryIs
  <2>2. m.tokens \in Seq(Token4)
    BY <2>1 DEF FortuneMemory
  <2>3. FiniCache(r, m) = left
    BY <1>4 DEF FiniCache, Orphans
  <2>4. S \in SUBSET DOMAIN m.tokens
    OBVIOUS
  <2> HIDE DEF S
  <2>5. kept \in Seq(Token4)
    <3> HIDE DEF Token4
    <3> QED
      BY <2>2, <2>4, PartType
  <2> HIDE DEF kept
  <2>6. Len(kept) \in Nat /\ DOMAIN kept = 1..Len(kept) /\ \A i \in 1..Len(kept) : kept[i] \in Token4
    BY <2>5, LenProperties, ElementOfSeq
  <2>7. left \in [1..Len(kept) -> Token]
    BY <2>6
  <2> HIDE DEF left, Token
  <2>8. left \in Seq(Token)
    BY <2>6, <2>7, SeqDef
  <2> QED
    BY <2>1, <2>3, <2>8 DEF FortuneCache, Token
<1>5. CASE r = 18
  <2>1. m \in RootsMemory /\ Cached(r) = Nat /\ FiniCache(r, m) = m.count
    BY <1>5, MemoryIs DEF FiniCache
  <2> QED
    BY <2>1 DEF RootsMemory
<1>6. CASE r = 19
  <2>1. /\ m \in CopiesMemory /\ Cached(r) = CopiesCache
        /\ FiniCache(r, m) = [seen |-> m.seen, counts |-> m.counts]
    BY <1>6, MemoryIs DEF FiniCache
  <2> QED
    BY <2>1 DEF CopiesMemory, CopiesCache
<1>7. CASE r \in Stateless \cup {17}
  <2>1. FiniCache(r, m) = <<>>
    BY <1>7 DEF FiniCache, NoCache, Stateless
  <2> QED
    BY <1>7, <2>1, MemoryIs
<1> QED
  BY <1>1, <1>2, <1>3, <1>4, <1>5, <1>6, <1>7 DEF AllRules, Stateless

-----------------------------------------------------------------------------
(***************************************************************************)
(* What the steps of the engine mean for each rule.                        *)
(***************************************************************************)
LEMMA TypeFacts ==
  ASSUME TypeOK
  PROVE  /\ enabled \subseteq AllRules
         /\ Len(history) \in Nat /\ DOMAIN history = 1..Len(history)
         /\ \A c \in 1..Len(history) : history[c] \in Fact
         /\ processed \in 0..Len(history)
         /\ \A e \in ends : e <= processed
         /\ processed \in ends \cup {0}
<1>1. /\ Len(history) \in Nat /\ DOMAIN history = 1..Len(history)
      /\ \A c \in 1..Len(history) : history[c] \in Fact
  BY LenProperties, ElementOfSeq DEF TypeOK
<1>2. ends \cup {0} \in SUBSET (0..Len(history)) /\ ends \cup {0} # {}
  BY <1>1 DEF TypeOK
<1>3. processed \in ends \cup {0} /\ \A e \in ends \cup {0} : e <= processed
  BY <1>1, <1>2, LastOfIs DEF processed
<1> QED
  BY <1>1, <1>2, <1>3, EngineProperties DEF TypeOK

Titles(g) == [i \in DOMAIN g |-> g[i][1]]

LEMMA TitlesType ==
  ASSUME NEW g \in Seq(AnyGrant \X Nat)
  PROVE  /\ Titles(g) \in Seq(AnyGrant) /\ Len(Titles(g)) = Len(g)
         /\ \A i \in 1..Len(g) : Titles(g)[i] = g[i][1]
<1>1. Len(g) \in Nat /\ DOMAIN g = 1..Len(g) /\ \A i \in 1..Len(g) : g[i] \in AnyGrant \X Nat
  BY LenProperties, ElementOfSeq
<1>2. \A i \in 1..Len(g) : g[i][1] \in AnyGrant
  BY <1>1
<1>3. Titles(g) \in [1..Len(g) -> AnyGrant] /\ \A i \in 1..Len(g) : Titles(g)[i] = g[i][1]
  BY <1>1, <1>2 DEF Titles
<1>4. Titles(g) \in Seq(AnyGrant)
  BY <1>1, <1>3, SeqDef
<1>5. Len(Titles(g)) = Len(g)
  BY <1>1, <1>3, <1>4, LenProperties
<1> QED
  BY <1>3, <1>4, <1>5

LEMMA CollectAdds ==
  ASSUME TypeOK, NEW outputs \in Seq(AnyGrant), CollectPending(outputs)
  PROVE  /\ granted' \in Seq(AnyGrant \X Nat)
         /\ pending' = <<>> /\ batch' = Sorted(outputs)
         /\ \A r \in enabled : GrantsOf(r)' = GrantsOf(r) \o OfRule(outputs, r)
<1> DEFINE N == Len(history)
           b == Sorted(outputs)
           new == [i \in DOMAIN b |-> <<b[i], N>>]
<1>1. enabled \in Focuses /\ granted \in Seq(AnyGrant \X Nat) /\ N \in Nat
  BY TypeFacts DEF TypeOK
<1>2. b \in Seq(AnyGrant) /\ \A r \in enabled : OfRule(b, r) = OfRule(outputs, r)
  BY <1>1, SortedByRule
<1>3. batch' = b /\ granted' = granted \o new /\ pending' = <<>>
  BY DEF CollectPending
<1> HIDE DEF b
<1>4. Len(b) \in Nat /\ DOMAIN b = 1..Len(b) /\ \A i \in 1..Len(b) : b[i] \in AnyGrant
  BY <1>2, LenProperties, ElementOfSeq
<1>5. /\ new \in [1..Len(b) -> AnyGrant \X Nat]
      /\ \A i \in 1..Len(b) : new[i][1] = b[i]
  BY <1>1, <1>4
<1> HIDE DEF new, N
<1>6. new \in Seq(AnyGrant \X Nat) /\ Len(new) = Len(b)
  BY <1>4, <1>5, SeqDef, LenProperties
<1>7. /\ granted' \in Seq(AnyGrant \X Nat) /\ Len(granted') = Len(granted) + Len(b)
      /\ Len(granted) \in Nat
      /\ \A i \in 1 .. Len(granted) + Len(b) :
           granted'[i] = IF i <= Len(granted) THEN granted[i] ELSE new[i - Len(granted)]
  <2> DEFINE Pair == AnyGrant \X Nat
  <2>1. granted \in Seq(Pair) /\ new \in Seq(Pair)
    BY <1>1, <1>6
  <2> HIDE DEF Pair
  <2>2. /\ granted \o new \in Seq(Pair) /\ Len(granted \o new) = Len(granted) + Len(new)
        /\ \A i \in 1 .. Len(granted) + Len(new) :
             (granted \o new)[i] = IF i <= Len(granted) THEN granted[i]
                                   ELSE new[i - Len(granted)]
    BY <2>1, ConcatProperties
  <2>3. Len(granted) \in Nat
    BY <2>1, LenProperties
  <2> QED
    BY <1>3, <1>6, <2>2, <2>3 DEF Pair
<1>8. Titles(granted') = Titles(granted) \o b
  <2>1. /\ Titles(granted) \in Seq(AnyGrant) /\ Len(Titles(granted)) = Len(granted)
        /\ \A i \in 1..Len(granted) : Titles(granted)[i] = granted[i][1]
    BY <1>1, TitlesType
  <2>2. /\ Titles(granted') \in Seq(AnyGrant) /\ Len(Titles(granted')) = Len(granted) + Len(b)
        /\ \A i \in 1 .. Len(granted) + Len(b) : Titles(granted')[i] = granted'[i][1]
    BY <1>7, TitlesType
  <2>3. /\ Titles(granted) \o b \in Seq(AnyGrant)
        /\ Len(Titles(granted) \o b) = Len(granted) + Len(b)
        /\ \A i \in 1 .. Len(granted) + Len(b) :
             (Titles(granted) \o b)[i] = IF i <= Len(granted) THEN Titles(granted)[i]
                                         ELSE b[i - Len(granted)]
    <3>1. /\ Titles(granted) \o b \in Seq(AnyGrant)
          /\ Len(Titles(granted) \o b) = Len(Titles(granted)) + Len(b)
          /\ \A i \in 1 .. Len(Titles(granted)) + Len(b) :
               (Titles(granted) \o b)[i] = IF i <= Len(Titles(granted)) THEN Titles(granted)[i]
                                           ELSE b[i - Len(Titles(granted))]
      BY <1>2, <2>1, ConcatProperties
    <3> QED
      BY <2>1, <3>1
  <2>4. ASSUME NEW i \in 1 .. Len(granted) + Len(b)
        PROVE  Titles(granted')[i] = (Titles(granted) \o b)[i]
    <3>1. CASE i <= Len(granted)
      <4>1. i \in 1..Len(granted)
        BY <1>7, <3>1
      <4> QED
        BY <1>7, <2>1, <2>2, <2>3, <3>1, <4>1
    <3>2. CASE ~(i <= Len(granted))
      <4>1. i - Len(granted) \in 1..Len(b)
        BY <1>4, <1>7, <3>2
      <4> QED
        BY <1>5, <1>7, <2>2, <2>3, <3>2, <4>1
    <3> QED
      BY <3>1, <3>2
  <2> QED
    BY <2>2, <2>3, <2>4, SeqEqual
<1>9. ASSUME NEW r \in enabled PROVE GrantsOf(r)' = GrantsOf(r) \o OfRule(outputs, r)
  <2>1. GrantsOf(r) = OfRule(Titles(granted), r) /\ GrantsOf(r)' = OfRule(Titles(granted'), r)
    BY DEF GrantsOf, Titles
  <2>2. OfRule(Titles(granted) \o b, r) = OfRule(Titles(granted), r) \o OfRule(b, r)
    BY <1>1, <1>2, TitlesType, OfRuleConcat
  <2> QED
    BY <1>2, <1>8, <2>1, <2>2
<1> QED
  BY <1>3, <1>7, <1>9 DEF b

LEMMA GrantsType ==
  ASSUME TypeOK, NEW r \in enabled
  PROVE  /\ GrantsOf(r) \in Seq(GrantBy(r)) /\ GrantsOf(r) \in Seq(AnyGrant)
         /\ Held(r) \in Seq(GrantBy(r)) /\ Held(r) \in Seq(AnyGrant)
<1>1. Titles(granted) \in Seq(AnyGrant) /\ pending \in Seq(AnyGrant) /\ r \in AllRules
  BY TitlesType, TypeFacts DEF TypeOK
<1>2. GrantsOf(r) = OfRule(Titles(granted), r)
  BY DEF GrantsOf, Titles
<1> QED
  BY <1>1, <1>2, OfRuleType, GrantByAny DEF Held

(* An observation adds to what a rule holds what the rule puts out.        *)
LEMMA ObservationView ==
  ASSUME TypeOK, NEW o \in todo, OnObservation(o)
  PROVE  /\ o \in Observed(history[at]) /\ o \in Observation
         /\ at \in 1..Len(history) /\ at \in 1..MaxCommits /\ history[at].author \in Users
         /\ pending' \in Seq(AnyGrant)
         /\ \A r \in enabled :
              /\ memory'[r] = Process(r, memory[r], at, history[at].author, o).m
              /\ Held(r)' = Held(r) \o Process(r, memory[r], at, history[at].author, o).out
              /\ GrantsOf(r)' = GrantsOf(r)
<1> DEFINE P(r) == Process(r, memory[r], at, history[at].author, o)
           out == [r \in enabled |-> P(r).out]
<1>1. /\ phase = "commit" /\ o \in Observed(history[at])
      /\ pending' = pending \o Pushed(out) /\ memory' = [r \in enabled |-> P(r).m]
      /\ granted' = granted
  BY DEF TypeOK, OnObservation
<1>2. /\ at \in 1..Len(history) /\ at \in 1..MaxCommits /\ history[at] \in Fact
      /\ enabled \in Focuses /\ enabled \subseteq AllRules /\ pending \in Seq(AnyGrant)
  <2>1. at \in 0..Len(history) /\ processed < at /\ Len(history) <= MaxCommits
    BY <1>1 DEF TypeOK
  <2>2. Len(history) \in Nat /\ processed \in 0..Len(history) /\ MaxCommits \in Nat
    BY TypeFacts, HistoryAssumption
  <2>3. at \in 1..Len(history) /\ at \in 1..MaxCommits
    BY <2>1, <2>2
  <2> QED
    BY <2>3, TypeFacts DEF TypeOK
<1>3. o \in Observation /\ history[at].author \in Users
  BY <1>1, <1>2, ObservedProperties DEF Fact
<1>4. \A r \in enabled : out[r] \in Seq(GrantBy(r)) /\ out[r] = P(r).out
  <2>1. \A r \in enabled : P(r).out \in OneOf(r)
    <3>1. \A r \in enabled : r \in AllRules /\ memory[r] \in Memory(r)
      BY <1>2 DEF TypeOK
    <3> QED
      BY <1>2, <1>3, <3>1, ProcessType
  <2> QED
    BY <2>1, OneOfProperties
<1> HIDE DEF out, P
<1>5. Pushed(out) \in Seq(AnyGrant) /\ \A r \in enabled : OfRule(Pushed(out), r) = out[r]
  BY <1>2, <1>4, PushedByRule
<1>6. ASSUME NEW r \in enabled PROVE Held(r)' = Held(r) \o P(r).out
  <2>1. Held(r)' = OfRule(pending \o Pushed(out), r)
    BY <1>1 DEF Held
  <2>2. OfRule(pending \o Pushed(out), r) = OfRule(pending, r) \o OfRule(Pushed(out), r)
    BY <1>2, <1>5, OfRuleConcat
  <2> QED
    BY <1>4, <1>5, <2>1, <2>2 DEF Held
<1>7. pending' \in Seq(AnyGrant)
  BY <1>1, <1>2, <1>5, ConcatProperties
<1>8. \A r \in enabled : memory'[r] = P(r).m /\ GrantsOf(r)' = GrantsOf(r)
  BY <1>1 DEF GrantsOf
<1> QED
  BY <1>1, <1>2, <1>3, <1>6, <1>7, <1>8 DEF P

(* A commit that is complete grants what each rule held, and what the rule *)
(* adds.                                                                   *)
LEMMA CompleteView ==
  ASSUME TypeOK, OnCommitComplete
  PROVE  /\ at \in 1..Len(history) /\ at' = at - 1 /\ history[at].author \in Users
         /\ processed < at
         /\ \E outputs \in Seq(AnyGrant) :
              /\ CollectPending(outputs)
              /\ \A r \in enabled : OfRule(outputs, r)
                   = Held(r) \o CommitCompleted(r, memory[r], at, history[at].author)
<1> DEFINE C(r) == CommitCompleted(r, memory[r], at, history[at].author)
           out == [r \in enabled |-> C(r)]
           outputs == pending \o Pushed(out)
<1>1. phase = "commit" /\ CollectPending(outputs) /\ at' = at - 1
  BY DEF OnCommitComplete
<1>2. /\ at \in 1..Len(history) /\ history[at].author \in Users /\ processed < at
      /\ at \in Nat
  <2>1. at \in 0..Len(history) /\ processed < at
    BY <1>1 DEF TypeOK
  <2>2. Len(history) \in Nat /\ processed \in 0..Len(history)
    BY TypeFacts
  <2>3. at \in 1..Len(history) /\ at \in Nat
    BY <2>1, <2>2
  <2>4. history[at] \in Fact
    BY <2>3, TypeFacts
  <2> QED
    BY <2>1, <2>3, <2>4 DEF Fact
<1>3. \A r \in enabled : out[r] \in Seq(GrantBy(r)) /\ out[r] = C(r)
  <2>1. \A r \in enabled : r \in AllRules
    BY TypeFacts
  <2>2. \A r \in enabled : C(r) \in OneOf(r)
    BY <1>2, <2>1, CompletedType
  <2> QED
    BY <2>2, OneOfProperties
<1> HIDE DEF out
<1>4. enabled \in Focuses /\ pending \in Seq(AnyGrant)
  BY DEF TypeOK
<1>5. Pushed(out) \in Seq(AnyGrant) /\ \A r \in enabled : OfRule(Pushed(out), r) = C(r)
  <2> HIDE DEF C
  <2> QED
    BY <1>3, <1>4, PushedByRule
<1>6. outputs \in Seq(AnyGrant)
  BY <1>4, <1>5, ConcatProperties
<1>7. ASSUME NEW r \in enabled PROVE OfRule(outputs, r) = Held(r) \o C(r)
  <2> HIDE DEF C
  <2>1. OfRule(outputs, r) = OfRule(pending, r) \o OfRule(Pushed(out), r)
    BY <1>4, <1>5, OfRuleConcat
  <2> QED
    BY <1>5, <2>1 DEF Held
<1> HIDE DEF outputs, C
<1>8. \E x \in Seq(AnyGrant) : CollectPending(x) /\ \A r \in enabled : OfRule(x, r) = Held(r) \o C(r)
  BY <1>1, <1>6, <1>7, Zenon
<1> QED
  BY <1>1, <1>2, <1>8 DEF C

(* A run that ends grants what each rule puts out at its end.              *)
LEMMA FinalizeView ==
  ASSUME TypeOK, Finalize
  PROVE  /\ granted' \in Seq(AnyGrant \X Nat) /\ pending' = <<>>
         /\ at = processed /\ processed' = Len(history)
         /\ \A r \in enabled :
              /\ memory'[r] = Finalized(r, memory[r]).m
              /\ cache'[r] = FiniCache(r, memory'[r])
              /\ GrantsOf(r)' = GrantsOf(r) \o Finalized(r, memory[r]).out
<1> DEFINE F(r) == Finalized(r, memory[r])
           out == [r \in enabled |-> F(r).out]
<1>1. /\ phase = "walk" /\ at = processed /\ CollectPending(Pushed(out))
      /\ memory' = [r \in enabled |-> F(r).m]
      /\ cache' = [r \in enabled |-> FiniCache(r, memory'[r])]
      /\ ends' = ends \cup {Len(history)}
  BY DEF Finalize
<1>2. \A r \in enabled : out[r] \in Seq(GrantBy(r)) /\ out[r] = F(r).out
  <2>1. \A r \in enabled : r \in AllRules /\ memory[r] \in Memory(r)
    BY TypeFacts DEF TypeOK
  <2> QED
    BY <2>1, FinalizedType
<1> HIDE DEF out, F
<1>3. enabled \in Focuses
  BY DEF TypeOK
<1>4. Pushed(out) \in Seq(AnyGrant) /\ \A r \in enabled : OfRule(Pushed(out), r) = out[r]
  BY <1>2, <1>3, PushedByRule
<1>5. /\ granted' \in Seq(AnyGrant \X Nat) /\ pending' = <<>>
      /\ \A r \in enabled : GrantsOf(r)' = GrantsOf(r) \o out[r]
  BY <1>1, <1>4, CollectAdds
<1>6. processed' = Len(history)
  <2> DEFINE S == ends \cup {Len(history)} \cup {0}
  <2>1. Len(history) \in Nat /\ ends \subseteq 1..Len(history)
    BY TypeFacts DEF TypeOK
  <2>2. S \in SUBSET (0..Len(history)) /\ Len(history) \in S
    <3>1. /\ \A x \in ends : x \in 0..Len(history)
          /\ Len(history) \in 0..Len(history) /\ 0 \in 0..Len(history)
      BY <2>1
    <3> QED
      BY <3>1
  <2>3. processed' = LastOf(S)
    BY <1>1 DEF processed
  <2> HIDE DEF S
  <2>4. LastOf(S) \in S /\ Len(history) <= LastOf(S)
    BY <2>1, <2>2, LastOfIs
  <2>5. LastOf(S) \in 0..Len(history)
    BY <2>2, <2>4
  <2> QED
    BY <2>1, <2>3, <2>4, <2>5
<1>7. \A r \in enabled : memory'[r] = F(r).m /\ cache'[r] = FiniCache(r, memory'[r])
  BY <1>1
<1> QED
  BY <1>1, <1>2, <1>5, <1>6, <1>7 DEF F

(***************************************************************************)
(* The types, step by step.                                                *)
(***************************************************************************)
LEMMA TypeInit == Init => TypeOK
<1> SUFFICES ASSUME Init PROVE TypeOK
  OBVIOUS
<1>1. /\ enabled \in Focuses /\ history = <<>> /\ ends = {} /\ phase = "idle" /\ at = 0
      /\ pending = <<>> /\ granted = <<>>
      /\ cache = [r \in enabled |-> NoCache(r)]
      /\ memory = [r \in enabled |-> InitCache(r, NoCache(r))]
  BY DEF Init
<1>2. <<>> \in Seq(Fact) /\ Len(<<>>) = 0 /\ <<>> \in Seq(AnyGrant) /\ <<>> \in Seq(AnyGrant \X Nat)
  BY EmptySeq
<1>3. 0 <= MaxCommits /\ 0 \in 0..0
  BY HistoryAssumption
<1>4. \A r \in enabled : memory[r] \in Memory(r) /\ cache[r] \in Cached(r)
  <2>1. \A r \in enabled : r \in AllRules
    BY <1>1, EngineProperties
  <2> QED
    BY <1>1, <2>1, CacheTypes
<1> QED
  BY <1>1, <1>2, <1>3, <1>4 DEF TypeOK

LEMMA TypePush ==
  ASSUME TypeOK, NEW f \in Facts[enabled], Push(f)
  PROVE  /\ TypeOK'
         /\ processed' = processed
         /\ Len(history') = Len(history) + 1
         /\ \A c \in 1..Len(history) : history'[c] = history[c]
<1>1. /\ phase = "idle" /\ Len(history) < MaxCommits /\ history' = Append(history, f)
      /\ UNCHANGED <<enabled, ends, cache, phase, at, memory, todo, pending, batch, granted>>
  BY DEF Push
<1>2. f \in Fact
  BY FactAssumption DEF TypeOK
<1>3. history \in Seq(Fact) /\ Len(history) \in Nat /\ MaxCommits \in Nat
  BY TypeFacts, HistoryAssumption DEF TypeOK
<1>4. /\ history' \in Seq(Fact) /\ Len(history') = Len(history) + 1
      /\ \A c \in 1..Len(history) : history'[c] = history[c]
  BY <1>1, <1>2, <1>3
<1>5. Len(history') <= MaxCommits /\ \A x \in 0..Len(history) : x \in 0..Len(history')
  BY <1>1, <1>3, <1>4
<1>6. ends' \subseteq 1..Len(history') /\ at' \in 0..Len(history')
  <2>1. \A x \in 1..Len(history) : x \in 1..Len(history')
    BY <1>3, <1>4
  <2> QED
    BY <1>1, <1>5, <2>1 DEF TypeOK
<1>7. processed' = processed
  BY <1>1 DEF processed
<1> QED
  BY <1>1, <1>4, <1>5, <1>6, <1>7 DEF TypeOK

LEMMA TypeInitCaches ==
  ASSUME TypeOK, InitCaches
  PROVE  TypeOK' /\ processed' = processed
<1>1. /\ phase = "idle" /\ processed < Len(history) /\ at' = Len(history) /\ phase' = "walk"
      /\ memory' = [r \in enabled |-> InitCache(r, cache[r])]
      /\ UNCHANGED <<enabled, history, ends, cache, todo, pending, granted>>
  BY DEF InitCaches
<1>2. \A r \in enabled : memory'[r] \in Memory(r)
  <2>1. \A r \in enabled : r \in AllRules /\ cache[r] \in Cached(r)
    BY TypeFacts DEF TypeOK
  <2> QED
    BY <1>1, <2>1, CacheTypes
<1>3. processed' = processed
  BY <1>1 DEF processed
<1>4. at' \in 0..Len(history') /\ processed' <= at'
  BY <1>1, <1>3, TypeFacts
<1> QED
  BY <1>1, <1>2, <1>3, <1>4 DEF TypeOK

LEMMA TypeOnCommitStart ==
  ASSUME TypeOK, OnCommitStart
  PROVE  TypeOK' /\ processed' = processed
<1>1. /\ phase = "walk" /\ at > processed /\ phase' = "commit" /\ todo' = Observed(history[at])
      /\ memory' = [r \in enabled |-> CommitStarted(r, memory[r], at)]
      /\ UNCHANGED <<enabled, history, ends, cache, at, pending, granted>>
  BY DEF OnCommitStart
<1>2. at \in Nat /\ processed \in Nat /\ at \in 0..Len(history)
  BY TypeFacts DEF TypeOK
<1>3. \A r \in enabled : memory'[r] \in Memory(r)
  <2>1. \A r \in enabled : r \in AllRules /\ memory[r] \in Memory(r)
    BY TypeFacts DEF TypeOK
  <2> QED
    BY <1>1, <1>2, <2>1, StartedType
<1>4. processed' = processed
  BY <1>1 DEF processed
<1>5. Observed(history[at])' = Observed(history[at])
  BY <1>1 DEF Observed
<1>6. todo' \subseteq Observed(history[at])' /\ processed' < at'
  BY <1>1, <1>2, <1>4, <1>5
<1> QED
  BY <1>1, <1>3, <1>4, <1>6 DEF TypeOK

LEMMA TypeOnObservation ==
  ASSUME TypeOK, NEW o \in todo, OnObservation(o)
  PROVE  TypeOK' /\ processed' = processed
<1>1. /\ phase = "commit" /\ phase' = "commit" /\ todo' = todo \ {o}
      /\ DOMAIN memory' = enabled
      /\ UNCHANGED <<enabled, history, ends, cache, at, granted>>
  BY DEF OnObservation
<1>2. pending' \in Seq(AnyGrant)
  BY ObservationView
<1>3. \A r \in enabled : memory'[r] \in Memory(r)
  <2>1. \A r \in enabled : r \in AllRules /\ memory[r] \in Memory(r)
    BY TypeFacts DEF TypeOK
  <2>2. o \in Observation /\ at \in 1..MaxCommits /\ history[at].author \in Users
    BY ObservationView
  <2>3. \A r \in enabled : memory'[r] = Process(r, memory[r], at, history[at].author, o).m
    BY ObservationView
  <2> QED
    BY <2>1, <2>2, <2>3, ProcessType
<1>4. processed' = processed
  BY <1>1 DEF processed
<1>5. Observed(history[at])' = Observed(history[at])
  BY <1>1 DEF Observed
<1>6. todo' \subseteq Observed(history[at])' /\ processed' < at'
  BY <1>1, <1>4, <1>5 DEF TypeOK
<1> QED
  BY <1>1, <1>2, <1>3, <1>4, <1>6 DEF TypeOK

LEMMA TypeOnCommitComplete ==
  ASSUME TypeOK, OnCommitComplete
  PROVE  TypeOK' /\ processed' = processed
<1>1. /\ phase = "commit" /\ phase' = "walk"
      /\ UNCHANGED <<enabled, history, ends, cache, memory, todo>>
  BY DEF OnCommitComplete
<1>2. at \in 1..Len(history) /\ at' = at - 1 /\ processed < at
  BY CompleteView
<1>3. granted' \in Seq(AnyGrant \X Nat) /\ pending' = <<>>
  <2>1. PICK outputs \in Seq(AnyGrant) : CollectPending(outputs)
    BY CompleteView
  <2> QED
    BY <2>1, CollectAdds
<1>4. processed' = processed
  BY <1>1 DEF processed
<1>5. at' \in 0..Len(history') /\ processed' <= at'
  <2>1. Len(history) \in Nat /\ processed \in Nat
    BY TypeFacts
  <2> QED
    BY <1>1, <1>2, <1>4, <2>1
<1>6. pending' \in Seq(AnyGrant)
  BY <1>3, EmptySeq
<1> QED
  BY <1>1, <1>3, <1>4, <1>5, <1>6 DEF TypeOK

LEMMA TypeFinalize ==
  ASSUME TypeOK, Finalize
  PROVE  TypeOK'
<1>1. /\ phase' = "idle" /\ ends' = ends \cup {Len(history)} /\ phase = "walk"
      /\ DOMAIN memory' = enabled /\ DOMAIN cache' = enabled
      /\ UNCHANGED <<enabled, history, at, todo>>
  BY DEF Finalize
<1>2. granted' \in Seq(AnyGrant \X Nat) /\ pending' = <<>>
  BY FinalizeView
<1>3. pending' \in Seq(AnyGrant)
  BY <1>2, EmptySeq
<1>4. ends' \subseteq 1..Len(history')
  <2>1. Len(history) \in Nat /\ processed \in Nat /\ processed < Len(history)
    BY <1>1, TypeFacts DEF TypeOK
  <2>2. Len(history) \in 1..Len(history)
    BY <2>1
  <2> QED
    BY <1>1, <2>2 DEF TypeOK
<1>5. \A r \in enabled : memory'[r] \in Memory(r) /\ cache'[r] \in Cached(r)
  <2>1. \A r \in enabled : r \in AllRules /\ memory[r] \in Memory(r)
    BY TypeFacts DEF TypeOK
  <2>2. \A r \in enabled : /\ memory'[r] = Finalized(r, memory[r]).m
                          /\ cache'[r] = FiniCache(r, memory'[r])
    BY FinalizeView
  <2>3. \A r \in enabled : memory'[r] \in Memory(r)
    BY <2>1, <2>2, FinalizedType
  <2> QED
    BY <2>1, <2>2, <2>3, FiniType
<1> QED
  BY <1>1, <1>2, <1>3, <1>4, <1>5 DEF TypeOK

LEMMA TypeStutter ==
  ASSUME TypeOK, UNCHANGED vars
  PROVE  TypeOK'
<1>1. /\ UNCHANGED <<enabled, history, ends, cache, phase, at, memory, todo, pending, granted>>
      /\ processed' = processed
  BY DEF vars, processed
<1>2. Observed(history[at])' = Observed(history[at])
  BY <1>1 DEF Observed
<1> QED
  BY <1>1, <1>2 DEF TypeOK

LEMMA TypeStep ==
  ASSUME TypeOK, [Next]_vars
  PROVE  TypeOK'
<1>1. ASSUME NEW f \in Facts[enabled], Push(f) PROVE TypeOK'
  BY <1>1, TypePush
<1>2. ASSUME NEW o \in todo, OnObservation(o) PROVE TypeOK'
  BY <1>2, TypeOnObservation
<1> QED
  BY <1>1, <1>2, TypeInitCaches, TypeOnCommitStart, TypeOnCommitComplete, TypeFinalize,
     TypeStutter DEF Next

-----------------------------------------------------------------------------
(***************************************************************************)
(* Each rule once per commit, in order.                                    *)
(***************************************************************************)
LEMMA ConsumesOne ==
  \A r \in AllRules \ {17} : \A a, b \in Consumes(r) : a = b
<1> SUFFICES ASSUME NEW r \in AllRules \ {17} PROVE \A a, b \in Consumes(r) : a = b
  OBVIOUS
<1>1. CASE r \in {1, 2, 3, 4, 5, 6, 7, 8, 9}
  BY <1>1 DEF Consumes
<1>2. CASE r \in {10, 12, 13, 14, 15, 16, 18, 19}
  BY <1>2 DEF Consumes
<1> QED
  BY <1>1, <1>2 DEF AllRules

LEMMA HeldNothing ==
  pending = <<>> => \A r : Held(r) = <<>> /\ Held(r) \in OneOf(r)
BY OfRuleNone, OneOfProperties DEF Held

LEMMA HeldOnceInit == Init => HeldOnce
BY HeldNothing DEF Init, HeldOnce

LEMMA HeldOnceOnObservation ==
  ASSUME TypeOK, HeldOnce, NEW o \in todo, OnObservation(o)
  PROVE  HeldOnce'
<1> DEFINE out(r) == Process(r, memory[r], at, history[at].author, o).out
<1>1. /\ enabled' = enabled /\ enabled \subseteq AllRules
      /\ todo' = todo \ {o} /\ todo \subseteq Observed(history[at])
  BY TypeFacts DEF OnObservation, TypeOK
<1>2. /\ o \in Observation /\ at \in 1..MaxCommits /\ history[at].author \in Users
      /\ \A r \in enabled : Held(r)' = Held(r) \o out(r)
  BY ObservationView
<1>3. \A p, q \in Observed(history[at]) : p.kind = q.kind => p = q
  <2>1. history[at] \in Fact
    BY ObservationView, TypeFacts
  <2> QED
    BY <2>1, ObservedProperties
<1>4. ASSUME NEW r \in enabled
      PROVE  /\ Held(r)' \in OneOf(r)
             /\ Held(r)' # <<>> => r \in Prompt /\ \A p \in todo' : p.kind \notin Consumes(r)
  <2>1. /\ r \in AllRules /\ memory[r] \in Memory(r)
        /\ Held(r) \in OneOf(r) /\ Held(r) \in Seq(AnyGrant)
        /\ Held(r) # <<>> => r \in Prompt /\ \A p \in todo : p.kind \notin Consumes(r)
    BY <1>1, GrantsType DEF TypeOK, HeldOnce
  <2>2. /\ out(r) \in OneOf(r)
        /\ out(r) # <<>> => r \in Prompt /\ o.kind \in Consumes(r)
    BY <1>2, <2>1, ProcessType
  <2>3. Held(r)' = Held(r) \o out(r)
    BY <1>2
  <2> HIDE DEF out
  <2>4. CASE out(r) = <<>>
    <3>1. Held(r)' = Held(r)
      BY <2>1, <2>3, <2>4, ConcatEmptySeq
    <3> QED
      BY <1>1, <2>1, <3>1
  <2>5. CASE out(r) # <<>>
    <3>1. Held(r) = <<>>
      BY <2>1, <2>2, <2>5
    <3>2. out(r) \in Seq(GrantBy(r))
      BY <2>2, OneOfProperties
    <3>3. Held(r)' = out(r)
      BY <2>3, <3>1, <3>2, ConcatEmptySeq
    <3>4. ASSUME NEW p \in todo', p.kind \in Consumes(r) PROVE FALSE
      <4>1. p.kind = o.kind
        BY <2>1, <2>2, <2>5, <3>4, ConsumesOne DEF Prompt, Stateless
      <4> QED
        BY <1>1, <1>3, <4>1
    <3> QED
      BY <2>2, <2>5, <3>3, <3>4
  <2> QED
    BY <2>4, <2>5
<1> QED
  BY <1>1, <1>4 DEF HeldOnce

LEMMA HeldOnceStep ==
  ASSUME TypeOK, HeldOnce, [Next]_vars
  PROVE  HeldOnce'
<1>1. ASSUME pending' = <<>> PROVE HeldOnce'
  BY <1>1, OfRuleNone, OneOfProperties DEF HeldOnce, Held
<1>2. ASSUME NEW f \in Facts[enabled], Push(f) PROVE HeldOnce'
  BY <1>1, <1>2 DEF Push, TypeOK
<1>3. CASE InitCaches
  BY <1>1, <1>3 DEF InitCaches, TypeOK
<1>4. CASE OnCommitStart
  BY <1>1, <1>4 DEF OnCommitStart, TypeOK
<1>5. ASSUME NEW o \in todo, OnObservation(o) PROVE HeldOnce'
  BY <1>5, HeldOnceOnObservation
<1>6. CASE OnCommitComplete
  BY <1>1, <1>6 DEF OnCommitComplete, CollectPending
<1>7. CASE Finalize
  BY <1>1, <1>7, FinalizeView
<1>8. CASE UNCHANGED vars
  BY <1>8 DEF vars, HeldOnce, Held
<1> QED
  BY <1>2, <1>3, <1>4, <1>5, <1>6, <1>7, <1>8 DEF Next

(* So a commit that is complete grants once by each rule: what the rule    *)
(* held, or for h017 what it makes of all it was told.                     *)
LEMMA CompleteOnce ==
  ASSUME TypeOK, HeldOnce, OnCommitComplete
  PROVE  \E outputs \in Seq(AnyGrant) :
           /\ CollectPending(outputs)
           /\ \A r \in enabled :
                /\ OfRule(outputs, r) \in OneOf(r)
                /\ OfRule(outputs, r) =
                     IF r = 17 THEN CommitCompleted(r, memory[r], at, history[at].author)
                     ELSE Held(r)
<1> DEFINE C(r) == CommitCompleted(r, memory[r], at, history[at].author)
<1>1. PICK outputs \in Seq(AnyGrant) :
        /\ CollectPending(outputs)
        /\ \A r \in enabled : OfRule(outputs, r) = Held(r) \o C(r)
  BY CompleteView
<1>2. at \in Nat /\ history[at].author \in Users /\ todo = {}
  <2>1. at \in 1..Len(history) /\ history[at].author \in Users
    BY CompleteView
  <2>2. Len(history) \in Nat
    BY TypeFacts
  <2> QED
    BY <2>1, <2>2 DEF OnCommitComplete
<1>3. ASSUME NEW r \in enabled
      PROVE  /\ OfRule(outputs, r) \in OneOf(r)
             /\ OfRule(outputs, r) = IF r = 17 THEN C(r) ELSE Held(r)
  <2>1. r \in AllRules /\ Held(r) \in OneOf(r) /\ Held(r) \in Seq(GrantBy(r))
    BY TypeFacts, GrantsType DEF HeldOnce
  <2>2. C(r) \in OneOf(r) /\ C(r) \in Seq(GrantBy(r)) /\ (C(r) # <<>> => r = 17)
    BY <1>2, <2>1, CompletedType, OneOfProperties
  <2>3. r = 17 => Held(r) = <<>>
    BY DEF HeldOnce, Prompt, Stateless
  <2>4. OfRule(outputs, r) = Held(r) \o C(r)
    BY <1>1
  <2> HIDE DEF C
  <2>5. CASE r = 17
    <3>1. Held(r) \o C(r) = C(r)
      BY <2>2, <2>3, <2>5, ConcatEmptySeq
    <3> QED
      BY <2>2, <2>4, <2>5, <3>1
  <2>6. CASE r # 17
    <3>1. Held(r) \o C(r) = Held(r)
      BY <2>1, <2>2, <2>6, ConcatEmptySeq
    <3> QED
      BY <2>1, <2>4, <2>6, <3>1
  <2> QED
    BY <2>5, <2>6
<1> QED
  BY <1>1, <1>3

LEMMA BatchInOrderStep ==
  ASSUME TypeOK, HeldOnce, BatchInOrder, [Next]_vars
  PROVE  BatchInOrder'
<1>1. CASE InitCaches
  BY <1>1 DEF InitCaches, BatchInOrder, Rising
<1>2. CASE OnCommitComplete
  <2>1. PICK outputs \in Seq(AnyGrant) :
          CollectPending(outputs) /\ \A r \in enabled : OfRule(outputs, r) \in OneOf(r)
    BY <1>2, CompleteOnce
  <2>2. enabled \in Focuses /\ batch' = Sorted(outputs)
    BY <2>1 DEF TypeOK, CollectPending
  <2>3. \A r \in enabled : Len(OfRule(outputs, r)) <= 1
    BY <2>1 DEF OneOf
  <2>4. Rising(Sorted(outputs))
    BY <2>2, <2>3, SortedByRule
  <2> QED
    BY <2>2, <2>4 DEF BatchInOrder, Rising
<1>3. CASE phase' # "walk"
  BY <1>3 DEF BatchInOrder
<1>4. CASE UNCHANGED vars
  BY <1>4 DEF vars, BatchInOrder, Rising
<1>5. ASSUME NEW f \in Facts[enabled], Push(f) PROVE phase' # "walk"
  BY <1>5 DEF Push
<1>6. OnCommitStart => phase' # "walk"
  BY DEF OnCommitStart
<1>7. ASSUME NEW o \in todo, OnObservation(o) PROVE phase' # "walk"
  BY <1>7 DEF OnObservation
<1>8. Finalize => phase' # "walk"
  BY DEF Finalize
<1> QED
  BY <1>1, <1>2, <1>3, <1>4, <1>5, <1>6, <1>7, <1>8 DEF Next

-----------------------------------------------------------------------------
(***************************************************************************)
(* What rules have seen, and what they were told of the commit at hand.    *)
(***************************************************************************)
LEMMA MetType ==
  ASSUME TypeOK
  PROVE  /\ Seen \subseteq 1..Len(history) /\ InRun \subseteq 1..Len(history)
         /\ Met \subseteq 1..Len(history)
         /\ phase = "idle" => Met = Seen
         /\ phase # "idle" => at \notin InRun
         /\ \A c \in InRun : at < c /\ processed < c
         /\ \A c \in Seen : c <= processed
         /\ \A c \in Met : history[c] \in Fact
<1>1. Len(history) \in Nat /\ processed \in 0..Len(history) /\ at \in 0..Len(history)
  BY TypeFacts DEF TypeOK
<1>2. phase # "idle" => processed <= at
  BY <1>1 DEF TypeOK
<1>3. Seen \subseteq 1..Len(history) /\ \A c \in Seen : c <= processed
  BY <1>1 DEF Seen
<1>4. /\ InRun \subseteq 1..Len(history) /\ (phase # "idle" => at \notin InRun)
      /\ \A c \in InRun : at < c /\ processed < c
  BY <1>1, <1>2 DEF InRun
<1>5. Met \subseteq 1..Len(history) /\ (phase = "idle" => Met = Seen)
  BY <1>3, <1>4 DEF Met, InRun
<1> QED
  BY <1>3, <1>4, <1>5, TypeFacts

LEMMA PushMet ==
  ASSUME TypeOK, NEW f \in Facts[enabled], Push(f)
  PROVE  /\ Seen' = Seen /\ InRun = {} /\ InRun' = {} /\ Met' = Met /\ Told' = {}
         /\ \A c \in Met : history'[c] = history[c]
<1>1. phase = "idle" /\ phase' = "idle"
  BY DEF Push
<1>2. processed' = processed /\ \A c \in 1..Len(history) : history'[c] = history[c]
  BY TypePush
<1>3. Seen' = Seen /\ InRun = {} /\ InRun' = {} /\ Told' = {}
  BY <1>1, <1>2 DEF Seen, InRun, Told
<1> QED
  BY <1>2, <1>3, MetType DEF Met

LEMMA InitCachesMet ==
  ASSUME TypeOK, InitCaches
  PROVE  Seen' = Seen /\ InRun = {} /\ InRun' = {} /\ Met' = Met /\ Told' = {}
<1>1. phase = "idle" /\ phase' = "walk" /\ at' = Len(history) /\ history' = history
  BY DEF InitCaches
<1>2. processed' = processed /\ Len(history) \in Nat
  BY TypeInitCaches, TypeFacts
<1>3. Seen' = Seen /\ InRun = {} /\ Told' = {}
  BY <1>1, <1>2 DEF Seen, InRun, Told
<1>4. InRun' = {}
  BY <1>1, <1>2 DEF InRun
<1> QED
  BY <1>3, <1>4 DEF Met

LEMMA OnCommitStartMet ==
  ASSUME TypeOK, OnCommitStart
  PROVE  /\ Seen' = Seen /\ InRun' = InRun /\ Met' = Met
         /\ Told = {} /\ Told' = {} /\ at' = at
<1>1. /\ phase = "walk" /\ phase' = "commit" /\ at' = at /\ history' = history
      /\ enabled' = enabled /\ todo' = Observed(history[at])
  BY DEF OnCommitStart
<1>2. processed' = processed /\ Observed(history[at])' = Observed(history[at])
  BY <1>1, TypeOnCommitStart DEF Observed
<1>3. Seen' = Seen /\ InRun' = InRun /\ Told = {}
  BY <1>1, <1>2 DEF Seen, InRun, Told
<1>4. Told' = {}
  BY <1>1, <1>2 DEF Told
<1> QED
  BY <1>1, <1>3, <1>4 DEF Met

LEMMA OnObservationMet ==
  ASSUME TypeOK, NEW o \in todo, OnObservation(o)
  PROVE  Seen' = Seen /\ InRun' = InRun /\ Met' = Met /\ at' = at /\ Told' = Told \cup {o}
<1>1. /\ phase = "commit" /\ phase' = "commit" /\ at' = at /\ history' = history
      /\ enabled' = enabled /\ todo' = todo \ {o} /\ o \in Observed(history[at])
  BY DEF OnObservation, TypeOK
<1>2. processed' = processed /\ Observed(history[at])' = Observed(history[at])
  BY <1>1, TypeOnObservation DEF Observed
<1>3. Seen' = Seen /\ InRun' = InRun
  BY <1>1, <1>2 DEF Seen, InRun
<1>4. Told' = Told \cup {o}
  BY <1>1, <1>2 DEF Told
<1> QED
  BY <1>1, <1>3, <1>4 DEF Met

LEMMA OnCommitCompleteMet ==
  ASSUME TypeOK, OnCommitComplete
  PROVE  /\ Seen' = Seen /\ InRun' = InRun \cup {at} /\ Met' = Met \cup {at}
         /\ at \notin Met /\ Told = Observed(history[at]) /\ Told' = {}
<1>1. /\ phase = "commit" /\ phase' = "walk" /\ at' = at - 1 /\ history' = history /\ todo = {}
  BY DEF OnCommitComplete
<1>2. processed' = processed /\ processed < at /\ at \in 1..Len(history)
  BY CompleteView, TypeOnCommitComplete
<1>3. Len(history) \in Nat /\ processed \in Nat
  BY TypeFacts
<1>4. Seen' = Seen /\ Told = Observed(history[at]) /\ Told' = {}
  BY <1>1, <1>2 DEF Seen, Told
<1>5. InRun' = InRun \cup {at}
  BY <1>1, <1>2, <1>3 DEF InRun
<1>6. at \notin Met
  BY <1>1, <1>2, <1>3 DEF Met, InRun, Seen
<1> QED
  BY <1>4, <1>5, <1>6 DEF Met

LEMMA FinalizeMet ==
  ASSUME TypeOK, Finalize
  PROVE  Seen' = Met /\ InRun' = {} /\ Met' = Met /\ Told = {} /\ Told' = {}
<1>1. phase = "walk" /\ phase' = "idle" /\ history' = history
  BY DEF Finalize
<1>2. at = processed /\ processed' = Len(history)
  BY FinalizeView
<1>3. Len(history) \in Nat /\ processed \in 0..Len(history)
  BY TypeFacts
<1>4. Seen' = 1..Len(history) /\ InRun' = {} /\ Told = {} /\ Told' = {}
  BY <1>1, <1>2 DEF Seen, InRun, Told
<1>5. Met = 1..Len(history)
  BY <1>1, <1>2, <1>3 DEF Met, Seen, InRun
<1> QED
  BY <1>4, <1>5 DEF Met

LEMMA StutterMet ==
  ASSUME UNCHANGED vars
  PROVE  /\ Seen' = Seen /\ InRun' = InRun /\ Met' = Met /\ Told' = Told
         /\ \A r : GrantsOf(r)' = GrantsOf(r) /\ Held(r)' = Held(r)
<1>1. processed' = processed /\ Observed(history[at])' = Observed(history[at])
  BY DEF vars, processed, Observed
<1> QED
  BY <1>1 DEF vars, Seen, InRun, Met, Told, GrantsOf, Held

(* What each rule hears of a commit, and what that says of the commit.     *)
LEMMA ObservedOf ==
  ASSUME NEW f \in Fact, NEW o \in Observed(f)
  PROVE  /\ o.kind \in Kinds => o.kind \in f.kinds
         /\ o.kind = "Subject" => o.value = [length |-> f.length, topic |-> f.topic]
         /\ o.kind = "ParentCount" => o.value = f.parents
         /\ o.kind = "Profanity" => f.swears > 0 /\ o.value = f.swears
         /\ o.kind = "QuinePrefix" => f.quine > 0 /\ o.value = f.quine
<1>1. f.swears \in Nat /\ f.quine \in Nat /\ f.kinds \subseteq Kinds
  BY DEF Fact
<1>2. CASE o \in {[kind |-> k, value |-> 0] : k \in f.kinds}
  <2>1. PICK k \in f.kinds : o = [kind |-> k, value |-> 0]
    BY <1>2
  <2>2. o.kind = k /\ k \in Kinds
    BY <1>1, <2>1
  <2> QED
    BY <2>2 DEF Kinds
<1>3. CASE o = [kind |-> "Subject", value |-> [length |-> f.length, topic |-> f.topic]]
  BY <1>3 DEF Kinds
<1>4. CASE o = [kind |-> "ParentCount", value |-> f.parents]
  BY <1>4 DEF Kinds
<1>5. CASE f.swears # 0 /\ o = [kind |-> "Profanity", value |-> f.swears]
  BY <1>1, <1>5 DEF Kinds
<1>6. CASE f.quine # 0 /\ o = [kind |-> "QuinePrefix", value |-> f.quine]
  BY <1>1, <1>6 DEF Kinds
<1>7. CASE o = [kind |-> "HexTokens", value |-> f.tokens]
  BY <1>7 DEF Kinds
<1> QED
  BY <1>2, <1>3, <1>4, <1>5, <1>6, <1>7 DEF Observed

LEMMA ToldOf ==
  ASSUME NEW f \in Fact, NEW r \in enabled
  PROVE  /\ \A k \in f.kinds \cap Consumes(r) : [kind |-> k, value |-> 0] \in Observed(f)
         /\ "Subject" \in Consumes(r) =>
              [kind |-> "Subject", value |-> [length |-> f.length, topic |-> f.topic]]
                \in Observed(f)
         /\ "ParentCount" \in Consumes(r) =>
              [kind |-> "ParentCount", value |-> f.parents] \in Observed(f)
         /\ "Profanity" \in Consumes(r) /\ f.swears > 0 =>
              [kind |-> "Profanity", value |-> f.swears] \in Observed(f)
         /\ "QuinePrefix" \in Consumes(r) /\ f.quine > 0 =>
              [kind |-> "QuinePrefix", value |-> f.quine] \in Observed(f)
<1>1. f.swears \in Nat /\ f.quine \in Nat
  BY DEF Fact
<1>2. \A k \in f.kinds \cap Consumes(r) : [kind |-> k, value |-> 0] \in Observed(f)
  BY DEF Observed
<1>3. "Subject" \in Consumes(r) =>
        [kind |-> "Subject", value |-> [length |-> f.length, topic |-> f.topic]] \in Observed(f)
  BY DEF Observed
<1>4. "ParentCount" \in Consumes(r) =>
        [kind |-> "ParentCount", value |-> f.parents] \in Observed(f)
  BY DEF Observed
<1>5. "Profanity" \in Consumes(r) /\ f.swears > 0 =>
        [kind |-> "Profanity", value |-> f.swears] \in Observed(f)
  <2> SUFFICES ASSUME "Profanity" \in Consumes(r), f.swears > 0
               PROVE  [kind |-> "Profanity", value |-> f.swears] \in Observed(f)
    OBVIOUS
  <2>1. f.swears \in {f.swears} \ {0}
    BY <1>1
  <2>2. [kind |-> "Profanity", value |-> f.swears] \in {[kind |-> "Profanity", value |-> n] : n \in {f.swears} \ {0}}
    BY <2>1
  <2> QED
    BY <2>2, Zenon DEF Observed
<1>6. "QuinePrefix" \in Consumes(r) /\ f.quine > 0 =>
        [kind |-> "QuinePrefix", value |-> f.quine] \in Observed(f)
  <2> SUFFICES ASSUME "QuinePrefix" \in Consumes(r), f.quine > 0
               PROVE  [kind |-> "QuinePrefix", value |-> f.quine] \in Observed(f)
    OBVIOUS
  <2>1. f.quine \in {f.quine} \ {0}
    BY <1>1
  <2>2. [kind |-> "QuinePrefix", value |-> f.quine] \in {[kind |-> "QuinePrefix", value |-> n] : n \in {f.quine} \ {0}}
    BY <2>1
  <2> QED
    BY <2>2, Zenon DEF Observed
<1> QED
  BY <1>2, <1>3, <1>4, <1>5, <1>6

-----------------------------------------------------------------------------
(***************************************************************************)
(* Rules that keep nothing between commits.                                *)
(***************************************************************************)
LEMMA WantedIs ==
  ASSUME NEW f \in Fact, NEW r \in enabled
  PROVE  /\ r \in Stateless => (Deserves(r, f) <=> \E o \in Observed(f) : Wants(r, o))
         /\ r = 17 => (Deserves(r, f) <=>
              /\ \E o \in Observed(f) : o.kind = "ParentCount" /\ o.value = 0
              /\ \E o \in Observed(f) : o.kind = "EmptyCommit")
<1>1. f.swears \in Nat /\ f.quine \in Nat /\ f.parents \in Nat
  BY DEF Fact
<1>2. \A o \in Observed(f) : /\ o.kind \in Kinds => o.kind \in f.kinds
                             /\ o.kind = "ParentCount" => o.value = f.parents
                             /\ o.kind = "Profanity" => f.swears > 0
                             /\ o.kind = "QuinePrefix" => f.quine > 0 /\ o.value = f.quine
  BY ObservedOf
<1>3. ASSUME NEW k \in Kinds, k \in Consumes(r)
      PROVE  k \in f.kinds <=> \E o \in Observed(f) : o.kind = k
  <2>1. k \in f.kinds => [kind |-> k, value |-> 0] \in Observed(f)
    BY <1>3, ToldOf
  <2> QED
    BY <1>2, <2>1
<1>4. "ParentCount" \in Consumes(r) =>
        \E o \in Observed(f) : o.kind = "ParentCount" /\ o.value = f.parents
  BY ToldOf
<1>5. "Profanity" \in Consumes(r) /\ f.swears > 0 =>
        \E o \in Observed(f) : o.kind = "Profanity"
  BY ToldOf
<1>6. "QuinePrefix" \in Consumes(r) /\ f.quine > 0 =>
        \E o \in Observed(f) : o.kind = "QuinePrefix" /\ o.value = f.quine
  BY ToldOf
<1>7. CASE r = 1
  BY <1>3, <1>7 DEF Deserves, Wants, Consumes, Kinds, Stateless
<1>8. CASE r = 4
  BY <1>3, <1>8 DEF Deserves, Wants, Consumes, Kinds, Stateless
<1>9. CASE r = 5
  BY <1>3, <1>9 DEF Deserves, Wants, Consumes, Kinds, Stateless
<1>10. CASE r = 6
  BY <1>3, <1>10 DEF Deserves, Wants, Consumes, Kinds, Stateless
<1>11. CASE r = 8
  BY <1>2, <1>5, <1>11 DEF Deserves, Wants, Consumes, Stateless
<1>12. CASE r = 12
  BY <1>2, <1>6, <1>12 DEF Deserves, Wants, Consumes, Stateless
<1>13. CASE r = 15
  BY <1>1, <1>2, <1>4, <1>13, RuleThresholdsAssumption DEF Deserves, Wants, Consumes, Stateless
<1>14. CASE r = 16
  BY <1>1, <1>2, <1>4, <1>14 DEF Deserves, Wants, Consumes, Stateless
<1>15. CASE r = 17
  <2>1. f.parents = 0 <=> \E o \in Observed(f) : o.kind = "ParentCount" /\ o.value = 0
    BY <1>1, <1>2, <1>4, <1>15 DEF Consumes
  <2>2. "EmptyCommit" \in f.kinds <=> \E o \in Observed(f) : o.kind = "EmptyCommit"
    BY <1>3, <1>15 DEF Consumes, Kinds
  <2> QED
    BY <1>15, <2>1, <2>2 DEF Deserves, Stateless
<1> QED
  BY <1>7, <1>8, <1>9, <1>10, <1>11, <1>12, <1>13, <1>14, <1>15 DEF Stateless

(* Nothing granted, and nothing new met.                                   *)
LEMMA GrantsMatchSame ==
  ASSUME NEW r, GrantsMatch(r), GrantsOf(r)' = GrantsOf(r), Met' = Met,
         \A c \in Met : history'[c] = history[c]
  PROVE  GrantsMatch(r)'
<1>1. {c \in Met' : Deserves(r, history'[c])} = {c \in Met : Deserves(r, history[c])}
  OBVIOUS
<1> HIDE DEF GrantsOf, Met
<1> QED
  BY <1>1 DEF GrantsMatch

\* List t is s, and the grant in x behind it if there is one.
Adds(s, x, t) ==
  IF x = <<>> THEN t = s
  ELSE /\ Len(t) = Len(s) + 1 /\ DOMAIN t = 1 .. Len(s) + 1 /\ t # <<>>
       /\ t[Len(s) + 1] = x[1] /\ \A i \in 1..Len(s) : t[i] = s[i]

LEMMA AddsOne ==
  ASSUME NEW r, NEW s \in Seq(GrantBy(r)), NEW x \in OneOf(r)
  PROVE  Adds(s, x, s \o x)
<1> DEFINE G == GrantBy(r)
<1>1. x \in Seq(G) /\ s \in Seq(G) /\ (x # <<>> => Len(x) = 1)
  BY OneOfProperties
<1> HIDE DEF G
<1>2. x = <<>> => s \o x = s
  BY <1>1, ConcatEmptySeq
<1>3. /\ s \o x \in Seq(G) /\ Len(s \o x) = Len(s) + Len(x) /\ Len(s) \in Nat
      /\ \A i \in 1 .. Len(s) + Len(x) :
           (s \o x)[i] = IF i <= Len(s) THEN s[i] ELSE x[i - Len(s)]
  BY <1>1, ConcatProperties, LenProperties
<1>4. ASSUME x # <<>>
      PROVE  /\ Len(s \o x) = Len(s) + 1 /\ DOMAIN (s \o x) = 1 .. Len(s) + 1
             /\ (s \o x)[Len(s) + 1] = x[1] /\ \A i \in 1..Len(s) : (s \o x)[i] = s[i]
             /\ s \o x # <<>>
  <2>1. Len(x) = 1
    BY <1>1, <1>4
  <2>2. Len(s \o x) = Len(s) + 1 /\ DOMAIN (s \o x) = 1 .. Len(s) + 1
    BY <1>3, <2>1, LenProperties
  <2>3. (s \o x)[Len(s) + 1] = x[1]
    BY <1>3, <2>1
  <2>4. \A i \in 1..Len(s) : (s \o x)[i] = s[i]
    BY <1>3, <2>1
  <2>5. s \o x # <<>>
    BY <1>3, <2>2
  <2> QED
    BY <2>2, <2>3, <2>4, <2>5
<1> QED
  BY <1>2, <1>4 DEF Adds

LEMMA GrantsMatchAdds ==
  ASSUME TypeOK, NEW r \in enabled, GrantsMatch(r), NEW x \in OneOf(r),
         GrantsOf(r)' = GrantsOf(r) \o x, history' = history,
         Met' = Met \cup {at}, at \notin Met,
         Deserves(r, history[at]) <=> x # <<>>, x # <<>> => x[1].commit = at
  PROVE  GrantsMatch(r)'
<1> DEFINE g == GrantsOf(r)
           h == GrantsOf(r)'
<1>1. /\ {g[i].commit : i \in DOMAIN g} = {c \in Met : Deserves(r, history[c])}
      /\ \A i, j \in DOMAIN g : g[i].commit = g[j].commit => i = j
  BY DEF GrantsMatch
<1>2. g \in Seq(GrantBy(r)) /\ Len(g) \in Nat /\ DOMAIN g = 1..Len(g)
  BY GrantsType, LenProperties
<1>3. Adds(g, x, h)
  BY <1>2, AddsOne
<1>4. SUFFICES /\ {h[i].commit : i \in DOMAIN h} = {c \in Met \cup {at} : Deserves(r, history[c])}
               /\ \A i, j \in DOMAIN h : h[i].commit = h[j].commit => i = j
  BY DEF GrantsMatch
<1> HIDE DEF g, h
<1>5. CASE x = <<>>
  <2>1. h = g /\ ~Deserves(r, history[at])
    BY <1>3, <1>5 DEF Adds
  <2> QED
    BY <1>1, <2>1
<1>6. CASE x # <<>>
  <2>1. /\ DOMAIN h = 1 .. Len(g) + 1 /\ h[Len(g) + 1].commit = at
        /\ \A i \in 1..Len(g) : h[i] = g[i]
        /\ Deserves(r, history[at])
    BY <1>3, <1>6 DEF Adds
  <2>2. \A i \in DOMAIN h : i \in 1..Len(g) \/ i = Len(g) + 1
    BY <1>2, <2>1
  <2>3. Len(g) + 1 \in DOMAIN h /\ \A i \in 1..Len(g) : i \in DOMAIN h
    BY <1>2, <2>1
  <2>4. \A i \in 1..Len(g) : h[i].commit \in Met /\ Deserves(r, history[h[i].commit])
    <3>1. \A i \in DOMAIN g : g[i].commit \in {g[j].commit : j \in DOMAIN g}
      OBVIOUS
    <3>2. \A i \in DOMAIN g : g[i].commit \in {c \in Met : Deserves(r, history[c])}
      BY <1>1, <3>1, Zenon
    <3>3. \A i \in DOMAIN g : g[i].commit \in Met /\ Deserves(r, history[g[i].commit])
      BY <3>2
    <3> QED
      BY <1>2, <2>1, <3>3
  <2>5. ASSUME NEW c \in Met, Deserves(r, history[c])
        PROVE  \E i \in DOMAIN h : h[i].commit = c
    <3>1. PICK i \in DOMAIN g : g[i].commit = c
      BY <1>1, <2>5
    <3> QED
      BY <1>2, <2>1, <2>3, <3>1
  <2>6. {h[i].commit : i \in DOMAIN h} = {c \in Met \cup {at} : Deserves(r, history[c])}
    <3>1. ASSUME NEW i \in DOMAIN h
          PROVE  h[i].commit \in {c \in Met \cup {at} : Deserves(r, history[c])}
      BY <2>1, <2>2, <2>4
    <3>2. ASSUME NEW c \in Met \cup {at}, Deserves(r, history[c])
          PROVE  \E i \in DOMAIN h : h[i].commit = c
      BY <2>1, <2>3, <2>5, <3>2
    <3> QED
      BY <3>1, <3>2
  <2>7. ASSUME NEW i \in DOMAIN h, NEW j \in DOMAIN h, h[i].commit = h[j].commit
        PROVE  i = j
    <3>1. CASE i \in 1..Len(g) /\ j \in 1..Len(g)
      BY <1>1, <1>2, <2>1, <2>7, <3>1
    <3>2. CASE i = Len(g) + 1 \/ j = Len(g) + 1
      BY <2>1, <2>2, <2>4, <2>7, <3>2
    <3> QED
      BY <2>2, <3>1, <3>2
  <2> QED
    BY <2>6, <2>7
<1> QED
  BY <1>5, <1>6

LEMMA GrantsMatchComplete ==
  ASSUME TypeOK, HeldOnce, OneShots, NEW r \in enabled \cap OneShotRules, OnCommitComplete
  PROVE  GrantsMatch(r)'
<1> DEFINE f == history[at]
           u == history[at].author
<1>1. /\ Met' = Met \cup {at} /\ at \notin Met /\ Told = Observed(f) /\ history' = history
      /\ phase = "commit"
  BY OnCommitCompleteMet DEF OnCommitComplete
<1>2. /\ at \in Nat /\ f \in Fact /\ u \in Users
  <2>1. at \in 1..Len(history) /\ u \in Users
    BY CompleteView
  <2> QED
    BY <2>1, TypeFacts
<1>3. PICK outputs \in Seq(AnyGrant) :
        /\ CollectPending(outputs)
        /\ \A q \in enabled :
             /\ OfRule(outputs, q) \in OneOf(q)
             /\ OfRule(outputs, q) = IF q = 17 THEN CommitCompleted(q, memory[q], at, u)
                                     ELSE Held(q)
  BY CompleteOnce
<1> DEFINE x == OfRule(outputs, r)
<1>4. /\ r \in enabled /\ x \in OneOf(r) /\ GrantsMatch(r) /\ HeldMatches(r)
      /\ GrantsOf(r)' = GrantsOf(r) \o x
  BY <1>3, CollectAdds DEF OneShots, OneShotRules
<1>5. /\ Deserves(r, f) <=> x # <<>>
      /\ x # <<>> => x[1].commit = at
  <2>1. CASE r = 17
    <3>1. /\ memory[17].root  <=> \E o \in Observed(f) : o.kind = "ParentCount" /\ o.value = 0
          /\ memory[17].empty <=> \E o \in Observed(f) : o.kind = "EmptyCommit"
      BY <1>1, <1>4, <2>1 DEF HeldMatches
    <3>2. x = CommitCompleted(17, memory[17], at, u)
      BY <1>3, <2>1
    <3>3. Deserves(r, f) <=> memory[17].root /\ memory[17].empty
      BY <1>2, <2>1, <3>1, WantedIs
    <3>4. /\ <<GrantOf(17, at, u, 0)>> # <<>>
          /\ <<GrantOf(17, at, u, 0)>>[1].commit = at
      BY <1>2, 0 \in Nat, GrantOfType
    <3> HIDE DEF x, f, u
    <3>5. x = IF memory[17].root /\ memory[17].empty THEN <<GrantOf(17, at, u, 0)>> ELSE <<>>
      BY <3>2 DEF CommitCompleted
    <3> QED
      BY <3>3, <3>4, <3>5
  <2>2. CASE r # 17
    <3>1. x = Held(r) /\ r \in Stateless
      BY <1>3, <2>2 DEF OneShotRules
    <3>2. IF \E o \in Observed(f) : Wants(r, o) THEN Held(r) # <<>> /\ Held(r)[1].commit = at
          ELSE Held(r) = <<>>
      BY <1>1, <1>4, <2>2 DEF HeldMatches
    <3>3. Deserves(r, f) <=> \E o \in Observed(f) : Wants(r, o)
      BY <1>2, <3>1, WantedIs
    <3> HIDE DEF x, f
    <3> QED
      BY <3>1, <3>2, <3>3
  <2> QED
    BY <2>1, <2>2
<1> HIDE DEF x
<1> QED
  BY <1>1, <1>4, <1>5, GrantsMatchAdds

LEMMA HeldMatchesNew ==
  ASSUME pending' = <<>>, Told' = {}, NEW r,
         r = 17 /\ phase' = "commit" => memory'[17] = [root |-> FALSE, empty |-> FALSE]
  PROVE  HeldMatches(r)'
<1>1. Held(r)' = <<>>
  BY OfRuleNone DEF Held
<1>2. CASE r = 17
  BY <1>2 DEF HeldMatches
<1>3. CASE r # 17
  BY <1>1, <1>3 DEF HeldMatches
<1> QED
  BY <1>2, <1>3

LEMMA HeldMatchesObservation ==
  ASSUME TypeOK, HeldOnce, NEW r \in enabled \cap OneShotRules, HeldMatches(r),
         NEW o \in todo, OnObservation(o)
  PROVE  HeldMatches(r)'
<1> DEFINE P == Process(r, memory[r], at, history[at].author, o)
<1>1. /\ at' = at /\ phase = "commit" /\ Told' = Told \cup {o}
  BY OnObservationMet DEF OnObservation
<1>2. /\ o \in Observation /\ at \in Nat /\ history[at].author \in Users
      /\ memory'[r] = P.m /\ Held(r)' = Held(r) \o P.out
  <2>1. at \in 1..Len(history)
    BY ObservationView
  <2> QED
    BY <2>1, ObservationView, TypeFacts
<1>3. CASE r = 17
  <2>1. memory[17] \in NihiloMemory
    BY <1>3, MemoryIs DEF TypeOK
  <2>2. /\ memory[17].root  <=> \E p \in Told : p.kind = "ParentCount" /\ p.value = 0
        /\ memory[17].empty <=> \E p \in Told : p.kind = "EmptyCommit"
    BY <1>1, <1>3 DEF HeldMatches
  <2>3. /\ memory'[17].root  <=> memory[17].root \/ (o.kind = "ParentCount" /\ o.value = 0)
        /\ memory'[17].empty <=> memory[17].empty \/ o.kind = "EmptyCommit"
    <3>1. memory'[17] = ExNihiloProcess(memory[17], at, history[at].author, o).m
      BY <1>2, <1>3 DEF Process
    <3>2. CASE o.kind = "ParentCount" /\ o.value = 0
      <4>1. memory'[17] = [root |-> TRUE, empty |-> memory[17].empty]
        BY <3>1, <3>2, KeptIs DEF ExNihiloProcess
      <4> QED
        BY <3>2, <4>1
    <3>3. CASE o.kind = "EmptyCommit"
      <4>1. memory'[17] = [root |-> memory[17].root, empty |-> TRUE]
        BY <3>1, <3>3, KeptIs DEF ExNihiloProcess
      <4> QED
        BY <3>3, <4>1
    <3>4. CASE ~(o.kind = "ParentCount" /\ o.value = 0) /\ o.kind # "EmptyCommit"
      <4>1. memory'[17] = memory[17]
        BY <3>1, <3>4, KeptIs DEF ExNihiloProcess
      <4> QED
        BY <3>4, <4>1
    <3> QED
      BY <3>2, <3>3, <3>4
  <2>4. /\ memory'[17].root  <=> \E p \in Told' : p.kind = "ParentCount" /\ p.value = 0
        /\ memory'[17].empty <=> \E p \in Told' : p.kind = "EmptyCommit"
    BY <1>1, <2>2, <2>3
  <2> QED
    BY <1>3, <2>4 DEF HeldMatches
<1>4. CASE r # 17
  <2>1. r \in Stateless
    BY <1>4 DEF OneShotRules
  <2>2. IF \E p \in Told : Wants(r, p) THEN Held(r) # <<>> /\ Held(r)[1].commit = at
        ELSE Held(r) = <<>>
    BY <1>4 DEF HeldMatches
  <2>3. /\ P.out \in OneOf(r)
        /\ Wants(r, o) => o.kind \in Consumes(r) /\ P.out # <<>> /\ P.out[1].commit = at
        /\ ~Wants(r, o) => P.out = <<>>
    BY <1>2, <2>1, StatelessProcess
  <2>4. Held(r) \in Seq(GrantBy(r)) /\ (Held(r) # <<>> => o.kind \notin Consumes(r))
    BY GrantsType DEF HeldOnce
  <2>5. Held(r)' = Held(r) \o P.out
    BY <1>2
  <2> HIDE DEF P
  <2>6. SUFFICES IF \E p \in Told' : Wants(r, p) THEN Held(r)' # <<>> /\ Held(r)'[1].commit = at
                 ELSE Held(r)' = <<>>
    BY <1>1, <1>4 DEF HeldMatches
  <2>7. CASE Wants(r, o)
    <3>1. Held(r) = <<>> /\ P.out \in Seq(GrantBy(r))
      BY <2>3, <2>4, <2>7, OneOfProperties
    <3>2. Held(r)' = P.out
      BY <2>5, <3>1, ConcatEmptySeq
    <3> QED
      BY <1>1, <2>3, <2>7, <3>2
  <2>8. CASE ~Wants(r, o)
    <3>1. Held(r)' = Held(r)
      BY <2>3, <2>4, <2>5, <2>8, ConcatEmptySeq
    <3>2. (\E p \in Told' : Wants(r, p)) <=> \E p \in Told : Wants(r, p)
      BY <1>1, <2>8
    <3> QED
      BY <2>2, <3>1, <3>2
  <2> QED
    BY <2>7, <2>8
<1> QED
  BY <1>3, <1>4

LEMMA GrantsNone ==
  ASSUME granted = <<>>
  PROVE  \A r : GrantsOf(r) = <<>>
<1> DEFINE t == [i \in DOMAIN granted |-> granted[i][1]]
<1>1. DOMAIN t = {}
  OBVIOUS
<1> HIDE DEF t
<1>2. \A r : {i \in DOMAIN t : t[i].rule = r} = {}
  BY <1>1
<1>3. \A r : OfRule(t, r) = <<>>
  BY <1>2, PartNone DEF OfRule
<1> QED
  BY <1>3 DEF GrantsOf, t

(* Every step but the end of a commit and of a run grants nothing.         *)
LEMMA NothingGranted ==
  ASSUME TypeOK, UNCHANGED <<enabled, granted>>
  PROVE  \A r : GrantsOf(r)' = GrantsOf(r)
BY DEF GrantsOf

LEMMA OneShotsInit == Init => OneShots
<1> SUFFICES ASSUME Init, NEW r \in enabled \cap OneShotRules
             PROVE  GrantsMatch(r) /\ HeldMatches(r)
  BY DEF OneShots, OneShotRules
<1>1. TypeOK /\ phase = "idle" /\ pending = <<>> /\ granted = <<>> /\ ends = {}
  BY TypeInit DEF Init
<1>2. GrantsOf(r) = <<>> /\ Held(r) = <<>>
  BY <1>1, GrantsNone, HeldNothing
<1>3. Met = {} /\ Told = {}
  <2>1. Len(history) = 0
    BY EmptySeq DEF Init
  <2> QED
    BY <1>1, <2>1, MetType DEF Told
<1>4. GrantsMatch(r)
  BY <1>2, <1>3 DEF GrantsMatch
<1>5. HeldMatches(r)
  BY <1>1, <1>2, <1>3 DEF HeldMatches
<1> QED
  BY <1>4, <1>5

LEMMA OneShotsStep ==
  ASSUME TypeOK, HeldOnce, OneShots, [Next]_vars
  PROVE  OneShots'
<1>1. /\ \A r \in enabled \cap OneShotRules : GrantsMatch(r) /\ HeldMatches(r)
      /\ \A r \in enabled : r \in AllRules /\ memory[r] \in Memory(r)
  BY TypeFacts DEF OneShots, OneShotRules, TypeOK
<1>2. ASSUME enabled' = enabled,
             \A r \in enabled \cap OneShotRules : GrantsMatch(r)' /\ HeldMatches(r)'
      PROVE  OneShots'
  BY <1>2 DEF OneShots, OneShotRules
<1>3. ASSUME NEW f \in Facts[enabled], Push(f) PROVE OneShots'
  <2>1. /\ UNCHANGED <<enabled, granted>> /\ pending' = <<>> /\ phase' = "idle"
    BY <1>3 DEF Push, TypeOK
  <2>2. \A r : GrantsOf(r)' = GrantsOf(r)
    BY <2>1, NothingGranted
  <2>3. Met' = Met /\ Told' = {} /\ \A c \in Met : history'[c] = history[c]
    BY <1>3, PushMet
  <2>4. \A r \in enabled \cap OneShotRules : GrantsMatch(r)' /\ HeldMatches(r)'
    BY <1>1, <2>1, <2>2, <2>3, GrantsMatchSame, HeldMatchesNew
  <2> QED
    BY <1>2, <2>1, <2>4
<1>4. CASE InitCaches
  <2>1. UNCHANGED <<enabled, granted, history>> /\ pending' = <<>> /\ phase' = "walk"
    BY <1>4 DEF InitCaches, TypeOK
  <2>2. \A r : GrantsOf(r)' = GrantsOf(r)
    BY <2>1, NothingGranted
  <2>3. Met' = Met /\ Told' = {}
    BY <1>4, InitCachesMet
  <2>4. \A r \in enabled \cap OneShotRules : GrantsMatch(r)' /\ HeldMatches(r)'
    BY <1>1, <2>1, <2>2, <2>3, GrantsMatchSame, HeldMatchesNew
  <2> QED
    BY <1>2, <2>1, <2>4
<1>5. CASE OnCommitStart
  <2>1. UNCHANGED <<enabled, granted, history>> /\ pending' = <<>>
    BY <1>5 DEF OnCommitStart, TypeOK
  <2>2. \A r : GrantsOf(r)' = GrantsOf(r)
    BY <2>1, NothingGranted
  <2>3. Met' = Met /\ Told' = {}
    BY <1>5, OnCommitStartMet
  <2>4. 17 \in enabled => memory'[17] = [root |-> FALSE, empty |-> FALSE]
    BY <1>5 DEF OnCommitStart, CommitStarted
  <2>5. \A r \in enabled \cap OneShotRules : GrantsMatch(r)' /\ HeldMatches(r)'
    BY <1>1, <2>1, <2>2, <2>3, <2>4, GrantsMatchSame, HeldMatchesNew
  <2> QED
    BY <1>2, <2>1, <2>5
<1>6. ASSUME NEW o \in todo, OnObservation(o) PROVE OneShots'
  <2>1. UNCHANGED <<enabled, granted, history>>
    BY <1>6 DEF OnObservation
  <2>2. \A r : GrantsOf(r)' = GrantsOf(r)
    BY <2>1, NothingGranted
  <2>3. Met' = Met
    BY <1>6, OnObservationMet
  <2>4. \A r \in enabled \cap OneShotRules : GrantsMatch(r)'
    BY <1>1, <2>1, <2>2, <2>3, GrantsMatchSame
  <2>5. \A r \in enabled \cap OneShotRules : HeldMatches(r)'
    BY <1>1, <1>6, HeldMatchesObservation
  <2> QED
    BY <1>2, <2>1, <2>4, <2>5
<1>7. CASE OnCommitComplete
  <2>1. enabled' = enabled /\ pending' = <<>> /\ phase' = "walk"
    BY <1>7 DEF OnCommitComplete, CollectPending
  <2>2. Told' = {}
    BY <1>7, OnCommitCompleteMet
  <2>3. \A r \in enabled \cap OneShotRules : GrantsMatch(r)'
    BY <1>7, GrantsMatchComplete
  <2>4. \A r \in enabled \cap OneShotRules : HeldMatches(r)'
    BY <2>1, <2>2, HeldMatchesNew
  <2> QED
    BY <1>2, <2>1, <2>3, <2>4
<1>8. CASE Finalize
  <2>1. enabled' = enabled /\ history' = history /\ pending' = <<>> /\ phase' = "idle"
    BY <1>8, FinalizeView DEF Finalize
  <2>2. Met' = Met /\ Told' = {}
    BY <1>8, FinalizeMet
  <2>3. ASSUME NEW r \in enabled \cap OneShotRules PROVE GrantsOf(r)' = GrantsOf(r)
    <3>1. GrantsOf(r)' = GrantsOf(r) \o Finalized(r, memory[r]).out
      BY <1>8, FinalizeView
    <3>2. Finalized(r, memory[r]).out = <<>>
      BY KeptIs DEF Finalized, OneShotRules, Stateless
    <3>3. GrantsOf(r) \in Seq(GrantBy(r))
      BY GrantsType
    <3> QED
      BY <3>1, <3>2, <3>3, ConcatEmptySeq
  <2>4. \A r \in enabled \cap OneShotRules : GrantsMatch(r)' /\ HeldMatches(r)'
    BY <1>1, <2>1, <2>2, <2>3, GrantsMatchSame, HeldMatchesNew
  <2> QED
    BY <1>2, <2>1, <2>4
<1>9. CASE UNCHANGED vars
  <2>1. /\ UNCHANGED <<enabled, history, phase, at, memory>>
        /\ Met' = Met /\ Told' = Told
        /\ \A r : GrantsOf(r)' = GrantsOf(r) /\ Held(r)' = Held(r)
    BY <1>9, StutterMet DEF vars
  <2>2. \A r \in enabled \cap OneShotRules : GrantsMatch(r)'
    BY <1>1, <2>1, GrantsMatchSame
  <2>3. ASSUME NEW r, HeldMatches(r) PROVE HeldMatches(r)'
    <3> HIDE DEF Held, Told
    <3> QED
      BY <2>1, <2>3 DEF HeldMatches
  <2> QED
    BY <1>1, <1>2, <2>1, <2>2, <2>3
<1> QED
  BY <1>3, <1>4, <1>5, <1>6, <1>7, <1>8, <1>9 DEF Next

-----------------------------------------------------------------------------
(***************************************************************************)
(* The first to swear, and the first to add CI.                            *)
(***************************************************************************)
LEMMA DidIs ==
  ASSUME NEW r \in enabled \cap {7, 14}, NEW f \in Fact
  PROVE  Did(r, f) <=> \E o \in Observed(f) : o.kind \in Consumes(r)
<1>1. CASE r = 7
  <2>1. Consumes(r) = {"Profanity"}
    BY <1>1 DEF Consumes
  <2>2. Did(r, f) => \E o \in Observed(f) : o.kind = "Profanity"
    BY <1>1, <2>1, ToldOf DEF Did
  <2>3. \A o \in Observed(f) : o.kind = "Profanity" => Did(r, f)
    BY <1>1, ObservedOf DEF Did
  <2> QED
    BY <2>1, <2>2, <2>3
<1>2. CASE r = 14
  <2>1. Consumes(r) = {"CiConfig"} /\ "CiConfig" \in Kinds
    BY <1>2 DEF Consumes, Kinds
  <2>2. Did(r, f) <=> "CiConfig" \in f.kinds
    BY <1>2 DEF Did
  <2>3. Did(r, f) => \E o \in Observed(f) : o.kind = "CiConfig"
    <3>1. \A k \in f.kinds \cap Consumes(r) : [kind |-> k, value |-> 0] \in Observed(f)
      BY ToldOf
    <3>2. Did(r, f) => [kind |-> "CiConfig", value |-> 0] \in Observed(f)
      BY <2>1, <2>2, <3>1, Zenon
    <3> QED
      BY <3>2
  <2>4. \A o \in Observed(f) : o.kind = "CiConfig" => Did(r, f)
    <3>1. \A o \in Observed(f) : o.kind \in Kinds => o.kind \in f.kinds
      BY ObservedOf
    <3> QED
      BY <2>1, <2>2, <3>1
  <2> QED
    BY <2>1, <2>3, <2>4
<1> QED
  BY <1>1, <1>2

LEMMA FirstProcess ==
  ASSUME NEW r \in {7, 14}, NEW m \in FirstMemory(r), NEW c, NEW u, NEW o
  PROVE  Process(r, m, c, u, o).m =
           IF m.settled = NullCommit /\ o.kind \in Consumes(r)
           THEN [settled |-> m.settled, earliest |-> <<GrantOf(r, c, u, 0)>>]
           ELSE m
<1>1. m = [settled |-> m.settled, earliest |-> m.earliest]
  BY DEF FirstMemory
<1>2. [m EXCEPT !.earliest = <<GrantOf(r, c, u, 0)>>]
        = [settled |-> m.settled, earliest |-> <<GrantOf(r, c, u, 0)>>]
  BY <1>1
<1>3. CASE r = 7
  BY <1>2, <1>3, KeptIs DEF Process, FirstProfanityProcess, Consumes
<1>4. CASE r = 14
  BY <1>2, <1>4, KeptIs DEF Process, AddedFirstCiProcess, Consumes
<1> QED
  BY <1>3, <1>4

\* What holds of the rules concerned when Firsts does.
LEMMA FirstsFacts ==
  ASSUME TypeOK, HeldOnce, Firsts, NEW r \in enabled \cap {7, 14}
  PROVE  /\ r \in enabled /\ r \in AllRules /\ r \in {7, 14}
         /\ FirstsSettled(r) /\ FirstsHeard(r)
         /\ memory[r] \in FirstMemory(r) /\ cache[r] \in Nat
         /\ Held(r) = <<>> /\ GrantsOf(r) \in Seq(GrantBy(r))
<1>1. memory[r] \in FirstMemory(r) /\ cache[r] \in Nat
  BY MemoryIs DEF TypeOK
<1>2. Held(r) = <<>>
  BY DEF HeldOnce, Prompt, Stateless
<1> QED
  BY <1>1, <1>2, TypeFacts, GrantsType DEF Firsts

LEMMA FirstsSettledSame ==
  ASSUME NEW r, FirstsSettled(r), Seen' = Seen, cache'[r] = cache[r],
         GrantsOf(r)' = GrantsOf(r), \A c \in Seen : history'[c] = history[c]
  PROVE  FirstsSettled(r)'
<1> HIDE DEF Seen, GrantsOf
<1>1. CASE Nobody(r, Seen) /\ cache[r] = NullCommit /\ GrantsOf(r) = <<>>
  BY <1>1 DEF FirstsSettled, Nobody
<1>2. CASE FirstOfAll(r, Seen, cache[r]) /\ GrantsOf(r) = FirstBy(r, cache[r])
  <2>1. cache[r] \in Seen
    BY <1>2 DEF FirstOfAll
  <2> QED
    BY <1>2, <2>1 DEF FirstsSettled, FirstOfAll, FirstBy
<1> QED
  BY <1>1, <1>2 DEF FirstsSettled

LEMMA HeardSame ==
  ASSUME InRun' = InRun, at' = at, Told' = Told
  PROVE  \A r : HeardInRun(r)' = HeardInRun(r)
BY DEF HeardInRun

LEMMA FirstsHeardSame ==
  ASSUME NEW r, FirstsHeard(r), phase # "idle", HeardInRun(r)' = HeardInRun(r),
         memory'[r] = memory[r], cache'[r] = cache[r], history' = history
  PROVE  FirstsHeard(r)'
<1> HIDE DEF HeardInRun
<1> QED
  BY DEF FirstsHeard, Nobody, FirstOfAll, FirstBy

LEMMA FirstsHeardObservation ==
  ASSUME TypeOK, HeldOnce, Firsts, NEW r \in enabled \cap {7, 14},
         NEW o \in todo, OnObservation(o)
  PROVE  FirstsHeard(r)'
<1> DEFINE u == history[at].author
           m == memory[r]
<1>1. /\ phase = "commit" /\ cache' = cache /\ history' = history /\ enabled' = enabled
      /\ at' = at /\ Told' = Told \cup {o} /\ InRun' = InRun
  BY OnObservationMet DEF OnObservation
<1>2. /\ o \in Observed(history[at]) /\ at \in 1..Len(history) /\ history[at] \in Fact
      /\ memory'[r] = Process(r, m, at, u, o).m
  BY ObservationView, TypeFacts
<1>3. m \in FirstMemory(r) /\ FirstsHeard(r) /\ r \in {7, 14}
  BY FirstsFacts
<1> HIDE DEF u, m
<1>4. memory'[r] = IF m.settled = NullCommit /\ o.kind \in Consumes(r)
                   THEN [settled |-> m.settled, earliest |-> <<GrantOf(r, at, u, 0)>>]
                   ELSE m
  BY <1>2, <1>3, FirstProcess
<1> USE DEF u, m
<1>5. CASE o.kind \notin Consumes(r)
  <2>1. memory'[r] = m
    BY <1>4, <1>5
  <2>2. HeardInRun(r)' = HeardInRun(r)
    BY <1>1, <1>5 DEF HeardInRun
  <2> QED
    BY <1>1, <1>3, <2>1, <2>2, FirstsHeardSame
<1>6. CASE o.kind \in Consumes(r)
  <2>1. m.settled = cache[r]
    BY <1>1, <1>3 DEF FirstsHeard
  <2>2. HeardInRun(r)' = InRun \cup {at}
    BY <1>1, <1>6 DEF HeardInRun
  <2>3. Did(r, history[at])
    BY <1>2, <1>6, DidIs
  <2>4. FirstOfAll(r, InRun \cup {at}, at)
    <3>1. \A c \in InRun \cup {at} : at <= c
      <4>1. at \in Nat /\ \A c \in InRun : c \in Nat /\ at < c
        BY <1>2, MetType, TypeFacts
      <4> QED
        BY <4>1
    <3> QED
      BY <2>3, <3>1 DEF FirstOfAll
  <2>5. CASE cache[r] = NullCommit
    <3>1. memory'[r].settled = cache[r] /\ memory'[r].earliest = FirstBy(r, at)
      BY <1>4, <1>6, <2>1, <2>5 DEF FirstBy
    <3> HIDE DEF HeardInRun
    <3> QED
      BY <1>1, <2>2, <2>4, <3>1 DEF FirstsHeard, FirstOfAll, FirstBy
  <2>6. CASE cache[r] # NullCommit
    <3>1. memory'[r] = m
      BY <1>4, <2>1, <2>6
    <3> QED
      BY <1>1, <2>1, <2>6, <3>1 DEF FirstsHeard
  <2> QED
    BY <2>5, <2>6
<1> QED
  BY <1>5, <1>6

LEMMA FirstsHeardComplete ==
  ASSUME TypeOK, HeldOnce, Firsts, NEW r \in enabled \cap {7, 14}, OnCommitComplete
  PROVE  FirstsHeard(r)'
<1>1. /\ phase = "commit" /\ UNCHANGED <<enabled, cache, history, memory>>
      /\ InRun' = InRun \cup {at} /\ Told = Observed(history[at]) /\ Told' = {}
  BY OnCommitCompleteMet DEF OnCommitComplete
<1>2. history[at] \in Fact
  BY CompleteView, TypeFacts
<1>3. FirstsHeard(r)
  BY FirstsFacts
<1>4. HeardInRun(r)' = InRun \cup {at}
  BY <1>1 DEF HeardInRun
<1>5. CASE Did(r, history[at])
  <2>1. HeardInRun(r)' = HeardInRun(r)
    BY <1>1, <1>2, <1>4, <1>5, DidIs DEF HeardInRun
  <2> QED
    BY <1>1, <1>3, <2>1, FirstsHeardSame
<1>6. CASE ~Did(r, history[at])
  <2>1. HeardInRun(r) = InRun
    BY <1>1, <1>2, <1>6, DidIs DEF HeardInRun
  <2>2. Nobody(r, InRun) => Nobody(r, InRun \cup {at})
    BY <1>6 DEF Nobody
  <2>3. \A c \in InRun : FirstOfAll(r, InRun, c) => FirstOfAll(r, InRun \cup {at}, c)
    BY <1>6 DEF FirstOfAll
  <2> HIDE DEF HeardInRun
  <2>4. /\ memory[r].settled = cache[r]
        /\ cache[r] = NullCommit =>
             \/ Nobody(r, InRun \cup {at}) /\ memory[r].earliest = <<>>
             \/ \E c \in InRun \cup {at} :
                  FirstOfAll(r, InRun \cup {at}, c) /\ memory[r].earliest = FirstBy(r, c)
    BY <1>1, <1>3, <2>1, <2>2, <2>3 DEF FirstsHeard
  <2> QED
    BY <1>1, <1>4, <2>4 DEF FirstsHeard, Nobody, FirstOfAll, FirstBy
<1> QED
  BY <1>5, <1>6

LEMMA FirstsHeardStart ==
  ASSUME TypeOK, HeldOnce, Firsts, NEW r \in enabled \cap {7, 14}, InitCaches
  PROVE  FirstsHeard(r)'
<1>1. /\ InRun' = {} /\ Told' = {} /\ cache' = cache
      /\ memory'[r] = InitCache(r, cache[r])
  BY InitCachesMet DEF InitCaches
<1>2. HeardInRun(r)' = {}
  BY <1>1 DEF HeardInRun
<1>3. memory'[r] = [settled |-> cache[r], earliest |-> <<>>]
  BY <1>1 DEF InitCache
<1> HIDE DEF HeardInRun
<1> QED
  BY <1>1, <1>2, <1>3 DEF FirstsHeard, Nobody

(* At the end of a run the rule settles on the earliest it found, unless   *)
(* an earlier run has settled.                                             *)
LEMMA FirstsSettledFinalize ==
  ASSUME TypeOK, HeldOnce, Firsts, NEW r \in enabled \cap {7, 14}, Finalize
  PROVE  FirstsSettled(r)'
<1> DEFINE m == memory[r]
           F == Finalized(r, m)
<1>1. /\ r \in {7, 14} /\ FirstsSettled(r) /\ FirstsHeard(r) /\ m \in FirstMemory(r)
      /\ cache[r] \in Nat /\ GrantsOf(r) \in Seq(GrantBy(r))
  BY FirstsFacts
<1>2. /\ phase = "walk" /\ history' = history /\ Seen' = Met /\ Told = {}
  BY FinalizeMet DEF Finalize
<1>3. /\ memory'[r] = F.m /\ cache'[r] = FiniCache(r, memory'[r])
      /\ GrantsOf(r)' = GrantsOf(r) \o F.out
  BY FinalizeView
<1>4. FiniCache(r, memory'[r]) = memory'[r].settled /\ F = SettleFirst(m)
  BY <1>1 DEF FiniCache, Finalized
<1>5. HeardInRun(r) = InRun /\ Met = Seen \cup InRun
  BY <1>2 DEF HeardInRun, Met
<1>6. /\ \A c \in Seen : c \in Nat /\ c # 0
      /\ \A c \in Seen : \A d \in InRun : c < d
  <2>1. /\ Seen \subseteq 1..Len(history) /\ InRun \subseteq 1..Len(history)
        /\ \A c \in InRun : processed < c
        /\ \A c \in Seen : c <= processed
        /\ Len(history) \in Nat /\ processed \in Nat
    BY MetType, TypeFacts
  <2> QED
    BY <2>1
<1>7. m.settled = cache[r]
  BY <1>1, <1>2 DEF FirstsHeard
<1> HIDE DEF m, F, HeardInRun
<1>8. CASE cache[r] # NullCommit
  <2>1. FirstOfAll(r, Seen, cache[r]) /\ GrantsOf(r) = FirstBy(r, cache[r])
    BY <1>1, <1>8 DEF FirstsSettled
  <2>2. F.m = m /\ F.out = <<>>
    BY <1>4, <1>7, <1>8, KeptIs DEF SettleFirst
  <2>3. cache'[r] = cache[r] /\ GrantsOf(r)' = GrantsOf(r)
    BY <1>1, <1>3, <1>4, <1>7, <2>2, ConcatEmptySeq
  <2>4. FirstOfAll(r, Seen \cup InRun, cache[r])
    <3>1. \A d \in InRun : cache[r] <= d
      <4>1. \A d \in InRun : d \in Nat /\ cache[r] < d
        BY <1>6, <2>1, MetType, TypeFacts DEF FirstOfAll
      <4> QED
        BY <1>1, <4>1
    <3> QED
      BY <2>1, <3>1 DEF FirstOfAll
  <2> QED
    BY <1>2, <1>5, <2>1, <2>3, <2>4 DEF FirstsSettled, FirstOfAll, FirstBy
<1>9. CASE cache[r] = NullCommit
  <2>1. Nobody(r, Seen) /\ GrantsOf(r) = <<>>
    BY <1>1, <1>6, <1>9 DEF FirstsSettled, FirstOfAll, NullCommit
  <2>2. CASE Nobody(r, InRun) /\ m.earliest = <<>>
    <3>1. F.m = m /\ F.out = <<>>
      BY <1>4, <2>2, KeptIs DEF SettleFirst
    <3>2. cache'[r] = NullCommit /\ GrantsOf(r)' = <<>>
      BY <1>1, <1>3, <1>4, <1>7, <1>9, <2>1, <3>1, ConcatEmptySeq
    <3> QED
      BY <1>2, <1>5, <2>1, <2>2, <3>2 DEF FirstsSettled, Nobody
  <2>3. ASSUME NEW c \in InRun, FirstOfAll(r, InRun, c), m.earliest = FirstBy(r, c)
        PROVE  FirstsSettled(r)'
    <3>1. c \in Nat /\ history[c].author \in Users
      <4>1. c \in 1..Len(history) /\ Len(history) \in Nat /\ history[c] \in Fact
        BY MetType, TypeFacts
      <4> QED
        BY <4>1 DEF Fact
    <3>2. /\ FirstBy(r, c) # <<>> /\ FirstBy(r, c)[1].commit = c
          /\ FirstBy(r, c) \in OneOf(r)
      BY <3>1, 0 \in Nat, GrantOfType DEF FirstBy
    <3>3. F = [m |-> [settled |-> FirstBy(r, c)[1].commit, earliest |-> <<>>],
               out |-> FirstBy(r, c)]
      BY <1>4, <1>7, <1>9, <2>3, <3>2 DEF SettleFirst
    <3>4. cache'[r] = c
      BY <1>3, <1>4, <3>2, <3>3
    <3>5. GrantsOf(r)' = FirstBy(r, c)
      <4>1. FirstBy(r, c) \in Seq(GrantBy(r))
        BY <3>2, OneOfProperties
      <4>2. GrantsOf(r)' = <<>> \o FirstBy(r, c)
        BY <1>3, <2>1, <3>3
      <4> QED
        BY <4>1, <4>2, ConcatEmptySeq
    <3>6. FirstOfAll(r, Seen \cup InRun, c)
      BY <2>1, <2>3 DEF FirstOfAll, Nobody
    <3> QED
      BY <1>2, <1>5, <3>4, <3>5, <3>6 DEF FirstsSettled, FirstOfAll, FirstBy
  <2> QED
    BY <1>1, <1>2, <1>5, <1>9, <2>2, <2>3 DEF FirstsHeard, m
<1> QED
  BY <1>8, <1>9

LEMMA FirstsInit == Init => Firsts
<1> SUFFICES ASSUME Init, NEW r \in enabled \cap {7, 14}
             PROVE  FirstsSettled(r) /\ FirstsHeard(r)
  BY DEF Firsts
<1>1. TypeOK /\ phase = "idle" /\ granted = <<>> /\ cache[r] = NoCache(r)
  BY TypeInit DEF Init
<1>2. GrantsOf(r) = <<>> /\ cache[r] = NullCommit
  BY <1>1, GrantsNone DEF NoCache
<1>3. Seen = {}
  <2>1. Len(history) = 0
    BY EmptySeq DEF Init
  <2> QED
    BY <1>1, <2>1, MetType
<1> QED
  BY <1>1, <1>2, <1>3 DEF FirstsSettled, FirstsHeard, Nobody

LEMMA FirstsStep ==
  ASSUME TypeOK, HeldOnce, Firsts, [Next]_vars
  PROVE  Firsts'
<1> DEFINE R == enabled \cap {7, 14}
<1>1. \A r \in R : /\ FirstsSettled(r) /\ FirstsHeard(r)
                   /\ Held(r) = <<>> /\ GrantsOf(r) \in Seq(GrantBy(r))
  BY FirstsFacts
<1>2. ASSUME enabled' = enabled, \A r \in R : FirstsSettled(r)' /\ FirstsHeard(r)'
      PROVE  Firsts'
  BY <1>2 DEF Firsts
<1>3. ASSUME NEW f \in Facts[enabled], Push(f) PROVE Firsts'
  <2>1. UNCHANGED <<enabled, granted, cache>> /\ phase' = "idle"
    BY <1>3 DEF Push
  <2>2. /\ Seen' = Seen /\ \A c \in Seen : history'[c] = history[c]
        /\ \A r : GrantsOf(r)' = GrantsOf(r)
    BY <1>3, <2>1, PushMet, NothingGranted DEF Met
  <2>3. \A r \in R : FirstsSettled(r)' /\ FirstsHeard(r)'
    BY <1>1, <2>1, <2>2, FirstsSettledSame DEF FirstsHeard
  <2> QED
    BY <1>2, <2>1, <2>3
<1>4. CASE InitCaches
  <2>1. UNCHANGED <<enabled, granted, cache, history>>
    BY <1>4 DEF InitCaches
  <2>2. Seen' = Seen /\ \A r : GrantsOf(r)' = GrantsOf(r)
    BY <1>4, <2>1, InitCachesMet, NothingGranted
  <2>3. \A r \in R : FirstsSettled(r)' /\ FirstsHeard(r)'
    BY <1>1, <1>4, <2>1, <2>2, FirstsSettledSame, FirstsHeardStart
  <2> QED
    BY <1>2, <2>1, <2>3
<1>5. CASE OnCommitStart
  <2>1. UNCHANGED <<enabled, granted, cache, history>> /\ phase = "walk"
    BY <1>5 DEF OnCommitStart
  <2>2. /\ Seen' = Seen /\ \A r : GrantsOf(r)' = GrantsOf(r)
        /\ \A r : HeardInRun(r)' = HeardInRun(r)
    BY <1>5, <2>1, OnCommitStartMet, NothingGranted, HeardSame
  <2>3. \A r \in R : memory'[r] = memory[r]
    BY <1>5 DEF OnCommitStart, CommitStarted
  <2>4. \A r \in R : FirstsSettled(r)' /\ FirstsHeard(r)'
    BY <1>1, <2>1, <2>2, <2>3, FirstsSettledSame, FirstsHeardSame
  <2> QED
    BY <1>2, <2>1, <2>4
<1>6. ASSUME NEW o \in todo, OnObservation(o) PROVE Firsts'
  <2>1. UNCHANGED <<enabled, granted, cache, history>>
    BY <1>6 DEF OnObservation
  <2>2. Seen' = Seen /\ \A r : GrantsOf(r)' = GrantsOf(r)
    BY <1>6, <2>1, OnObservationMet, NothingGranted
  <2>3. \A r \in R : FirstsSettled(r)' /\ FirstsHeard(r)'
    BY <1>1, <1>6, <2>1, <2>2, FirstsSettledSame, FirstsHeardObservation
  <2> QED
    BY <1>2, <2>1, <2>3
<1>7. CASE OnCommitComplete
  <2>1. UNCHANGED <<enabled, cache, history>>
    BY <1>7 DEF OnCommitComplete
  <2>2. PICK outputs \in Seq(AnyGrant) :
          /\ CollectPending(outputs)
          /\ \A r \in enabled : OfRule(outputs, r) = IF r = 17
               THEN CommitCompleted(r, memory[r], at, history[at].author) ELSE Held(r)
    BY <1>7, CompleteOnce
  <2>3. \A r \in R : GrantsOf(r)' = GrantsOf(r) \o <<>>
    <3>1. \A r \in enabled : GrantsOf(r)' = GrantsOf(r) \o OfRule(outputs, r)
      BY <2>2, CollectAdds
    <3>2. \A r \in R : r \in enabled /\ OfRule(outputs, r) = <<>>
      BY <1>1, <2>2
    <3> QED
      BY <3>1, <3>2
  <2>4. Seen' = Seen /\ \A r \in R : GrantsOf(r)' = GrantsOf(r)
    BY <1>1, <1>7, <2>3, ConcatEmptySeq, OnCommitCompleteMet
  <2>5. \A r \in R : FirstsSettled(r)' /\ FirstsHeard(r)'
    BY <1>1, <1>7, <2>1, <2>4, FirstsSettledSame, FirstsHeardComplete
  <2> QED
    BY <1>2, <2>1, <2>5
<1>8. CASE Finalize
  <2>1. enabled' = enabled /\ phase' = "idle"
    BY <1>8 DEF Finalize
  <2>2. \A r \in R : FirstsSettled(r)' /\ FirstsHeard(r)'
    BY <1>8, <2>1, FirstsSettledFinalize DEF FirstsHeard
  <2> QED
    BY <1>2, <2>1, <2>2
<1>9. CASE UNCHANGED vars
  <2>1. UNCHANGED <<enabled, cache, history, phase, at, memory>>
    BY <1>9 DEF vars
  <2>2. /\ Seen' = Seen /\ \A r : GrantsOf(r)' = GrantsOf(r)
        /\ \A r : HeardInRun(r)' = HeardInRun(r)
    BY <1>9, <2>1, StutterMet, HeardSame
  <2>3. \A r \in R : FirstsSettled(r)' /\ FirstsHeard(r)'
    BY <1>1, <2>1, <2>2, FirstsSettledSame, FirstsHeardSame DEF FirstsHeard
  <2> QED
    BY <1>2, <2>1, <2>3
<1> QED
  BY <1>3, <1>4, <1>5, <1>6, <1>7, <1>8, <1>9 DEF Next

-----------------------------------------------------------------------------
(***************************************************************************)
(* The shortest and the longest subject.                                   *)
(***************************************************************************)
LEMMA BeatsOrder ==
  ASSUME NEW r \in {2, 3}, NEW a \in Nat, NEW b \in Nat, NEW c \in Nat
  PROVE  /\ ~Beats(r, a, a)
         /\ Beats(r, a, b) /\ Beats(r, b, c) => Beats(r, a, c)
         /\ ~Beats(r, a, b) /\ Beats(r, c, b) => ~Beats(r, a, c)
         /\ ~Worthy(r, a) /\ Worthy(r, b) => ~Beats(r, a, b)
BY RuleThresholdsAssumption DEF Beats, Worthy

LEMMA LengthsAre ==
  ASSUME TypeOK
  PROVE  /\ \A c \in 1..Len(history) : LengthOf(c) \in Nat
         /\ \A c \in Met : LengthOf(c) \in Nat
         /\ \A r : HeardInRun(r) \subseteq InRun \cup {at}
         /\ NoLength \notin Nat
<1>1. \A c \in 1..Len(history) : history[c].length \in Nat
  BY TypeFacts DEF Fact
<1> QED
  BY <1>1, MetType DEF LengthOf, HeardInRun, NoLength

\* What a rule has heard of when it hears of commit x too.
LEMMA BestKept ==
  ASSUME NEW r \in {2, 3}, NEW S, NEW x, NEW b, Best(r, S, b),
         \A c \in S \cup {x} : LengthOf(c) \in Nat,
         ~Worthy(r, LengthOf(x)) \/ (b # NoLength /\ ~Beats(r, LengthOf(x), b))
  PROVE  Best(r, S \cup {x}, b)
<1>1. CASE b = NoLength /\ \A c \in S : ~Worthy(r, LengthOf(c))
  BY <1>1 DEF Best
<1>2. CASE b \in Nat /\ Worthy(r, b) /\ \A c \in S : ~Beats(r, LengthOf(c), b)
  <2>1. ~Beats(r, LengthOf(x), b)
    BY <1>2, BeatsOrder
  <2>2. \E c \in S : LengthOf(c) = b
    BY <1>2 DEF Best, NoLength
  <2> QED
    BY <1>2, <2>1, <2>2 DEF Best
<1> QED
  BY <1>1, <1>2 DEF Best

LEMMA BestTaken ==
  ASSUME NEW r \in {2, 3}, NEW S, NEW x, NEW b, Best(r, S, b),
         \A c \in S \cup {x} : LengthOf(c) \in Nat,
         Worthy(r, LengthOf(x)), b = NoLength \/ Beats(r, LengthOf(x), b)
  PROVE  Best(r, S \cup {x}, LengthOf(x))
<1> DEFINE l == LengthOf(x)
<1>1. l \in Nat /\ ~Beats(r, l, l)
  BY BeatsOrder
<1>2. ASSUME NEW c \in S PROVE ~Beats(r, LengthOf(c), l)
  <2>1. LengthOf(c) \in Nat
    OBVIOUS
  <2>2. CASE b = NoLength
    <3>1. ~Worthy(r, LengthOf(c))
      BY <2>2 DEF Best, NoLength
    <3> QED
      BY <1>1, <2>1, <3>1, BeatsOrder
  <2>3. CASE b # NoLength
    <3>1. b \in Nat /\ ~Beats(r, LengthOf(c), b)
      BY <2>3 DEF Best
    <3> QED
      BY <1>1, <2>1, <2>3, <3>1, BeatsOrder
  <2> QED
    BY <2>2, <2>3
<1> QED
  BY <1>1, <1>2 DEF Best

LEMMA RecordProcess ==
  ASSUME NEW r \in {2, 3}, NEW m, m.best \in Lengths, NEW c, NEW u, NEW o \in Observation
  PROVE  Process(r, m, c, u, o).m =
           IF \/ o.kind \notin Consumes(r) \/ ~Worthy(r, o.value.length)
              \/ (m.best # NoLength /\ ~Beats(r, o.value.length, m.best))
           THEN m
           ELSE [best |-> o.value.length, candidate |-> <<GrantOf(r, c, u, 0)>>]
<1>1. Consumes(r) = {"Subject"}
  BY DEF Consumes
<1>2. ASSUME NEW l \in Nat
      PROVE  /\ Worthy(2, l) <=> ~(l >= ShortThreshold)
             /\ Worthy(3, l) <=> ~(l <= LongThreshold)
             /\ m.best # NoLength => /\ Beats(2, l, m.best) <=> ~(l >= m.best)
                                     /\ Beats(3, l, m.best) <=> ~(l <= m.best)
  BY RuleThresholdsAssumption DEF Worthy, Beats, Lengths
<1>3. o.kind = "Subject" => o.value.length \in Nat
  BY DEF Observation, Kinds
<1>4. CASE o.kind # "Subject"
  BY <1>1, <1>4, KeptIs DEF Process, ShortestSubjectProcess, LongestSubjectProcess
<1>5. CASE o.kind = "Subject" /\ r = 2
  BY <1>1, <1>2, <1>3, <1>5, KeptIs DEF Process, ShortestSubjectProcess
<1>6. CASE o.kind = "Subject" /\ r = 3
  BY <1>1, <1>2, <1>3, <1>6, KeptIs DEF Process, LongestSubjectProcess
<1> QED
  BY <1>4, <1>5, <1>6

LEMMA RecordsFacts ==
  ASSUME TypeOK, HeldOnce, Records, NEW r \in enabled \cap {2, 3}
  PROVE  /\ r \in enabled /\ r \in AllRules /\ r \in {2, 3}
         /\ RecordsSettled(r) /\ RecordsHeard(r)
         /\ memory[r] \in RecordMemory(r) /\ cache[r] \in Lengths
         /\ Held(r) = <<>> /\ GrantsOf(r) \in Seq(GrantBy(r))
<1>1. memory[r] \in RecordMemory(r) /\ cache[r] \in Lengths
  BY MemoryIs DEF TypeOK
<1>2. Held(r) = <<>>
  BY DEF HeldOnce, Prompt, Stateless
<1> QED
  BY <1>1, <1>2, TypeFacts, GrantsType DEF Records

LEMMA RecordsSettledSame ==
  ASSUME NEW r, RecordsSettled(r), GrantsOf(r) \in Seq(GrantBy(r)),
         Seen' = Seen, cache'[r] = cache[r],
         GrantsOf(r)' = GrantsOf(r), \A c \in Seen : history'[c] = history[c]
  PROVE  RecordsSettled(r)'
<1> DEFINE own == GrantsOf(r)
<1>1. \A c \in Seen : LengthOf(c)' = LengthOf(c)
  BY DEF LengthOf
<1>2. Best(r, Seen, cache[r]) /\ Holders(r, own)
  BY DEF RecordsSettled
<1>3. Best(r, Seen, cache[r])'
  <2> HIDE DEF Seen
  <2> QED
    BY <1>2 DEF Best, LengthOf
<1>4. /\ \A i \in DOMAIN own : own[i].commit \in Seen
      /\ own # <<>> => Len(own) \in DOMAIN own
  <2>1. own # <<>> => Len(own) \in DOMAIN own
    <3>1. own \in Seq(GrantBy(r)) /\ DOMAIN own = 1..Len(own) /\ Len(own) \in Nat
      BY LenProperties
    <3>2. own # <<>> => Len(own) # 0
      BY <3>1, EmptySeq
    <3> QED
      BY <3>1, <3>2
  <2> QED
    BY <1>2, <2>1 DEF Holders
<1>5. Holders(r, own)'
  <2> HIDE DEF Seen, own
  <2>1. /\ \A i \in DOMAIN own : own[i].commit \in Seen
        /\ IF own = <<>> THEN cache[r] = NoLength ELSE LengthOf(own[Len(own)].commit) = cache[r]
        /\ \A i, j \in DOMAIN own :
             i < j => Beats(r, LengthOf(own[j].commit), LengthOf(own[i].commit))
    BY <1>2 DEF Holders
  <2>2. \A i \in DOMAIN own : history'[own[i].commit] = history[own[i].commit]
    BY <1>4
  <2>3. own' = own
    BY DEF own
  <2> QED
    BY <1>4, <2>1, <2>2, <2>3 DEF Holders, LengthOf
<1> QED
  BY <1>3, <1>5 DEF RecordsSettled

LEMMA RecordsHeardSame ==
  ASSUME NEW r, RecordsHeard(r), phase # "idle", HeardInRun(r)' = HeardInRun(r), Seen' = Seen,
         memory'[r] = memory[r], cache'[r] = cache[r], history' = history
  PROVE  RecordsHeard(r)'
<1> HIDE DEF HeardInRun, Seen
<1> QED
  BY DEF RecordsHeard, Best, LengthOf

LEMMA RecordsHeardStart ==
  ASSUME TypeOK, HeldOnce, Records, NEW r \in enabled \cap {2, 3}, InitCaches
  PROVE  RecordsHeard(r)'
<1>1. /\ InRun' = {} /\ Told' = {} /\ Seen' = Seen /\ cache' = cache /\ history' = history
      /\ memory'[r] = InitCache(r, cache[r])
  BY InitCachesMet DEF InitCaches
<1>2. HeardInRun(r)' = {}
  BY <1>1 DEF HeardInRun
<1>3. memory'[r].best = cache[r] /\ memory'[r].candidate = <<>>
  BY <1>1 DEF InitCache
<1>4. Best(r, Seen, cache[r])
  BY RecordsFacts DEF RecordsSettled
<1> HIDE DEF HeardInRun, Seen
<1> QED
  BY <1>1, <1>2, <1>3, <1>4 DEF RecordsHeard, Best, LengthOf

LEMMA RecordsHeardObservation ==
  ASSUME TypeOK, HeldOnce, Records, NEW r \in enabled \cap {2, 3},
         NEW o \in todo, OnObservation(o)
  PROVE  RecordsHeard(r)'
<1> DEFINE u == history[at].author
           m == memory[r]
           l == LengthOf(at)
           S == Seen \cup HeardInRun(r)
<1>1. /\ phase = "commit" /\ cache' = cache /\ history' = history /\ enabled' = enabled
      /\ at' = at /\ Told' = Told \cup {o} /\ InRun' = InRun /\ Seen' = Seen
  BY OnObservationMet DEF OnObservation
<1>2. /\ o \in Observed(history[at]) /\ o \in Observation /\ at \in 1..Len(history)
      /\ history[at] \in Fact /\ memory'[r] = Process(r, m, at, u, o).m
  BY ObservationView, TypeFacts
<1>3. /\ m \in RecordMemory(r) /\ RecordsHeard(r) /\ r \in {2, 3}
      /\ Consumes(r) = {"Subject"}
  BY RecordsFacts DEF Consumes
<1>4. m.best \in Lengths
  BY <1>3 DEF RecordMemory
<1> HIDE DEF u, m
<1>5. memory'[r] =
        IF \/ o.kind \notin Consumes(r) \/ ~Worthy(r, o.value.length)
           \/ (m.best # NoLength /\ ~Beats(r, o.value.length, m.best))
        THEN m
        ELSE [best |-> o.value.length, candidate |-> <<GrantOf(r, at, u, 0)>>]
  BY <1>2, <1>3, <1>4, RecordProcess
<1>6. CASE o.kind \notin Consumes(r)
  <2>1. memory'[r] = memory[r]
    BY <1>5, <1>6 DEF m
  <2>2. HeardInRun(r)' = HeardInRun(r)
    BY <1>1, <1>6 DEF HeardInRun
  <2> QED
    BY <1>1, <1>3, <2>1, <2>2, RecordsHeardSame
<1>7. CASE o.kind \in Consumes(r)
  <2>1. o.value.length = l
    <3>1. o.kind = "Subject" => o.value = [length |-> history[at].length, topic |-> history[at].topic]
      BY <1>2, ObservedOf
    <3> QED
      BY <1>3, <1>7, <3>1 DEF LengthOf
  <2>2. HeardInRun(r)' = HeardInRun(r) \cup {at}
    BY <1>1, <1>7 DEF HeardInRun
  <2>3. \A c \in S \cup {at} : LengthOf(c) \in Nat
    <3>1. S \cup {at} \subseteq 1..Len(history)
      BY <1>2, LengthsAre, MetType
    <3> QED
      BY <3>1, LengthsAre
  <2>4. /\ Best(r, S, m.best)
        /\ IF m.candidate = <<>> THEN m.best = cache[r]
           ELSE /\ m.candidate[1].commit \in HeardInRun(r)
                /\ LengthOf(m.candidate[1].commit) = m.best
                /\ m.best \in Nat
                /\ cache[r] # NoLength => Beats(r, m.best, cache[r])
    BY <1>1, <1>3 DEF RecordsHeard, m
  <2>5. cache[r] \in Lengths
    BY RecordsFacts
  <2>6. \A c : LengthOf(c)' = LengthOf(c)
    BY <1>1 DEF LengthOf
  <2>7. \A b : Best(r, S \cup {at}, b) => Best(r, Seen \cup HeardInRun(r), b)'
    <3> HIDE DEF Seen, HeardInRun
    <3>1. (Seen \cup HeardInRun(r))' = S \cup {at}
      BY <1>1, <2>2
    <3> HIDE DEF S
    <3> QED
      BY <1>1, <3>1 DEF Best, LengthOf
  <2> HIDE DEF l, S, HeardInRun, Seen
  <2>8. CASE ~Worthy(r, l) \/ (m.best # NoLength /\ ~Beats(r, l, m.best))
    <3>1. memory'[r] = m
      BY <1>5, <2>1, <2>8
    <3>2. Best(r, S \cup {at}, m.best)
      BY <1>3, <2>3, <2>4, <2>8, BestKept DEF l
    <3>3. Best(r, Seen \cup HeardInRun(r), memory[r].best)'
      BY <2>7, <3>1, <3>2
    <3> QED
      BY <1>1, <2>2, <2>4, <2>6, <3>1, <3>3 DEF RecordsHeard
  <2>9. CASE Worthy(r, l) /\ (m.best = NoLength \/ Beats(r, l, m.best))
    <3>1. memory'[r] = [best |-> l, candidate |-> <<GrantOf(r, at, u, 0)>>]
      BY <1>5, <1>7, <2>1, <2>9
    <3>2. Best(r, S \cup {at}, l)
      BY <1>3, <2>3, <2>4, <2>9, BestTaken DEF l
    <3>3. /\ memory'[r].candidate # <<>> /\ memory'[r].candidate[1].commit = at
          /\ memory'[r].best = l
      BY <3>1 DEF GrantOf
    <3>4. l \in Nat
      BY <2>3 DEF l
    <3>5. cache[r] # NoLength => Beats(r, l, cache[r])
      <4>1. SUFFICES ASSUME cache[r] # NoLength PROVE Beats(r, l, cache[r])
        OBVIOUS
      <4>2. CASE m.candidate = <<>>
        BY <2>4, <2>9, <4>1, <4>2
      <4>3. CASE m.candidate # <<>>
        <5>1. m.best \in Nat /\ cache[r] \in Nat /\ Beats(r, m.best, cache[r])
          BY <2>4, <2>5, <4>1, <4>3 DEF Lengths
        <5>2. Beats(r, l, m.best)
          BY <2>9, <5>1, LengthsAre
        <5> QED
          BY <1>3, <3>4, <5>1, <5>2, BeatsOrder
      <4> QED
        BY <4>2, <4>3
    <3>6. Best(r, Seen \cup HeardInRun(r), memory[r].best)'
      BY <2>7, <3>2, <3>3
    <3>7. LengthOf(at)' = l
      BY <1>1 DEF l, LengthOf
    <3> QED
      BY <1>1, <2>2, <3>3, <3>4, <3>5, <3>6, <3>7 DEF RecordsHeard, LengthOf
  <2> QED
    BY <2>8, <2>9
<1> QED
  BY <1>6, <1>7

LEMMA RecordsHeardComplete ==
  ASSUME TypeOK, HeldOnce, Records, NEW r \in enabled \cap {2, 3}, OnCommitComplete
  PROVE  RecordsHeard(r)'
<1>1. /\ phase = "commit" /\ UNCHANGED <<enabled, cache, history, memory>> /\ Seen' = Seen
      /\ InRun' = InRun \cup {at} /\ Told = Observed(history[at]) /\ Told' = {}
  BY OnCommitCompleteMet DEF OnCommitComplete
<1>2. history[at] \in Fact
  BY CompleteView, TypeFacts
<1>3. \E o \in Observed(history[at]) : o.kind \in Consumes(r)
  <2>1. Consumes(r) = {"Subject"}
    BY DEF Consumes
  <2> QED
    BY <1>2, <2>1, ToldOf
<1>4. HeardInRun(r)' = HeardInRun(r)
  BY <1>1, <1>3 DEF HeardInRun
<1> QED
  BY <1>1, <1>4, RecordsFacts, RecordsHeardSame

(* At the end of a run the candidate, if there is one, takes the record.   *)
LEMMA RecordsSettledFinalize ==
  ASSUME TypeOK, HeldOnce, Records, NEW r \in enabled \cap {2, 3}, Finalize
  PROVE  RecordsSettled(r)'
<1> DEFINE m == memory[r]
           F == Finalized(r, m)
           own == GrantsOf(r)
           new == GrantsOf(r)'
<1>1. /\ r \in {2, 3} /\ RecordsSettled(r) /\ RecordsHeard(r) /\ m \in RecordMemory(r)
      /\ cache[r] \in Lengths /\ own \in Seq(GrantBy(r))
  BY RecordsFacts
<1>2. /\ phase = "walk" /\ history' = history /\ Seen' = Met /\ Told = {}
  BY FinalizeMet DEF Finalize
<1>3. /\ memory'[r] = F.m /\ cache'[r] = FiniCache(r, memory'[r]) /\ new = own \o F.out
  BY FinalizeView
<1>4. F.m.best = m.best /\ F.out = m.candidate /\ FiniCache(r, memory'[r]) = memory'[r].best
  <2>1. F = [m |-> [m EXCEPT !.candidate = <<>>], out |-> m.candidate]
    BY <1>1 DEF Finalized
  <2> QED
    BY <1>1, <2>1 DEF FiniCache, RecordMemory
<1>5. HeardInRun(r) = InRun /\ Met = Seen \cup InRun
  BY <1>2 DEF HeardInRun, Met
<1>6. /\ Best(r, Met, m.best) /\ m.candidate \in OneOf(r)
      /\ IF m.candidate = <<>> THEN m.best = cache[r]
         ELSE /\ m.candidate[1].commit \in InRun
              /\ LengthOf(m.candidate[1].commit) = m.best
              /\ m.best \in Nat
              /\ cache[r] # NoLength => Beats(r, m.best, cache[r])
  BY <1>1, <1>2, <1>5 DEF RecordsHeard, RecordMemory
<1>7. /\ \A i \in DOMAIN own : own[i].commit \in Seen
      /\ IF own = <<>> THEN cache[r] = NoLength ELSE LengthOf(own[Len(own)].commit) = cache[r]
      /\ \A i, j \in DOMAIN own :
           i < j => Beats(r, LengthOf(own[j].commit), LengthOf(own[i].commit))
  BY <1>1 DEF RecordsSettled, Holders
<1>8. \A c \in Met : LengthOf(c) \in Nat /\ LengthOf(c)' = LengthOf(c)
  BY <1>2, LengthsAre DEF LengthOf
<1>9. DOMAIN own = 1..Len(own) /\ Len(own) \in Nat /\ (own # <<>> => Len(own) \in DOMAIN own)
  <2>1. DOMAIN own = 1..Len(own) /\ Len(own) \in Nat
    BY <1>1, LenProperties
  <2>2. own # <<>> => Len(own) # 0
    BY <1>1, EmptySeq
  <2> QED
    BY <2>1, <2>2
<1>10. Adds(own, m.candidate, new)
  BY <1>1, <1>3, <1>4, <1>6, AddsOne
<1>11. cache'[r] = m.best
  BY <1>3, <1>4
<1> HIDE DEF m, F, own, HeardInRun
<1>12. /\ \A i \in DOMAIN new : new[i].commit \in Met
       /\ IF new = <<>> THEN m.best = NoLength ELSE LengthOf(new[Len(new)].commit) = m.best
       /\ \A i, j \in DOMAIN new :
            i < j => Beats(r, LengthOf(new[j].commit), LengthOf(new[i].commit))
       /\ new # <<>> => Len(new) \in DOMAIN new
  <2> HIDE DEF new
  <2>1. CASE m.candidate = <<>>
    <3>1. new = own /\ m.best = cache[r]
      BY <1>6, <1>10, <2>1 DEF Adds
    <3> QED
      BY <1>5, <1>7, <1>9, <3>1
  <2>2. CASE m.candidate # <<>>
    <3> DEFINE n == Len(own)
               c == m.candidate[1].commit
    <3>1. /\ Len(new) = n + 1 /\ DOMAIN new = 1 .. n + 1 /\ new # <<>>
          /\ new[n + 1].commit = c /\ \A i \in 1..n : new[i] = own[i]
      BY <1>10, <2>2 DEF Adds
    <3>2. /\ c \in InRun /\ LengthOf(c) = m.best /\ m.best \in Nat
          /\ cache[r] # NoLength => Beats(r, m.best, cache[r])
      BY <1>6, <2>2
    <3>3. \A i \in 1 .. n + 1 : i \in 1..n \/ i = n + 1
      BY <1>9
    <3>4. n + 1 \in 1 .. n + 1
      BY <1>9
    <3>5. \A i \in 1..n : new[i].commit \in Seen /\ new[i] = own[i]
      BY <1>7, <1>9, <3>1
    <3>6. ASSUME NEW i \in 1..n PROVE Beats(r, m.best, LengthOf(own[i].commit))
      <4>1. own # <<>> /\ n \in 1..n
        BY <1>9, <3>6, EmptySeq
      <4>2. LengthOf(own[n].commit) = cache[r] /\ own[n].commit \in Seen /\ own[i].commit \in Seen
        BY <1>7, <1>9, <4>1
      <4>3. LengthOf(own[n].commit) \in Nat /\ LengthOf(own[i].commit) \in Nat
        BY <1>5, <1>8, <4>2
      <4>4. cache[r] # NoLength
        BY <4>2, <4>3, LengthsAre
      <4>5. Beats(r, m.best, LengthOf(own[n].commit))
        BY <3>2, <4>2, <4>4
      <4>6. i = n \/ i < n
        <5>1. \A k \in Nat : \A j \in 1..k : j = k \/ j < k
          OBVIOUS
        <5> QED
          BY <1>9, <5>1, Zenon
      <4>7. i < n => Beats(r, LengthOf(own[n].commit), LengthOf(own[i].commit))
        BY <1>7, <1>9, <4>1
      <4> QED
        BY <1>1, <3>2, <4>3, <4>5, <4>6, <4>7, BeatsOrder
    <3>7. ASSUME NEW i \in DOMAIN new, NEW j \in DOMAIN new, i < j
          PROVE  Beats(r, LengthOf(new[j].commit), LengthOf(new[i].commit))
      <4>1. i \in 1..n
        BY <1>9, <3>1, <3>7
      <4>2. CASE j \in 1..n
        BY <1>7, <1>9, <3>1, <3>7, <4>1, <4>2
      <4>3. CASE j = n + 1
        <5>1. LengthOf(new[j].commit) = m.best
          BY <3>1, <3>2, <4>3
        <5> QED
          BY <3>1, <3>6, <4>1, <5>1
      <4> QED
        BY <3>1, <3>3, <4>2, <4>3
    <3>8. \A i \in DOMAIN new : new[i].commit \in Met
      BY <1>5, <3>1, <3>2, <3>3, <3>5
    <3>9. LengthOf(new[Len(new)].commit) = m.best
      BY <3>1, <3>2
    <3> QED
      BY <3>1, <3>4, <3>7, <3>8, <3>9
  <2> QED
    BY <2>1, <2>2
<1>13. Best(r, Seen, cache[r])'
  BY <1>2, <1>6, <1>11 DEF Best, LengthOf
<1>14. Holders(r, GrantsOf(r))'
  <2>1. \A c : LengthOf(c)' = LengthOf(c)
    BY <1>2 DEF LengthOf
  <2> QED
    BY <1>2, <1>11, <1>12 DEF Holders, LengthOf
<1> QED
  BY <1>13, <1>14 DEF RecordsSettled

LEMMA RecordsInit == Init => Records
<1> SUFFICES ASSUME Init, NEW r \in enabled \cap {2, 3}
             PROVE  RecordsSettled(r) /\ RecordsHeard(r)
  BY DEF Records
<1>1. TypeOK /\ phase = "idle" /\ granted = <<>> /\ cache[r] = NoCache(r)
  BY TypeInit DEF Init
<1>2. GrantsOf(r) = <<>> /\ cache[r] = NoLength
  BY <1>1, GrantsNone DEF NoCache
<1>3. Seen = {}
  <2>1. Len(history) = 0
    BY EmptySeq DEF Init
  <2> QED
    BY <1>1, <2>1, MetType
<1>4. Best(r, Seen, cache[r])
  BY <1>2, <1>3 DEF Best
<1>5. Holders(r, GrantsOf(r))
  BY <1>2 DEF Holders
<1> QED
  BY <1>1, <1>4, <1>5 DEF RecordsSettled, RecordsHeard

LEMMA RecordsStep ==
  ASSUME TypeOK, HeldOnce, Records, [Next]_vars
  PROVE  Records'
<1> DEFINE R == enabled \cap {2, 3}
<1>1. \A r \in R : /\ RecordsSettled(r) /\ RecordsHeard(r)
                   /\ Held(r) = <<>> /\ GrantsOf(r) \in Seq(GrantBy(r))
  BY RecordsFacts
<1>2. ASSUME enabled' = enabled, \A r \in R : RecordsSettled(r)' /\ RecordsHeard(r)'
      PROVE  Records'
  BY <1>2 DEF Records
<1>3. ASSUME NEW f \in Facts[enabled], Push(f) PROVE Records'
  <2>1. UNCHANGED <<enabled, granted, cache>> /\ phase' = "idle"
    BY <1>3 DEF Push
  <2>2. /\ Seen' = Seen /\ \A c \in Seen : history'[c] = history[c]
        /\ \A r : GrantsOf(r)' = GrantsOf(r)
    BY <1>3, <2>1, PushMet, NothingGranted DEF Met
  <2>3. \A r \in R : RecordsSettled(r)' /\ RecordsHeard(r)'
    BY <1>1, <2>1, <2>2, RecordsSettledSame DEF RecordsHeard
  <2> QED
    BY <1>2, <2>1, <2>3
<1>4. CASE InitCaches
  <2>1. UNCHANGED <<enabled, granted, cache, history>>
    BY <1>4 DEF InitCaches
  <2>2. Seen' = Seen /\ \A r : GrantsOf(r)' = GrantsOf(r)
    BY <1>4, <2>1, InitCachesMet, NothingGranted
  <2>3. \A r \in R : RecordsSettled(r)' /\ RecordsHeard(r)'
    BY <1>1, <1>4, <2>1, <2>2, RecordsSettledSame, RecordsHeardStart
  <2> QED
    BY <1>2, <2>1, <2>3
<1>5. CASE OnCommitStart
  <2>1. UNCHANGED <<enabled, granted, cache, history>> /\ phase = "walk"
    BY <1>5 DEF OnCommitStart
  <2>2. /\ Seen' = Seen /\ \A r : GrantsOf(r)' = GrantsOf(r)
        /\ \A r : HeardInRun(r)' = HeardInRun(r)
    BY <1>5, <2>1, OnCommitStartMet, NothingGranted, HeardSame
  <2>3. \A r \in R : memory'[r] = memory[r]
    BY <1>5 DEF OnCommitStart, CommitStarted
  <2>4. \A r \in R : RecordsSettled(r)' /\ RecordsHeard(r)'
    BY <1>1, <2>1, <2>2, <2>3, RecordsSettledSame, RecordsHeardSame
  <2> QED
    BY <1>2, <2>1, <2>4
<1>6. ASSUME NEW o \in todo, OnObservation(o) PROVE Records'
  <2>1. UNCHANGED <<enabled, granted, cache, history>>
    BY <1>6 DEF OnObservation
  <2>2. Seen' = Seen /\ \A r : GrantsOf(r)' = GrantsOf(r)
    BY <1>6, <2>1, OnObservationMet, NothingGranted
  <2>3. \A r \in R : RecordsSettled(r)' /\ RecordsHeard(r)'
    BY <1>1, <1>6, <2>1, <2>2, RecordsSettledSame, RecordsHeardObservation
  <2> QED
    BY <1>2, <2>1, <2>3
<1>7. CASE OnCommitComplete
  <2>1. UNCHANGED <<enabled, cache, history>>
    BY <1>7 DEF OnCommitComplete
  <2>2. PICK outputs \in Seq(AnyGrant) :
          /\ CollectPending(outputs)
          /\ \A r \in enabled : OfRule(outputs, r) = IF r = 17
               THEN CommitCompleted(r, memory[r], at, history[at].author) ELSE Held(r)
    BY <1>7, CompleteOnce
  <2>3. \A r \in R : GrantsOf(r)' = GrantsOf(r) \o <<>>
    <3>1. \A r \in enabled : GrantsOf(r)' = GrantsOf(r) \o OfRule(outputs, r)
      BY <2>2, CollectAdds
    <3>2. \A r \in R : r \in enabled /\ OfRule(outputs, r) = <<>>
      BY <1>1, <2>2
    <3> QED
      BY <3>1, <3>2
  <2>4. Seen' = Seen /\ \A r \in R : GrantsOf(r)' = GrantsOf(r)
    BY <1>1, <1>7, <2>3, ConcatEmptySeq, OnCommitCompleteMet
  <2>5. \A r \in R : RecordsSettled(r)' /\ RecordsHeard(r)'
    BY <1>1, <1>7, <2>1, <2>4, RecordsSettledSame, RecordsHeardComplete
  <2> QED
    BY <1>2, <2>1, <2>5
<1>8. CASE Finalize
  <2>1. enabled' = enabled /\ phase' = "idle"
    BY <1>8 DEF Finalize
  <2>2. \A r \in R : RecordsSettled(r)' /\ RecordsHeard(r)'
    BY <1>8, <2>1, RecordsSettledFinalize DEF RecordsHeard
  <2> QED
    BY <1>2, <2>1, <2>2
<1>9. CASE UNCHANGED vars
  <2>1. UNCHANGED <<enabled, cache, history, phase, at, memory>>
    BY <1>9 DEF vars
  <2>2. /\ Seen' = Seen /\ \A r : GrantsOf(r)' = GrantsOf(r)
        /\ \A r : HeardInRun(r)' = HeardInRun(r)
    BY <1>9, <2>1, StutterMet, HeardSame
  <2>3. \A r \in R : RecordsSettled(r)' /\ RecordsHeard(r)'
    BY <1>1, <2>1, <2>2, RecordsSettledSame, RecordsHeardSame DEF RecordsHeard
  <2> QED
    BY <1>2, <2>1, <2>3
<1> QED
  BY <1>3, <1>4, <1>5, <1>6, <1>7, <1>8, <1>9 DEF Next

-----------------------------------------------------------------------------
(***************************************************************************)
(* How often a user swore in the first commits of a history.               *)
(***************************************************************************)
WordsOf(h, u, n) == IF h[n].author = u THEN h[n].swears ELSE 0

LEMMA WordsAre ==
  ASSUME NEW h \in Seq(Fact), NEW u
  PROVE  Len(h) \in Nat /\ \A n \in 1..Len(h) : WordsOf(h, u, n) \in Nat
<1>1. Len(h) \in Nat /\ \A n \in 1..Len(h) : h[n] \in Fact
  BY LenProperties, ElementOfSeq
<1>2. \A f \in Fact : f.swears \in Nat
  BY DEF Fact
<1> QED
  BY <1>1, <1>2 DEF WordsOf

LEMMA SwearsUpToStep ==
  ASSUME NEW h \in Seq(Fact), NEW u
  PROVE  /\ SwearsUpTo(h, u)[0] = 0
         /\ \A n \in 1..Len(h) : SwearsUpTo(h, u)[n] = SwearsUpTo(h, u)[n - 1] + WordsOf(h, u, n)
         /\ \A n \in 0..Len(h) : SwearsUpTo(h, u)[n] \in Nat
<1> DEFINE N == Len(h)
           w(n) == WordsOf(h, u, n)
           Sums(f, n) == /\ f \in [0..n -> Nat]
                         /\ f = [i \in 0..n |-> IF i = 0 THEN 0 ELSE f[i - 1] + w(i)]
           Bad == {n \in 0..N : \A f : ~Sums(f, n)}
<1>1. N \in Nat /\ \A i \in 1..N : w(i) \in Nat
  BY WordsAre
<1>2. Bad = {}
  <2> HIDE DEF Sums
  <2>1. SUFFICES ASSUME Bad # {} PROVE FALSE
    OBVIOUS
  <2>2. Bad \in SUBSET Nat
    BY <1>1
  <2>3. PICK n \in Bad : \A k \in Bad : n <= k
    BY <2>1, <2>2, LeastExists
  <2>4. n \in 0..N /\ \A f : ~Sums(f, n)
    OBVIOUS
  <2>5. n # 0
    <3>1. SUFFICES ASSUME n = 0 PROVE FALSE
      OBVIOUS
    <3>2. Sums([i \in 0..0 |-> 0], 0)
      BY DEF Sums
    <3> QED
      BY <2>4, <3>1, <3>2
  <2>6. n - 1 \in 0..N /\ n - 1 \notin Bad
    <3>1. n \in 1..N /\ n - 1 \in 0..N /\ ~(n <= n - 1)
      BY <1>1, <2>4, <2>5
    <3> HIDE DEF Bad
    <3> QED
      BY <2>3, <3>1
  <2>7. PICK f : Sums(f, n - 1)
    BY <2>6
  <2> HIDE DEF w
  <2> DEFINE last == f[n - 1] + w(n)
             g == [i \in 0..n |-> IF i = n THEN last ELSE f[i]]
  <2>8. /\ n \in 1..N /\ n - 1 \in 0..(n - 1)
        /\ \A i \in 0..n : i # n => i \in 0..(n - 1)
        /\ \A i \in 0..(n - 1) : i # 0 => i - 1 \in 0..(n - 1)
        /\ \A i \in 0..(n - 1) : i \in 0..n /\ i # n
    BY <1>1, <2>4, <2>5
  <2>9. last \in Nat
    <3>1. f[n - 1] \in Nat /\ w(n) \in Nat
      BY <1>1, <2>7, <2>8 DEF Sums
    <3> QED
      BY <3>1
  <2>10. g \in [0..n -> Nat]
    BY <2>7, <2>8, <2>9 DEF Sums
  <2>11. ASSUME NEW i \in 0..n
         PROVE  g[i] = IF i = 0 THEN 0 ELSE g[i - 1] + w(i)
    <3>1. CASE i = n
      <4>1. g[i] = last /\ g[n - 1] = f[n - 1]
        BY <2>8, <3>1
      <4> QED
        BY <2>5, <3>1, <4>1
    <3>2. CASE i # n
      <4>1. i \in 0..(n - 1) /\ g[i] = f[i]
        BY <2>8, <3>2
      <4>2. i # 0 => i - 1 \in 0..(n - 1) /\ g[i - 1] = f[i - 1]
        BY <2>8, <4>1
      <4>3. f[i] = IF i = 0 THEN 0 ELSE f[i - 1] + w(i)
        BY <2>7, <4>1 DEF Sums
      <4> QED
        BY <4>1, <4>2, <4>3
    <3> QED
      BY <3>1, <3>2
  <2>12. g = [i \in 0..n |-> IF i = 0 THEN 0 ELSE g[i - 1] + w(i)]
    <3> HIDE DEF last
    <3>1. g = [i \in 0..n |-> g[i]]
      BY Zenon
    <3> HIDE DEF g
    <3> QED
      BY <2>11, <3>1
  <2>13. Sums(g, n)
    BY <2>10, <2>12 DEF Sums
  <2> HIDE DEF g
  <2> QED
    BY <2>4, <2>13
<1>3. N \in 0..N
  BY <1>1
<1>4. PICK f : Sums(f, N)
  BY <1>2, <1>3
<1>5. f = [i \in 0..N |-> IF i = 0 THEN 0
                          ELSE f[i - 1] + (IF h[i].author = u THEN h[i].swears ELSE 0)]
  BY <1>4 DEF WordsOf
<1>6. SwearsUpTo(h, u) = [i \in 0..N |-> IF i = 0 THEN 0 ELSE SwearsUpTo(h, u)[i - 1]
                            + (IF h[i].author = u THEN h[i].swears ELSE 0)]
  BY <1>5 DEF SwearsUpTo
<1>7. SwearsUpTo(h, u)[0] = 0
  BY <1>1, <1>6
<1>8. ASSUME NEW n \in 1..N
      PROVE  SwearsUpTo(h, u)[n] = SwearsUpTo(h, u)[n - 1] + w(n)
  <2>1. n \in 0..N /\ n # 0
    BY <1>1
  <2> QED
    BY <1>6, <2>1 DEF WordsOf
<1> DEFINE Odd == {n \in 0..N : SwearsUpTo(h, u)[n] \notin Nat}
<1>9. Odd = {}
  <2>1. SUFFICES ASSUME Odd # {} PROVE FALSE
    OBVIOUS
  <2>2. Odd \in SUBSET Nat
    BY <1>1
  <2>3. PICK n \in Odd : \A k \in Odd : n <= k
    BY <2>1, <2>2, LeastExists
  <2>4. n \in 1..N /\ n - 1 \in 0..N
    <3>1. n \in 0..N /\ n # 0
      BY <1>7, <2>3
    <3> QED
      BY <1>1, <3>1
  <2>5. n - 1 \notin Odd
    BY <2>3, <2>4
  <2>6. SwearsUpTo(h, u)[n - 1] \in Nat
    BY <2>4, <2>5
  <2>7. SwearsUpTo(h, u)[n] \in Nat
    BY <1>1, <1>8, <2>4, <2>6
  <2> QED
    BY <2>3, <2>7
<1> QED
  BY <1>7, <1>8, <1>9

(* What was sworn does not change when history grows.                      *)
LEMMA SwearsStay ==
  ASSUME NEW h \in Seq(Fact), NEW g \in Seq(Fact), NEW u, Len(h) <= Len(g),
         \A c \in 1..Len(h) : g[c] = h[c]
  PROVE  \A n \in 0..Len(h) : SwearsUpTo(g, u)[n] = SwearsUpTo(h, u)[n]
<1> DEFINE N == Len(h)
           A(n) == SwearsUpTo(g, u)[n]
           B(n) == SwearsUpTo(h, u)[n]
           Odd == {n \in 0..N : A(n) # B(n)}
<1>1. N \in Nat /\ Len(g) \in Nat /\ \A n \in 1..N : n \in 1..Len(g)
  BY WordsAre
<1>2. /\ A(0) = B(0)
      /\ \A n \in 1..N : A(n) = A(n - 1) + WordsOf(g, u, n)
      /\ \A n \in 1..N : B(n) = B(n - 1) + WordsOf(h, u, n)
      /\ \A n \in 1..N : WordsOf(g, u, n) = WordsOf(h, u, n)
  <2>1. A(0) = 0 /\ \A n \in 1..Len(g) : A(n) = A(n - 1) + WordsOf(g, u, n)
    BY SwearsUpToStep
  <2>2. B(0) = 0 /\ \A n \in 1..N : B(n) = B(n - 1) + WordsOf(h, u, n)
    BY SwearsUpToStep
  <2>3. \A n \in 1..N : WordsOf(g, u, n) = WordsOf(h, u, n)
    BY DEF WordsOf
  <2> QED
    BY <1>1, <2>1, <2>2, <2>3
<1> HIDE DEF A, B
<1>3. Odd = {}
  <2>1. SUFFICES ASSUME Odd # {} PROVE FALSE
    OBVIOUS
  <2>2. Odd \in SUBSET Nat
    BY <1>1
  <2>3. PICK n \in Odd : \A k \in Odd : n <= k
    BY <2>1, <2>2, LeastExists
  <2>4. n \in 1..N /\ n - 1 \in 0..N /\ ~(n <= n - 1)
    <3>1. n \in 0..N /\ n # 0
      BY <1>2, <2>3
    <3> QED
      BY <1>1, <3>1
  <2>5. A(n - 1) = B(n - 1)
    BY <2>3, <2>4
  <2> QED
    BY <1>2, <2>3, <2>4, <2>5
<1> QED
  BY <1>3 DEF A, B

-----------------------------------------------------------------------------
(***************************************************************************)
(* What rules have counted so far: of the commits of earlier runs, of      *)
(* those of this run, and of the commit at hand once they heard of it.     *)
(***************************************************************************)
Total(u, n) == SwearsUpTo(history, u)[n]

HeardWords(u) ==
  IF phase = "idle" THEN 0
  ELSE Total(u, Len(history)) - Total(u, at)
       + (IF \E o \in Told : o.kind = "Profanity" THEN WordsOf(history, u, at) ELSE 0)

Counted(u) == Swears(u) + HeardWords(u)

LEMMA TotalType ==
  ASSUME TypeOK, NEW u
  PROVE  /\ \A n \in 0..Len(history) : Total(u, n) \in Nat
         /\ \A n \in 1..Len(history) : /\ Total(u, n) = Total(u, n - 1) + WordsOf(history, u, n)
                                       /\ WordsOf(history, u, n) \in Nat
         /\ Total(u, 0) = 0 /\ Swears(u) = Total(u, processed) /\ Swears(u) \in Nat
<1>1. history \in Seq(Fact) /\ processed \in 0..Len(history)
  BY TypeFacts DEF TypeOK
<1>2. /\ \A n \in 0..Len(history) : Total(u, n) \in Nat
      /\ \A n \in 1..Len(history) : Total(u, n) = Total(u, n - 1) + WordsOf(history, u, n)
      /\ Total(u, 0) = 0
  BY <1>1, SwearsUpToStep DEF Total
<1>3. \A n \in 1..Len(history) : WordsOf(history, u, n) \in Nat
  BY <1>1, WordsAre
<1>4. Swears(u) = Total(u, processed)
  BY DEF Swears, Total
<1> QED
  BY <1>1, <1>2, <1>3, <1>4

LEMMA CountedPush ==
  ASSUME TypeOK, NEW f \in Facts[enabled], Push(f), NEW u
  PROVE  Counted(u)' = Counted(u) /\ Counted(u) = Swears(u)
<1>1. phase = "idle" /\ phase' = "idle"
  BY DEF Push
<1>2. /\ history \in Seq(Fact) /\ history' \in Seq(Fact) /\ processed' = processed
      /\ Len(history') = Len(history) + 1
      /\ \A c \in 1..Len(history) : history'[c] = history[c]
      /\ Len(history) \in Nat /\ processed \in 0..Len(history)
  BY TypePush, TypeFacts DEF TypeOK
<1>3. Len(history) <= Len(history')
  BY <1>2
<1>4. \A n \in 0..Len(history) : SwearsUpTo(history', u)[n] = SwearsUpTo(history, u)[n]
  BY <1>2, <1>3, SwearsStay
<1>5. Swears(u)' = Swears(u)
  BY <1>2, <1>4 DEF Swears
<1>6. HeardWords(u) = 0 /\ HeardWords(u)' = 0 /\ Swears(u) \in Nat
  BY <1>1, TotalType DEF HeardWords
<1> QED
  BY <1>5, <1>6 DEF Counted

LEMMA CountedInitCaches ==
  ASSUME TypeOK, InitCaches, NEW u
  PROVE  Counted(u)' = Counted(u) /\ Counted(u) = Swears(u)
<1>1. /\ phase = "idle" /\ phase' = "walk" /\ at' = Len(history) /\ history' = history
      /\ Told' = {} /\ processed' = processed
  BY InitCachesMet, TypeInitCaches DEF InitCaches
<1>2. Swears(u)' = Swears(u) /\ Total(u, Len(history))' = Total(u, Len(history))
  BY <1>1 DEF Swears, Total
<1>3. Total(u, Len(history)) \in Nat /\ Swears(u) \in Nat
  <2>1. Len(history) \in 0..Len(history)
    BY TypeFacts
  <2> QED
    BY <2>1, TotalType
<1>4. HeardWords(u) = 0
  BY <1>1 DEF HeardWords
<1>5. HeardWords(u)' = 0
  <2>1. HeardWords(u)' = Total(u, Len(history)) - Total(u, Len(history)) + 0
    BY <1>1 DEF HeardWords, Total
  <2> QED
    BY <1>3, <2>1
<1> QED
  BY <1>2, <1>3, <1>4, <1>5 DEF Counted

LEMMA CountedSame ==
  ASSUME NEW u, UNCHANGED <<phase, at, history, processed, Told>>
  PROVE  Counted(u)' = Counted(u)
BY DEF Counted, HeardWords, Swears, Total

LEMMA CountedOnCommitStart ==
  ASSUME TypeOK, OnCommitStart, NEW u
  PROVE  Counted(u)' = Counted(u)
<1>1. /\ phase = "walk" /\ phase' = "commit" /\ at' = at /\ history' = history
      /\ Told' = {} /\ Told = {} /\ processed' = processed
  BY OnCommitStartMet, TypeOnCommitStart DEF OnCommitStart
<1> QED
  BY <1>1 DEF Counted, HeardWords, Swears, Total

LEMMA CountedOnObservation ==
  ASSUME TypeOK, NEW o \in todo, OnObservation(o), NEW u
  PROVE  Counted(u)' = Counted(u) + (IF o.kind = "Profanity" /\ history[at].author = u
                                     THEN o.value ELSE 0)
<1>1. /\ phase = "commit" /\ phase' = "commit" /\ at' = at /\ history' = history
      /\ Told' = Told \cup {o} /\ processed' = processed
  BY OnObservationMet, TypeOnObservation DEF OnObservation
<1>2. o \in Observed(history[at]) /\ at \in 1..Len(history) /\ history[at] \in Fact
  BY ObservationView, TypeFacts
<1>3. Len(history) \in Nat /\ at \in 0..Len(history) /\ Len(history) \in 0..Len(history)
  BY <1>2, TypeFacts
<1> DEFINE rest == Total(u, Len(history)) - Total(u, at)
           w == WordsOf(history, u, at)
<1>4. rest \in Int /\ w \in Nat /\ Swears(u) \in Nat
  <2>1. Total(u, Len(history)) \in Nat /\ Total(u, at) \in Nat
    BY <1>3, TotalType
  <2>2. w \in Nat /\ Swears(u) \in Nat
    BY <1>2, TotalType
  <2> QED
    BY <2>1, <2>2
<1>5. Swears(u)' = Swears(u)
  BY <1>1 DEF Swears
<1>6. HeardWords(u) = rest + (IF \E p \in Told : p.kind = "Profanity" THEN w ELSE 0)
  BY <1>1 DEF HeardWords
<1>7. HeardWords(u)' = rest + (IF \E p \in Told \cup {o} : p.kind = "Profanity" THEN w ELSE 0)
  BY <1>1 DEF HeardWords, Total
<1> HIDE DEF rest, w
<1>8. CASE o.kind = "Profanity"
  <2>1. \A p \in Told : p.kind # "Profanity"
    <3>1. Told = Observed(history[at]) \ todo
      BY <1>1 DEF Told
    <3>2. \A p \in Told : p \in Observed(history[at]) /\ p # o
      BY <3>1
    <3> QED
      BY <1>2, <1>8, <3>2, ObservedProperties
  <2>2. o.value = history[at].swears
    BY <1>2, <1>8, ObservedOf
  <2>3. HeardWords(u) = rest + 0 /\ HeardWords(u)' = rest + w
    BY <1>6, <1>7, <1>8, <2>1
  <2>4. w = IF history[at].author = u THEN o.value ELSE 0
    BY <2>2 DEF w, WordsOf
  <2> QED
    BY <1>4, <1>5, <1>8, <2>3, <2>4 DEF Counted
<1>9. CASE o.kind # "Profanity"
  <2>1. HeardWords(u)' = HeardWords(u)
    BY <1>6, <1>7, <1>9
  <2>2. HeardWords(u) \in Int
    BY <1>4, <1>6
  <2> QED
    BY <1>4, <1>5, <1>9, <2>1, <2>2 DEF Counted
<1> QED
  BY <1>8, <1>9

LEMMA CountedOnCommitComplete ==
  ASSUME TypeOK, OnCommitComplete, NEW r \in enabled, "Profanity" \in Consumes(r), NEW u
  PROVE  Counted(u)' = Counted(u)
<1>1. /\ phase = "commit" /\ phase' = "walk" /\ at' = at - 1 /\ history' = history
      /\ Told = Observed(history[at]) /\ Told' = {} /\ processed' = processed
  BY OnCommitCompleteMet, TypeOnCommitComplete DEF OnCommitComplete
<1>2. at \in 1..Len(history) /\ history[at] \in Fact
  BY CompleteView, TypeFacts
<1>3. Len(history) \in Nat /\ at \in 0..Len(history) /\ Len(history) \in 0..Len(history)
  BY <1>2, TypeFacts
<1> DEFINE w == WordsOf(history, u, at)
           all == Total(u, Len(history))
<1>4. /\ all \in Nat /\ Total(u, at) \in Nat /\ w \in Nat /\ Swears(u) \in Nat
      /\ Total(u, at) = Total(u, at - 1) + w /\ Total(u, at - 1) \in Nat
  <2>1. at - 1 \in 0..Len(history)
    BY <1>2, <1>3
  <2> QED
    BY <1>2, <1>3, <2>1, TotalType
<1>5. Swears(u)' = Swears(u)
  BY <1>1 DEF Swears
<1>6. HeardWords(u) = all - Total(u, at) + w
  <2>1. CASE \E p \in Told : p.kind = "Profanity"
    BY <1>1, <2>1 DEF HeardWords
  <2>2. CASE ~\E p \in Told : p.kind = "Profanity"
    <3>1. ~(history[at].swears > 0)
      <4>1. SUFFICES ASSUME history[at].swears > 0 PROVE FALSE
        OBVIOUS
      <4>2. [kind |-> "Profanity", value |-> history[at].swears] \in Observed(history[at])
        BY <1>2, <4>1, ToldOf
      <4> QED
        BY <1>1, <2>2, <4>2
    <3>2. history[at].swears \in Nat
      BY <1>2 DEF Fact
    <3>3. w = 0
      BY <3>1, <3>2 DEF WordsOf
    <3> QED
      BY <1>1, <2>2, <3>3 DEF HeardWords
  <2> QED
    BY <2>1, <2>2
<1>7. HeardWords(u)' = all - Total(u, at - 1) + 0
  BY <1>1 DEF HeardWords, Total
<1> HIDE DEF w, all
<1> QED
  BY <1>4, <1>5, <1>6, <1>7 DEF Counted

LEMMA CountedFinalize ==
  ASSUME TypeOK, Finalize, NEW u
  PROVE  /\ Counted(u)' = Counted(u)
         /\ Swears(u)' = Counted(u)
<1>1. /\ phase = "walk" /\ phase' = "idle" /\ history' = history
      /\ at = processed /\ processed' = Len(history) /\ Told = {}
  BY FinalizeView, FinalizeMet DEF Finalize
<1>2. processed \in 0..Len(history) /\ Len(history) \in 0..Len(history)
  BY TypeFacts
<1> DEFINE all == Total(u, Len(history))
           old == Total(u, processed)
<1>3. all \in Nat /\ old \in Nat /\ Swears(u) = old
  BY <1>2, TotalType
<1>4. Swears(u)' = all
  BY <1>1 DEF Swears, Total
<1>5. HeardWords(u) = all - old + 0 /\ HeardWords(u)' = 0
  BY <1>1 DEF HeardWords
<1> HIDE DEF all, old
<1> QED
  BY <1>3, <1>4, <1>5 DEF Counted

-----------------------------------------------------------------------------
(***************************************************************************)
(* Milestones of swearing.                                                 *)
(***************************************************************************)
OwnOf(all, u) == Part(all, {i \in DOMAIN all : all[i].user = u})

LEMMA OwnAdds ==
  ASSUME NEW r, NEW s \in Seq(GrantBy(r)), NEW x \in OneOf(r), NEW u
  PROVE  /\ s \o x \in Seq(GrantBy(r)) /\ OwnOf(s, u) \in Seq(GrantBy(r))
         /\ OwnOf(s \o x, u) = IF x # <<>> /\ x[1].user = u THEN OwnOf(s, u) \o x ELSE OwnOf(s, u)
<1> DEFINE G == GrantBy(r)
           Y == {g \in G : g.user = u}
<1>1. x \in Seq(G) /\ (x # <<>> => /\ Len(x) = 1 /\ DOMAIN x = {1} /\ x[1] \in G)
  BY OneOfProperties
<1>2. ASSUME NEW p \in Seq(G) PROVE OwnOf(p, u) = Where(p, Y)
  <2>1. \A i \in DOMAIN p : p[i] \in G
    BY LenProperties, ElementOfSeq
  <2>2. {i \in DOMAIN p : p[i].user = u} = {i \in DOMAIN p : p[i] \in Y}
    BY <2>1
  <2> QED
    BY <2>2 DEF OwnOf, Where
<1>3. s \o x \in Seq(G)
  BY <1>1, ConcatProperties
<1>4. OwnOf(s, u) \in Seq(G)
  <2> DEFINE S == {i \in DOMAIN s : s[i].user = u}
  <2>1. S \in SUBSET DOMAIN s
    OBVIOUS
  <2> HIDE DEF S
  <2>2. Part(s, S) \in Seq(GrantBy(r))
    BY <2>1, PartType
  <2> QED
    BY <2>2 DEF OwnOf, S
<1>5. OwnOf(s \o x, u) = OwnOf(s, u) \o OwnOf(x, u)
  <2>1. s \in Seq(G)
    OBVIOUS
  <2> HIDE DEF G, Y
  <2>2. Where(s \o x, Y) = Where(s, Y) \o Where(x, Y)
    BY <1>1, <2>1, WhereConcat
  <2> QED
    BY <1>1, <1>2, <1>3, <2>1, <2>2
<1>6. CASE x # <<>> /\ x[1].user = u
  <2>1. {i \in DOMAIN x : x[i].user = u} = DOMAIN x
    BY <1>1, <1>6
  <2>2. OwnOf(x, u) = x
    BY <1>1, <2>1, PartAll DEF OwnOf
  <2> QED
    BY <1>3, <1>4, <1>5, <1>6, <2>2
<1>7. CASE ~(x # <<>> /\ x[1].user = u)
  <2>1. {i \in DOMAIN x : x[i].user = u} = {}
    BY <1>1, <1>7
  <2>2. OwnOf(x, u) = <<>>
    BY <2>1, PartNone DEF OwnOf
  <2>3. OwnOf(s, u) \o <<>> = OwnOf(s, u)
    BY <1>4, ConcatEmptySeq
  <2> QED
    BY <1>3, <1>4, <1>5, <1>7, <2>2, <2>3
<1> QED
  BY <1>6, <1>7

(* The milestones up to n, and the highest of them.                        *)
Passed(n) == {t \in SailorThresholds : t <= n}

LEMMA HighestPassed ==
  ASSUME NEW n \in Nat, NEW S \in SUBSET Passed(n), S # {}
  PROVE  LastOf(S) \in S /\ LastOf(S) \in Nat /\ LastOf(S) <= n /\ \A t \in S : t <= LastOf(S)
<1>1. \A t \in S : t \in 0..n
  BY RuleThresholdsAssumption DEF Passed
<1>2. S \in SUBSET (0..n)
  BY <1>1
<1>3. LastOf(S) \in S /\ \A x \in S : x <= LastOf(S)
  BY <1>2, LastOfIs
<1> QED
  BY <1>1, <1>3

LEMMA LastIs ==
  ASSUME NEW n \in Nat, NEW S \in SUBSET Passed(n), NEW t \in S, \A x \in S : x <= t
  PROVE  LastOf(S) = t
<1>1. LastOf(S) \in S /\ LastOf(S) \in Nat /\ \A x \in S : x <= LastOf(S)
  BY HighestPassed
<1>2. t \in Nat
  BY RuleThresholdsAssumption DEF Passed
<1>3. t <= LastOf(S) /\ LastOf(S) <= t
  BY <1>1
<1> QED
  BY <1>1, <1>2, <1>3

LEMMA MilestonesAre ==
  ASSUME NEW s, NEW u, NEW n
  PROVE  Milestones(s, u, n) <=>
           /\ \A i, j \in DOMAIN OwnOf(s, u) :
                i < j => OwnOf(s, u)[i].title < OwnOf(s, u)[j].title
           /\ Passed(n) # {} => /\ OwnOf(s, u) # <<>>
                                /\ OwnOf(s, u)[Len(OwnOf(s, u))].title = LastOf(Passed(n))
           /\ Passed(n) = {} => OwnOf(s, u) = <<>>
BY DEF Milestones, OwnOf, Passed

LEMMA MilestonesOthers ==
  ASSUME NEW r, NEW s \in Seq(GrantBy(r)), NEW x \in OneOf(r), NEW u, NEW n,
         Milestones(s, u, n), x = <<>> \/ x[1].user # u
  PROVE  Milestones(s \o x, u, n)
<1>1. OwnOf(s \o x, u) = OwnOf(s, u)
  BY OwnAdds
<1> QED
  BY <1>1, MilestonesAre

Crosses(n, v) == {t \in SailorThresholds : n < t /\ n + v >= t}

LEMMA MilestonesAdd ==
  ASSUME NEW r, NEW s \in Seq(GrantBy(r)), NEW x \in OneOf(r), NEW u, NEW n \in Nat, NEW v \in Nat,
         Milestones(s, u, n),
         Crosses(n, v) = {} => x = <<>>,
         Crosses(n, v) # {} => x # <<>> /\ x[1].user = u /\ x[1].title = LastOf(Crosses(n, v))
  PROVE  Milestones(s \o x, u, n + v)
<1> DEFINE own == OwnOf(s, u)
           new == OwnOf(s \o x, u)
           G == GrantBy(r)
<1>1. n + v \in Nat /\ Passed(n + v) = Passed(n) \cup Crosses(n, v)
  <2>1. \A t \in Nat : t <= n + v <=> t <= n \/ (n < t /\ n + v >= t)
    OBVIOUS
  <2>2. \A t \in SailorThresholds : t \in Nat
    BY RuleThresholdsAssumption
  <2>3. n + v \in Nat
    OBVIOUS
  <2> QED
    BY <2>1, <2>2, <2>3 DEF Passed, Crosses
<1>2. /\ own \in Seq(G) /\ s \o x \in Seq(G)
      /\ new = IF x # <<>> /\ x[1].user = u THEN own \o x ELSE own
  BY OwnAdds
<1>3. CASE Crosses(n, v) = {}
  <2>1. new = own /\ Passed(n + v) = Passed(n)
    BY <1>1, <1>2, <1>3
  <2> QED
    BY <2>1, MilestonesAre
<1>4. CASE Crosses(n, v) # {}
  <2> DEFINE top == LastOf(Crosses(n, v))
             N == Len(own)
  <2>1. new = own \o x /\ x[1].title = top /\ x # <<>>
    BY <1>2, <1>4
  <2>2. Adds(own, x, own \o x)
    BY <1>2, AddsOne
  <2>3. /\ Len(new) = N + 1 /\ DOMAIN new = 1 .. N + 1 /\ new # <<>>
        /\ new[N + 1] = x[1] /\ \A i \in 1..N : new[i] = own[i]
    BY <2>1, <2>2 DEF Adds
  <2>4. N \in Nat /\ DOMAIN own = 1..N /\ \A i \in 1..N : own[i].title \in Nat
    <3>1. \A g \in G : g.title \in Nat
      BY DEF GrantBy
    <3> HIDE DEF G, own
    <3> QED
      BY <1>2, <3>1, LenProperties, ElementOfSeq
  <2> HIDE DEF own, new
  <2>5. top \in Crosses(n, v) /\ top \in Nat /\ \A t \in Crosses(n, v) : t <= top
    <3>1. Crosses(n, v) \in SUBSET Passed(n + v)
      BY <1>1
    <3> HIDE DEF Crosses
    <3> QED
      BY <1>1, <1>4, <3>1, HighestPassed
  <2>6. n < top
    BY <2>5 DEF Crosses
  <2>7. ASSUME NEW i \in 1..N PROVE own[i].title < top
    <3>1. own # <<>>
      BY <2>4
    <3>2. Passed(n) # {} /\ own[N].title = LastOf(Passed(n))
      BY <3>1, MilestonesAre DEF own
    <3>3. own[N].title <= n
      BY <3>2, HighestPassed
    <3>4. i = N \/ own[i].title < own[N].title
      <4>1. N \in DOMAIN own /\ i \in DOMAIN own /\ (i = N \/ i < N)
        <5>1. \A a \in Nat : \A b \in 1..a : a \in 1..a /\ (b = a \/ b < a)
          OBVIOUS
        <5> QED
          BY <2>4, <5>1, Zenon
      <4> QED
        BY <4>1, MilestonesAre DEF own
    <3>5. own[i].title \in Nat /\ own[N].title \in Nat
      BY <2>4
    <3> QED
      BY <2>5, <2>6, <3>3, <3>4, <3>5
  <2>8. \A i, j \in DOMAIN new : i < j => new[i].title < new[j].title
    <3>1. SUFFICES ASSUME NEW i \in 1 .. N + 1, NEW j \in 1 .. N + 1, i < j
                   PROVE  new[i].title < new[j].title
      BY <2>3
    <3>2. i \in 1..N /\ (j = N + 1 \/ j \in 1..N)
      BY <2>4, <3>1
    <3>3. CASE j = N + 1
      BY <2>1, <2>3, <2>7, <3>2, <3>3
    <3>4. CASE j \in 1..N
      <4>1. own[i].title < own[j].title
        BY <2>4, <3>1, <3>2, <3>4, MilestonesAre DEF own
      <4> QED
        BY <2>3, <3>2, <3>4, <4>1
    <3> QED
      BY <3>2, <3>3, <3>4
  <2>9. LastOf(Passed(n + v)) = top
    <3>1. \A t \in Passed(n + v) : t <= top
      <4>1. \A t \in Passed(n) : t \in Nat /\ t <= n
        BY RuleThresholdsAssumption DEF Passed
      <4>2. \A t \in Passed(n) : t <= top
        BY <2>5, <2>6, <4>1
      <4> QED
        BY <1>1, <2>5, <4>2
    <3>2. top \in Passed(n + v)
      BY <1>1, <2>5
    <3> HIDE DEF top
    <3> QED
      BY <1>1, <3>1, <3>2, LastIs
  <2>10. new[Len(new)].title = LastOf(Passed(n + v))
    BY <2>1, <2>3, <2>9
  <2>11. Passed(n + v) # {}
    BY <1>1, <1>4
  <2> QED
    BY <2>3, <2>8, <2>10, <2>11, MilestonesAre DEF new
<1> QED
  BY <1>3, <1>4

-----------------------------------------------------------------------------
(***************************************************************************)
(* What a rule knows, and what it has put out, between the steps.          *)
(***************************************************************************)
Mind(r)    == IF phase = "idle" THEN cache[r] ELSE memory[r]
Granted(r) == GrantsOf(r) \o Held(r)

LEMMA GrantedType ==
  ASSUME TypeOK, NEW r \in enabled
  PROVE  Granted(r) \in Seq(GrantBy(r)) /\ (phase # "commit" => Granted(r) = GrantsOf(r))
<1>1. GrantsOf(r) \in Seq(GrantBy(r)) /\ Held(r) \in Seq(GrantBy(r))
  BY GrantsType
<1>2. phase # "commit" => Held(r) = <<>>
  BY HeldNothing DEF TypeOK
<1>3. Granted(r) \in Seq(GrantBy(r))
  BY <1>1, ConcatProperties DEF Granted
<1>4. phase # "commit" => Granted(r) = GrantsOf(r)
  BY <1>1, <1>2, ConcatEmptySeq DEF Granted
<1> QED
  BY <1>3, <1>4

LEMMA GrantedOnObservation ==
  ASSUME TypeOK, HeldOnce, NEW o \in todo, OnObservation(o), NEW r \in enabled
  PROVE  LET P == Process(r, memory[r], at, history[at].author, o)
         IN  /\ Granted(r)' = Granted(r) \o P.out /\ P.out \in OneOf(r)
             /\ Mind(r)' = P.m /\ Mind(r) = memory[r]
<1> DEFINE P == Process(r, memory[r], at, history[at].author, o)
           G == GrantBy(r)
<1>1. /\ o \in Observation /\ at \in 1..MaxCommits /\ history[at].author \in Users
      /\ memory'[r] = P.m /\ Held(r)' = Held(r) \o P.out /\ GrantsOf(r)' = GrantsOf(r)
  BY ObservationView
<1>2. r \in AllRules /\ memory[r] \in Memory(r)
  BY TypeFacts DEF TypeOK
<1>3. P.out \in OneOf(r)
  BY <1>1, <1>2, ProcessType
<1>4. P.out \in Seq(G) /\ GrantsOf(r) \in Seq(G) /\ Held(r) \in Seq(G)
  BY <1>3, OneOfProperties, GrantsType
<1>5. phase = "commit" /\ phase' = "commit"
  BY DEF OnObservation
<1> HIDE DEF P, G
<1>6. Granted(r)' = Granted(r) \o P.out
  <2>1. GrantsOf(r) \o (Held(r) \o P.out) = (GrantsOf(r) \o Held(r)) \o P.out
    <3> DEFINE a == GrantsOf(r)
               b == Held(r)
               c == P.out
    <3>1. a \in Seq(G) /\ b \in Seq(G) /\ c \in Seq(G)
      BY <1>4
    <3> HIDE DEF a, b, c
    <3>2. a \o (b \o c) = (a \o b) \o c
      BY <3>1, ConcatAssociative
    <3> QED
      BY <3>2 DEF a, b, c
  <2> QED
    BY <1>1, <2>1 DEF Granted
<1>7. Mind(r)' = P.m /\ Mind(r) = memory[r]
  BY <1>1, <1>5 DEF Mind
<1> QED
  BY <1>3, <1>6, <1>7 DEF P

LEMMA GrantedOnCommitComplete ==
  ASSUME TypeOK, HeldOnce, OnCommitComplete, NEW r \in enabled, r # 17
  PROVE  Granted(r)' = Granted(r) /\ Mind(r)' = Mind(r) /\ GrantsOf(r)' = Granted(r)
<1>1. PICK outputs \in Seq(AnyGrant) :
        /\ CollectPending(outputs)
        /\ \A q \in enabled : OfRule(outputs, q) = IF q = 17
             THEN CommitCompleted(q, memory[q], at, history[at].author) ELSE Held(q)
  BY CompleteOnce
<1>2. OfRule(outputs, r) = Held(r) /\ GrantsOf(r)' = GrantsOf(r) \o OfRule(outputs, r)
      /\ pending' = <<>>
  BY <1>1, CollectAdds
<1>3. GrantsOf(r)' = Granted(r)
  BY <1>2 DEF Granted
<1>4. Held(r)' = <<>>
  BY <1>2, OfRuleNone DEF Held
<1>5. Granted(r)' = Granted(r) \o <<>>
  BY <1>3, <1>4 DEF Granted
<1>6. Granted(r)' = Granted(r)
  BY <1>5, GrantedType, ConcatEmptySeq
<1>7. Mind(r)' = Mind(r)
  BY DEF OnCommitComplete, Mind
<1> QED
  BY <1>3, <1>6, <1>7

LEMMA GrantedFinalize ==
  ASSUME TypeOK, Finalize, NEW r \in enabled
  PROVE  LET F == Finalized(r, memory[r])
         IN  /\ Granted(r)' = GrantsOf(r)' /\ GrantsOf(r)' = GrantsOf(r) \o F.out
             /\ Granted(r) = GrantsOf(r)
             /\ Mind(r)' = FiniCache(r, F.m) /\ Mind(r) = memory[r]
<1> DEFINE F == Finalized(r, memory[r])
<1>1. /\ phase = "walk" /\ phase' = "idle" /\ pending' = <<>>
      /\ GrantsOf(r)' = GrantsOf(r) \o F.out
      /\ memory'[r] = F.m /\ cache'[r] = FiniCache(r, F.m)
  BY FinalizeView DEF Finalize
<1>2. F.out \in Seq(GrantBy(r)) /\ GrantsOf(r) \in Seq(GrantBy(r))
  <2>1. r \in AllRules /\ memory[r] \in Memory(r)
    BY TypeFacts DEF TypeOK
  <2> QED
    BY <2>1, FinalizedType, GrantsType
<1> HIDE DEF F
<1>3. GrantsOf(r) \o F.out \in Seq(GrantBy(r))
  BY <1>2, ConcatProperties
<1>4. Held(r)' = <<>>
  BY <1>1, OfRuleNone DEF Held
<1>5. Granted(r)' = (GrantsOf(r) \o F.out) \o <<>>
  BY <1>1, <1>4 DEF Granted
<1>6. Granted(r)' = GrantsOf(r)'
  BY <1>1, <1>3, <1>5, ConcatEmptySeq
<1>7. Granted(r) = GrantsOf(r)
  BY <1>1, GrantedType
<1>8. Mind(r)' = FiniCache(r, F.m) /\ Mind(r) = memory[r]
  BY <1>1 DEF Mind
<1> QED
  BY <1>1, <1>6, <1>7, <1>8 DEF F

(* The steps in which nothing is told.                                     *)
LEMMA GrantedOtherwise ==
  ASSUME TypeOK, NEW r \in enabled
  PROVE  /\ \A f \in Facts[enabled] : Push(f) =>
              Granted(r)' = Granted(r) /\ Mind(r)' = Mind(r) /\ GrantsOf(r)' = GrantsOf(r)
         /\ InitCaches => /\ Granted(r)' = Granted(r) /\ GrantsOf(r)' = GrantsOf(r)
                          /\ Mind(r)' = InitCache(r, Mind(r))
         /\ OnCommitStart => /\ Granted(r)' = Granted(r) /\ GrantsOf(r)' = GrantsOf(r)
                             /\ Mind(r)' = CommitStarted(r, Mind(r), at)
         /\ UNCHANGED vars => /\ Granted(r)' = Granted(r) /\ Mind(r)' = Mind(r)
                              /\ GrantsOf(r)' = GrantsOf(r)
<1>1. ASSUME UNCHANGED <<granted, pending>>
      PROVE  Granted(r)' = Granted(r) /\ GrantsOf(r)' = GrantsOf(r)
  BY <1>1 DEF Granted, GrantsOf, Held
<1>2. ASSUME NEW f \in Facts[enabled], Push(f)
      PROVE  Granted(r)' = Granted(r) /\ Mind(r)' = Mind(r) /\ GrantsOf(r)' = GrantsOf(r)
  BY <1>1, <1>2 DEF Push, Mind
<1>3. ASSUME InitCaches
      PROVE  /\ Granted(r)' = Granted(r) /\ GrantsOf(r)' = GrantsOf(r)
             /\ Mind(r)' = InitCache(r, Mind(r))
  BY <1>1, <1>3 DEF InitCaches, Mind
<1>4. ASSUME OnCommitStart
      PROVE  /\ Granted(r)' = Granted(r) /\ GrantsOf(r)' = GrantsOf(r)
             /\ Mind(r)' = CommitStarted(r, Mind(r), at)
  BY <1>1, <1>4 DEF OnCommitStart, Mind
<1>5. ASSUME UNCHANGED vars
      PROVE  Granted(r)' = Granted(r) /\ Mind(r)' = Mind(r) /\ GrantsOf(r)' = GrantsOf(r)
  BY <1>1, <1>5 DEF vars, Mind
<1> QED
  BY <1>2, <1>3, <1>4, <1>5

-----------------------------------------------------------------------------
(***************************************************************************)
(* h009 and h010 know how often each user swore in what they have heard.   *)
(***************************************************************************)
SailorsCounted ==
  \A u \in Users : Mind(9)[u] = Counted(u) /\ Milestones(Granted(9), u, Counted(u))

Leads(m) ==
  IF m.leader = <<>> THEN \A u \in Users : m.counts[u] = 0
  ELSE \A u \in Users : m.counts[u] <= m.counts[m.leader[1]]

LeaderCounted ==
  /\ \A u \in Users : Mind(10).counts[u] = Counted(u)
  /\ Leads(Mind(10))
  /\ phase = "idle" /\ Mind(10).leader # <<>> =>
       GrantsOf(10) # <<>> /\ GrantsOf(10)[Len(GrantsOf(10))].user = Mind(10).leader[1]

SwearsCounted == (9 \in enabled => SailorsCounted) /\ (10 \in enabled => LeaderCounted)

(* What h009 makes of n words of u: all are counted, and the highest of   *)
(* the milestones crossed is granted.                                      *)
SailorHears(P, m, u, n) ==
  /\ n \in Nat
  /\ \A w \in Users : P.m[w] = m[w] + (IF w = u THEN n ELSE 0)
  /\ Crosses(m[u], n) = {} => P.out = <<>>
  /\ Crosses(m[u], n) # {} => /\ P.out # <<>> /\ P.out[1].user = u
                              /\ P.out[1].title = LastOf(Crosses(m[u], n))
  /\ P.out # <<>> => P.out[1].user = u

WordsIn(o) == IF o.kind = "Profanity" THEN o.value ELSE 0

LEMMA SailorProcess ==
  ASSUME NEW m \in Counts, NEW c \in Nat, NEW u \in Users, NEW o \in Observation
  PROVE  SailorHears(Process(9, m, c, u, o), m, u, WordsIn(o))
<1> DEFINE P == Process(9, m, c, u, o)
<1>1. P = LikeASailorProcess(m, c, u, o) /\ \A w \in Users : m[w] \in Nat
  BY DEF Process, Counts
<1>2. CASE o.kind # "Profanity"
  <2>1. P.m = m /\ P.out = <<>>
    BY <1>1, <1>2, KeptIs DEF LikeASailorProcess
  <2>2. Crosses(m[u], 0) = {}
    <3>1. \A t \in SailorThresholds : t \in Nat
      BY RuleThresholdsAssumption
    <3> QED
      BY <1>1, <3>1 DEF Crosses
  <2> HIDE DEF P
  <2> QED
    BY <1>1, <1>2, <2>1, <2>2 DEF P, SailorHears, WordsIn
<1>3. CASE o.kind = "Profanity"
  <2> DEFINE crossed == Crosses(m[u], o.value)
  <2>1. o.value \in Nat
    BY <1>3 DEF Observation, Kinds
  <2>2. P = [m   |-> [m EXCEPT ![u] = @ + o.value],
             out |-> IF crossed = {} THEN <<>> ELSE <<GrantOf(9, c, u, LastOf(crossed))>>]
    BY <1>1, <1>3 DEF LikeASailorProcess, Crosses
  <2>3. \A w \in Users : P.m[w] = m[w] + (IF w = u THEN o.value ELSE 0)
    BY <1>1, <2>1, <2>2 DEF Counts
  <2>4. /\ <<GrantOf(9, c, u, LastOf(crossed))>>[1].user = u
        /\ <<GrantOf(9, c, u, LastOf(crossed))>>[1].title = LastOf(crossed)
        /\ <<GrantOf(9, c, u, LastOf(crossed))>> # <<>>
    BY DEF GrantOf
  <2>5. P.out = IF crossed = {} THEN <<>> ELSE <<GrantOf(9, c, u, LastOf(crossed))>>
    BY <2>2
  <2> HIDE DEF P, crossed
  <2>6. /\ crossed = {} => P.out = <<>>
        /\ crossed # {} => P.out # <<>> /\ P.out[1].user = u /\ P.out[1].title = LastOf(crossed)
        /\ P.out # <<>> => P.out[1].user = u
    BY <2>4, <2>5
  <2> QED
    BY <1>3, <2>1, <2>3, <2>6 DEF P, crossed, SailorHears, WordsIn
<1> QED
  BY <1>2, <1>3

LeaderHears(P, m, u, n) ==
  /\ n \in Nat
  /\ \A w \in Users : P.m.counts[w] = m.counts[w] + (IF w = u THEN n ELSE 0)
  /\ Leads(P.m)

LEMMA LeaderProcess ==
  ASSUME NEW m \in LeaderMemory, NEW c \in Nat, NEW u \in Users, NEW o \in Observation, Leads(m),
         o.kind = "Profanity" => o.value > 0
  PROVE  LeaderHears(Process(10, m, c, u, o), m, u, WordsIn(o))
<1> DEFINE P == Process(10, m, c, u, o)
<1>1. /\ P = MostProfoundProcess(m, c, u, o)
      /\ m.counts \in [Users -> Nat] /\ \A w \in Users : m.counts[w] \in Nat
      /\ m.leader \in Seq(Users) /\ Len(m.leader) <= 1
  BY DEF Process, LeaderMemory, Counts
<1>2. m.leader # <<>> => m.leader[1] \in Users
  BY <1>1
<1>3. CASE o.kind # "Profanity"
  <2>1. P.m = m
    BY <1>1, <1>3, KeptIs DEF MostProfoundProcess
  <2> HIDE DEF P
  <2> QED
    BY <1>1, <1>3, <2>1 DEF P, LeaderHears, WordsIn
<1>4. CASE o.kind = "Profanity"
  <2> DEFINE counts == [m.counts EXCEPT ![u] = @ + o.value]
             leads  == IF m.leader = <<>> THEN 0 ELSE counts[m.leader[1]]
             next   == [counts |-> counts, leader |-> IF counts[u] > leads THEN <<u>> ELSE m.leader]
  <2>1. o.value \in Nat /\ o.value > 0
    BY <1>4 DEF Observation, Kinds
  <2>2. P.m = next
    BY <1>1, <1>4, KeptIs DEF MostProfoundProcess
  <2>3. /\ \A w \in Users : counts[w] = m.counts[w] + (IF w = u THEN o.value ELSE 0)
        /\ \A w \in Users : counts[w] \in Nat
    BY <1>1, <2>1
  <2> HIDE DEF counts
  <2>4. Leads(next)
    <3>1. CASE counts[u] > leads
      <4>1. next.counts = counts /\ next.leader = <<u>> /\ next.leader # <<>> /\ next.leader[1] = u
        BY <3>1
      <4>2. \A w \in Users : counts[w] <= counts[u]
        <5>1. CASE m.leader = <<>>
          <6>1. \A w \in Users : m.counts[w] = 0
            BY <5>1 DEF Leads
          <6> QED
            BY <1>1, <2>1, <2>3, <6>1
        <5>2. CASE m.leader # <<>>
          <6>1. \A w \in Users : m.counts[w] <= m.counts[m.leader[1]]
            BY <5>2 DEF Leads
          <6>2. m.leader[1] \in Users /\ leads = counts[m.leader[1]]
            BY <1>2, <5>2
          <6>3. m.counts[m.leader[1]] <= counts[m.leader[1]] /\ counts[m.leader[1]] < counts[u]
            BY <1>1, <2>1, <2>3, <3>1, <6>2
          <6>4. ASSUME NEW w \in Users, w # u PROVE counts[w] <= counts[u]
            <7>1. counts[w] = m.counts[w] /\ m.counts[w] <= m.counts[m.leader[1]]
              BY <1>1, <2>3, <6>1, <6>4
            <7> QED
              BY <1>1, <2>3, <6>2, <6>3, <7>1
          <6>5. counts[u] <= counts[u]
            BY <2>3
          <6> QED
            BY <6>4, <6>5
        <5> QED
          BY <5>1, <5>2
      <4> QED
        BY <4>1, <4>2 DEF Leads
    <3>2. CASE ~(counts[u] > leads)
      <4>1. next.counts = counts /\ next.leader = m.leader
        BY <3>2
      <4>2. counts[u] > 0
        BY <1>1, <2>1, <2>3
      <4>3. m.leader # <<>>
        BY <3>2, <4>2
      <4>4. /\ \A w \in Users : m.counts[w] <= m.counts[m.leader[1]]
            /\ m.leader[1] \in Users /\ leads = counts[m.leader[1]]
        BY <1>2, <4>3 DEF Leads
      <4>5. ASSUME NEW w \in Users PROVE counts[w] <= counts[m.leader[1]]
        <5>1. CASE w = u
          BY <2>3, <3>2, <4>4, <5>1
        <5>2. CASE w # u
          <6>1. counts[w] = m.counts[w] /\ m.counts[w] <= m.counts[m.leader[1]]
            BY <1>1, <2>3, <4>4, <5>2
          <6>2. m.counts[m.leader[1]] <= counts[m.leader[1]]
            BY <1>1, <2>1, <2>3, <4>4
          <6> QED
            BY <1>1, <2>3, <4>4, <6>1, <6>2
        <5> QED
          BY <5>1, <5>2
      <4> HIDE DEF next
      <4> QED
        BY <4>1, <4>3, <4>5 DEF Leads
    <3> QED
      BY <3>1, <3>2
  <2>5. next.counts = counts
    OBVIOUS
  <2> HIDE DEF P, next
  <2> QED
    BY <1>4, <2>1, <2>2, <2>3, <2>4, <2>5 DEF P, LeaderHears, WordsIn
<1> QED
  BY <1>3, <1>4

(* h009, h010, h018 and h019 add up over runs: their memory starts as      *)
(* their cache says, and nothing happens to it as a commit starts.         *)
LEMMA SwearersPlain ==
  /\ \A r \in {9, 10} : /\ "Profanity" \in Consumes(r)
                        /\ \A c : InitCache(r, c) = c /\ FiniCache(r, c) = c
  /\ \A r \in {9, 10, 18, 19} : \A m, c : CommitStarted(r, m, c) = m
  /\ \A m : Finalized(9, m) = Kept(m) /\ Finalized(10, m) = GrantLeader(m)
BY DEF Consumes, InitCache, FiniCache, CommitStarted, Finalized

LEMMA SailorsSame ==
  ASSUME SailorsCounted, Mind(9)' = Mind(9), Granted(9)' = Granted(9),
         \A u \in Users : Counted(u)' = Counted(u)
  PROVE  SailorsCounted'
<1> SUFFICES ASSUME NEW u \in Users
             PROVE  Mind(9)'[u] = Counted(u)' /\ Milestones(Granted(9)', u, Counted(u)')
  BY DEF SailorsCounted, Milestones
<1>1. Mind(9)[u] = Counted(u) /\ Milestones(Granted(9), u, Counted(u))
  BY DEF SailorsCounted
<1> HIDE DEF Mind, Granted, Counted
<1> QED
  BY <1>1

LEMMA SailorsObservation ==
  ASSUME TypeOK, HeldOnce, 9 \in enabled, SailorsCounted, NEW o \in todo, OnObservation(o)
  PROVE  SailorsCounted'
<1> DEFINE v == history[at].author
           m == memory[9]
           P == Process(9, m, at, v, o)
           n == WordsIn(o)
<1>1. /\ Granted(9)' = Granted(9) \o P.out /\ P.out \in OneOf(9)
      /\ Mind(9)' = P.m /\ Mind(9) = m
  BY GrantedOnObservation
<1>2. o \in Observation /\ at \in Nat /\ v \in Users
  <2>1. o \in Observation /\ at \in 1..Len(history) /\ v \in Users
    BY ObservationView
  <2> QED
    BY <2>1, TypeFacts
<1>3. m \in Counts
  BY MemoryIs DEF TypeOK
<1>4. Granted(9) \in Seq(GrantBy(9))
  BY GrantedType
<1>5. \A u \in Users : Counted(u)' = Counted(u) + (IF o.kind = "Profanity" /\ v = u
                                                   THEN o.value ELSE 0)
  BY CountedOnObservation
<1> HIDE DEF v, m
<1>6. /\ n \in Nat
      /\ \A w \in Users : P.m[w] = m[w] + (IF w = v THEN n ELSE 0)
      /\ Crosses(m[v], n) = {} => P.out = <<>>
      /\ Crosses(m[v], n) # {} => /\ P.out # <<>> /\ P.out[1].user = v
                                  /\ P.out[1].title = LastOf(Crosses(m[v], n))
      /\ P.out # <<>> => P.out[1].user = v
  <2>1. SailorHears(P, m, v, n)
    BY <1>2, <1>3, SailorProcess
  <2> QED
    BY <2>1 DEF SailorHears
<1>7. \A u \in Users : Counted(u)' = Counted(u) + (IF u = v THEN n ELSE 0)
  <2>1. \A u \in Users : (IF o.kind = "Profanity" /\ v = u THEN o.value ELSE 0)
                           = IF u = v THEN n ELSE 0
    BY DEF n, WordsIn
  <2> HIDE DEF n
  <2> QED
    BY <1>5, <2>1
<1> HIDE DEF n, P
<1>8. ASSUME NEW u \in Users
      PROVE  Mind(9)'[u] = Counted(u)' /\ Milestones(Granted(9), u, Counted(u))'
  <2>1. m[u] = Counted(u) /\ m[u] \in Nat /\ Milestones(Granted(9), u, m[u])
    BY <1>1, <1>3 DEF SailorsCounted, Counts
  <2>2. Mind(9)'[u] = Counted(u)'
    BY <1>1, <1>6, <1>7, <2>1
  <2>3. CASE u = v
    <3> DEFINE g == Granted(9)
               x == P.out
    <3>1. g \in Seq(GrantBy(9)) /\ x \in OneOf(9) /\ Milestones(g, u, m[u])
      BY <1>1, <1>4, <2>1
    <3>2. /\ Crosses(m[u], n) = {} => x = <<>>
          /\ Crosses(m[u], n) # {} => x # <<>> /\ x[1].user = u /\ x[1].title = LastOf(Crosses(m[u], n))
      BY <1>6, <2>3
    <3> HIDE DEF g, x
    <3>3. Milestones(g \o x, u, m[u] + n)
      BY <1>6, <2>1, <3>1, <3>2, MilestonesAdd
    <3>4. Counted(u)' = m[u] + n
      BY <1>7, <2>1, <2>3
    <3> QED
      BY <1>1, <2>2, <3>3, <3>4 DEF g, x, Milestones
  <2>4. CASE u # v
    <3> DEFINE g == Granted(9)
               x == P.out
    <3>1. g \in Seq(GrantBy(9)) /\ x \in OneOf(9) /\ Milestones(g, u, m[u])
      BY <1>1, <1>4, <2>1
    <3>2. x = <<>> \/ x[1].user # u
      BY <1>6, <2>4
    <3> HIDE DEF g, x
    <3>3. Milestones(g \o x, u, m[u])
      BY <3>1, <3>2, MilestonesOthers
    <3>4. Counted(u)' = m[u]
      BY <1>7, <2>1, <2>4
    <3> QED
      BY <1>1, <2>2, <3>3, <3>4 DEF g, x, Milestones
  <2> QED
    BY <2>3, <2>4
<1> QED
  BY <1>8 DEF SailorsCounted

LEMMA SailorsStep ==
  ASSUME TypeOK, HeldOnce, 9 \in enabled, SailorsCounted, [Next]_vars
  PROVE  SailorsCounted'
<1>1. ASSUME NEW f \in Facts[enabled], Push(f) PROVE SailorsCounted'
  BY <1>1, GrantedOtherwise, CountedPush, SailorsSame
<1>2. CASE InitCaches
  <2>1. Mind(9)' = Mind(9) /\ Granted(9)' = Granted(9)
    BY <1>2, GrantedOtherwise, SwearersPlain
  <2> QED
    BY <1>2, <2>1, CountedInitCaches, SailorsSame
<1>3. CASE OnCommitStart
  <2>1. Mind(9)' = Mind(9) /\ Granted(9)' = Granted(9)
    BY <1>3, GrantedOtherwise, SwearersPlain
  <2> QED
    BY <1>3, <2>1, CountedOnCommitStart, SailorsSame
<1>4. ASSUME NEW o \in todo, OnObservation(o) PROVE SailorsCounted'
  BY <1>4, SailorsObservation
<1>5. CASE OnCommitComplete
  <2>1. Mind(9)' = Mind(9) /\ Granted(9)' = Granted(9)
    BY <1>5, GrantedOnCommitComplete
  <2>2. \A u \in Users : Counted(u)' = Counted(u)
    BY <1>5, CountedOnCommitComplete, SwearersPlain
  <2> QED
    BY <2>1, <2>2, SailorsSame
<1>6. CASE Finalize
  <2>1. Finalized(9, memory[9]).m = memory[9] /\ Finalized(9, memory[9]).out = <<>>
    BY SwearersPlain, KeptIs
  <2>2. Mind(9)' = Mind(9) /\ Granted(9)' = Granted(9) \o <<>>
    BY <1>6, <2>1, GrantedFinalize, SwearersPlain
  <2>3. Granted(9)' = Granted(9)
    BY <2>2, GrantedType, ConcatEmptySeq
  <2> QED
    BY <1>6, <2>2, <2>3, CountedFinalize, SailorsSame
<1>7. CASE UNCHANGED vars
  <2>1. Mind(9)' = Mind(9) /\ Granted(9)' = Granted(9)
    BY <1>7, GrantedOtherwise
  <2>2. \A u \in Users : Counted(u)' = Counted(u)
    <3>1. UNCHANGED <<phase, at, history, processed, Told>>
      BY <1>7 DEF vars, Told, processed, Observed
    <3> QED
      BY <3>1, CountedSame
  <2> QED
    BY <2>1, <2>2, SailorsSame
<1> QED
  BY <1>1, <1>2, <1>3, <1>4, <1>5, <1>6, <1>7 DEF Next

LEMMA LeaderSame ==
  ASSUME LeaderCounted, Mind(10)' = Mind(10), GrantsOf(10)' = GrantsOf(10), phase' = "idle" => phase = "idle",
         \A u \in Users : Counted(u)' = Counted(u)
  PROVE  LeaderCounted'
<1>1. /\ \A u \in Users : Mind(10).counts[u] = Counted(u)
      /\ Leads(Mind(10))
      /\ phase = "idle" /\ Mind(10).leader # <<>> =>
           GrantsOf(10) # <<>> /\ GrantsOf(10)[Len(GrantsOf(10))].user = Mind(10).leader[1]
  BY DEF LeaderCounted
<1> HIDE DEF Mind, GrantsOf, Counted
<1> QED
  BY <1>1 DEF LeaderCounted, Leads

LEMMA LeaderObservation ==
  ASSUME TypeOK, HeldOnce, 10 \in enabled, LeaderCounted, NEW o \in todo, OnObservation(o)
  PROVE  LeaderCounted'
<1> DEFINE v == history[at].author
           m == memory[10]
           P == Process(10, m, at, v, o)
           n == WordsIn(o)
<1>1. Mind(10)' = P.m /\ Mind(10) = m
  BY GrantedOnObservation
<1>2. o \in Observation /\ at \in Nat /\ v \in Users /\ (o.kind = "Profanity" => o.value > 0)
  <2>1. o \in Observation /\ at \in 1..Len(history) /\ v \in Users /\ o \in Observed(history[at])
    BY ObservationView
  <2>2. at \in Nat /\ history[at] \in Fact
    BY <2>1, TypeFacts
  <2>3. o.kind = "Profanity" => o.value = history[at].swears /\ history[at].swears > 0
    BY <2>1, <2>2, ObservedOf
  <2> QED
    BY <2>1, <2>2, <2>3
<1>3. m \in LeaderMemory /\ \A u \in Users : m.counts[u] \in Nat
  <2>1. m \in LeaderMemory
    BY MemoryIs DEF TypeOK
  <2> HIDE DEF m
  <2> QED
    BY <2>1 DEF LeaderMemory, Counts
<1>4. Leads(m) /\ \A u \in Users : m.counts[u] = Counted(u)
  BY <1>1 DEF LeaderCounted
<1>5. \A u \in Users : Counted(u)' = Counted(u) + (IF o.kind = "Profanity" /\ v = u
                                                   THEN o.value ELSE 0)
  BY CountedOnObservation
<1>6. phase' # "idle"
  BY DEF OnObservation
<1> HIDE DEF v, m
<1>7. LeaderHears(P, m, v, n)
  BY <1>2, <1>3, <1>4, LeaderProcess
<1>8. \A u \in Users : Counted(u)' = Counted(u) + (IF u = v THEN n ELSE 0)
  <2>1. \A u \in Users : (IF o.kind = "Profanity" /\ v = u THEN o.value ELSE 0)
                           = IF u = v THEN n ELSE 0
    BY DEF n, WordsIn
  <2> HIDE DEF n
  <2> QED
    BY <1>5, <2>1
<1> HIDE DEF n, P
<1>9. Leads(P.m) /\ \A u \in Users : P.m.counts[u] = Counted(u)'
  BY <1>4, <1>7, <1>8 DEF LeaderHears
<1> QED
  BY <1>1, <1>6, <1>9 DEF LeaderCounted, Leads

LEMMA LeaderFinalize ==
  ASSUME TypeOK, 10 \in enabled, LeaderCounted, Finalize
  PROVE  LeaderCounted'
<1> DEFINE m == memory[10]
           F == Finalized(10, m)
<1>1. /\ GrantsOf(10)' = GrantsOf(10) \o F.out
      /\ Mind(10)' = FiniCache(10, F.m) /\ Mind(10) = m
  BY GrantedFinalize
<1>2. F.m = m /\ F.out = IF m.leader = <<>> THEN <<>> ELSE <<GrantOf(10, NullCommit, m.leader[1], 0)>>
  BY SwearersPlain DEF GrantLeader
<1>3. Mind(10)' = Mind(10)
  BY <1>1, <1>2, SwearersPlain
<1>4. /\ Leads(m) /\ \A u \in Users : m.counts[u] = Counted(u)
      /\ \A u \in Users : Counted(u)' = Counted(u)
  BY <1>1, CountedFinalize DEF LeaderCounted
<1>5. m.leader \in Seq(Users) /\ GrantsOf(10) \in Seq(GrantBy(10))
  <2>1. m \in LeaderMemory
    BY MemoryIs DEF TypeOK
  <2> QED
    BY <2>1, GrantsType DEF LeaderMemory
<1>6. m.leader # <<>> =>
        GrantsOf(10)' # <<>> /\ GrantsOf(10)'[Len(GrantsOf(10)')].user = m.leader[1]
  <2> SUFFICES ASSUME m.leader # <<>>
               PROVE  GrantsOf(10)' # <<>> /\ GrantsOf(10)'[Len(GrantsOf(10)')].user = m.leader[1]
    OBVIOUS
  <2> DEFINE u == m.leader[1]
             x == <<GrantOf(10, NullCommit, u, 0)>>
             s == GrantsOf(10)
  <2>1. u \in Users /\ s \in Seq(GrantBy(10))
    BY <1>5
  <2>2. GrantsOf(10)' = s \o x
    BY <1>1, <1>2
  <2> HIDE DEF u, s, m
  <2>3. x \in OneOf(10) /\ x # <<>> /\ x[1].user = u
    BY <2>1, 0 \in Nat, NullCommit \in Nat, GrantOfType DEF GrantOf, NullCommit
  <2> HIDE DEF x
  <2>4. Adds(s, x, s \o x)
    BY <2>1, <2>3, AddsOne
  <2>5. Len(s \o x) = Len(s) + 1 /\ (s \o x)[Len(s) + 1] = x[1] /\ s \o x # <<>>
    BY <2>1, <2>3, <2>4, LenProperties DEF Adds
  <2> QED
    BY <2>2, <2>3, <2>5 DEF u
<1> HIDE DEF m, F
<1> QED
  BY <1>1, <1>3, <1>4, <1>6 DEF LeaderCounted, Leads

LEMMA LeaderStep ==
  ASSUME TypeOK, HeldOnce, 10 \in enabled, LeaderCounted, [Next]_vars
  PROVE  LeaderCounted'
<1>1. ASSUME NEW f \in Facts[enabled], Push(f) PROVE LeaderCounted'
  BY <1>1, GrantedOtherwise, CountedPush, LeaderSame DEF Push
<1>2. CASE InitCaches
  <2>1. Mind(10)' = Mind(10) /\ GrantsOf(10)' = GrantsOf(10)
    BY <1>2, GrantedOtherwise, SwearersPlain
  <2> QED
    BY <1>2, <2>1, CountedInitCaches, LeaderSame DEF InitCaches
<1>3. CASE OnCommitStart
  <2>1. Mind(10)' = Mind(10) /\ GrantsOf(10)' = GrantsOf(10)
    BY <1>3, GrantedOtherwise, SwearersPlain
  <2> QED
    BY <1>3, <2>1, CountedOnCommitStart, LeaderSame DEF OnCommitStart
<1>4. ASSUME NEW o \in todo, OnObservation(o) PROVE LeaderCounted'
  BY <1>4, LeaderObservation
<1>5. CASE OnCommitComplete
  <2>1. Mind(10)' = Mind(10) /\ GrantsOf(10)' = GrantsOf(10) /\ phase' # "idle"
    <3>1. GrantsOf(10)' = Granted(10)
      BY <1>5, GrantedOnCommitComplete
    <3>2. Held(10) = <<>>
      BY DEF HeldOnce, Prompt, Stateless
    <3>3. Granted(10) = GrantsOf(10)
      BY <3>2, GrantsType, ConcatEmptySeq DEF Granted
    <3> QED
      BY <1>5, <3>1, <3>3, GrantedOnCommitComplete DEF OnCommitComplete
  <2>2. \A u \in Users : Counted(u)' = Counted(u)
    BY <1>5, CountedOnCommitComplete, SwearersPlain
  <2> QED
    BY <2>1, <2>2, LeaderSame
<1>6. CASE Finalize
  BY <1>6, LeaderFinalize
<1>7. CASE UNCHANGED vars
  <2>1. Mind(10)' = Mind(10) /\ GrantsOf(10)' = GrantsOf(10) /\ phase' = phase
    BY <1>7, GrantedOtherwise DEF vars
  <2>2. \A u \in Users : Counted(u)' = Counted(u)
    <3>1. UNCHANGED <<phase, at, history, processed, Told>>
      BY <1>7 DEF vars, Told, processed, Observed
    <3> QED
      BY <3>1, CountedSame
  <2> QED
    BY <2>1, <2>2, LeaderSame
<1> QED
  BY <1>1, <1>2, <1>3, <1>4, <1>5, <1>6, <1>7 DEF Next

(* Nothing has been met, and nothing granted.                              *)
LEMMA NothingYet ==
  ASSUME Init
  PROVE  /\ TypeOK /\ Seen = {} /\ phase = "idle" /\ processed = 0 /\ Len(history) = 0
         /\ \A r \in enabled : GrantsOf(r) = <<>> /\ Granted(r) = <<>> /\ Mind(r) = NoCache(r)
         /\ \A u : Counted(u) = 0
<1>1. TypeOK /\ phase = "idle" /\ granted = <<>> /\ \A r \in enabled : cache[r] = NoCache(r)
  BY TypeInit DEF Init
<1>2. Len(history) = 0
  BY EmptySeq DEF Init
<1>3. Seen = {} /\ processed = 0
  BY <1>1, <1>2, MetType, TypeFacts
<1>4. ASSUME NEW r \in enabled
      PROVE  GrantsOf(r) = <<>> /\ Granted(r) = <<>> /\ Mind(r) = NoCache(r)
  BY <1>1, GrantsNone, GrantedType DEF Mind
<1>5. ASSUME NEW u PROVE Counted(u) = 0
  <2>1. Swears(u) = 0
    BY <1>1, <1>3, TotalType
  <2>2. HeardWords(u) = 0
    BY <1>1 DEF HeardWords
  <2> QED
    BY <2>1, <2>2 DEF Counted
<1> QED
  BY <1>1, <1>2, <1>3, <1>4, <1>5

LEMMA SwearsInit == Init => SwearsCounted
<1> SUFFICES ASSUME Init PROVE SwearsCounted
  OBVIOUS
<1>1. ASSUME 9 \in enabled PROVE SailorsCounted
  <2>1. Mind(9) = NoCounts /\ Granted(9) = <<>> /\ \A u \in Users : Counted(u) = 0
    BY <1>1, NothingYet DEF NoCache
  <2>2. Passed(0) = {}
    <3>1. \A t \in SailorThresholds : t \in Nat /\ t # 0
      BY RuleThresholdsAssumption
    <3>2. \A t \in SailorThresholds : ~(t <= 0)
      BY <3>1
    <3> QED
      BY <3>2 DEF Passed
  <2>3. \A u : OwnOf(<<>>, u) = <<>>
    <3>1. DOMAIN <<>> = {}
      OBVIOUS
    <3> QED
      BY <3>1, PartNone DEF OwnOf
  <2>4. \A u : Milestones(<<>>, u, 0)
    <3>1. DOMAIN <<>> = {}
      OBVIOUS
    <3> QED
      BY <2>2, <2>3, <3>1, MilestonesAre
  <2> QED
    BY <2>1, <2>4 DEF SailorsCounted, NoCounts
<1>2. ASSUME 10 \in enabled PROVE LeaderCounted
  <2>1. /\ Mind(10) = [counts |-> NoCounts, leader |-> <<>>]
        /\ \A u \in Users : Counted(u) = 0
    BY <1>2, NothingYet DEF NoCache
  <2> QED
    BY <2>1 DEF LeaderCounted, Leads, NoCounts
<1> QED
  BY <1>1, <1>2 DEF SwearsCounted

LEMMA SwearsStep ==
  ASSUME TypeOK, HeldOnce, SwearsCounted, [Next]_vars
  PROVE  SwearsCounted'
<1>1. enabled' = enabled
  BY DEF Next, vars, Push, InitCaches, OnCommitStart, OnObservation, OnCommitComplete, Finalize
<1> QED
  BY <1>1, SailorsStep, LeaderStep DEF SwearsCounted

(* What CountsAddUp says of h009 and h010.                                 *)
LEMMA SwearsAddUp ==
  ASSUME TypeOK, SwearsCounted, Settled
  PROVE  /\ 9 \in enabled => \A u \in Users : Milestones(GrantsOf(9), u, Swears(u))
         /\ 10 \in enabled /\ (\E u \in Users : Swears(u) > 0) =>
              LET own == GrantsOf(10)
              IN  own # <<>> /\ \A u \in Users : Swears(own[Len(own)].user) >= Swears(u)
<1>1. phase = "idle" /\ \A u \in Users : Swears(u) = Counted(u) /\ Swears(u) \in Nat
  <2>1. \A u \in Users : Swears(u) \in Nat /\ HeardWords(u) = 0
    BY TotalType DEF Settled, HeardWords
  <2> QED
    BY <2>1 DEF Settled, Counted
<1>2. 9 \in enabled => \A u \in Users : Milestones(GrantsOf(9), u, Swears(u))
  BY <1>1, GrantedType DEF SwearsCounted, SailorsCounted
<1>3. ASSUME 10 \in enabled, NEW w \in Users, Swears(w) > 0
      PROVE  LET own == GrantsOf(10)
             IN  own # <<>> /\ \A u \in Users : Swears(own[Len(own)].user) >= Swears(u)
  <2> DEFINE m == Mind(10)
  <2>1. /\ \A u \in Users : m.counts[u] = Swears(u)
        /\ Leads(m)
        /\ m.leader # <<>> =>
             GrantsOf(10) # <<>> /\ GrantsOf(10)[Len(GrantsOf(10))].user = m.leader[1]
    BY <1>1, <1>3 DEF SwearsCounted, LeaderCounted
  <2>2. m.leader \in Seq(Users)
    <3>1. cache[10] \in LeaderMemory /\ m = cache[10]
      BY <1>1, <1>3, MemoryIs DEF TypeOK, Mind
    <3> HIDE DEF m
    <3> QED
      BY <3>1 DEF LeaderMemory
  <2> HIDE DEF m
  <2>3. m.leader # <<>>
    BY <1>1, <1>3, <2>1 DEF Leads
  <2>4. m.leader[1] \in Users
    BY <2>2, <2>3
  <2>5. \A u \in Users : Swears(u) <= Swears(m.leader[1])
    BY <2>1, <2>3, <2>4 DEF Leads
  <2>6. \A u \in Users : Swears(m.leader[1]) >= Swears(u)
    BY <1>1, <2>4, <2>5
  <2> QED
    BY <2>1, <2>3, <2>6
<1> QED
  BY <1>2, <1>3

-----------------------------------------------------------------------------
(***************************************************************************)
(* What grants say.                                                        *)
(***************************************************************************)
LEMMA SaidConcat ==
  ASSUME NEW X, NEW s \in Seq(X), NEW t \in Seq(X)
  PROVE  Said(s \o t) = Said(s) \cup Said(t)
<1> DEFINE m == Len(s)
           n == Len(t)
           e(g) == <<g.commit, g.title>>
<1>1. /\ m \in Nat /\ n \in Nat /\ DOMAIN s = 1..m /\ DOMAIN t = 1..n
      /\ DOMAIN (s \o t) = 1 .. m + n
      /\ \A i \in 1 .. m + n : (s \o t)[i] = IF i <= m THEN s[i] ELSE t[i - m]
  BY LenProperties, ConcatProperties
<1> HIDE DEF m, n
<1>2. /\ Said(s \o t) = {e((s \o t)[i]) : i \in 1 .. m + n}
      /\ Said(s) = {e(s[i]) : i \in 1..m} /\ Said(t) = {e(t[i]) : i \in 1..n}
  BY <1>1 DEF Said
<1> HIDE DEF e
<1>3. ASSUME NEW x \in Said(s \o t) PROVE x \in Said(s) \cup Said(t)
  <2>1. PICK i \in 1 .. m + n : x = e((s \o t)[i])
    BY <1>2
  <2>2. CASE i <= m
    <3>1. i \in 1..m /\ x = e(s[i])
      BY <1>1, <2>1, <2>2
    <3> QED
      BY <1>2, <3>1
  <2>3. CASE ~(i <= m)
    <3>1. i - m \in 1..n /\ x = e(t[i - m])
      BY <1>1, <2>1, <2>3
    <3> QED
      BY <1>2, <3>1
  <2> QED
    BY <2>2, <2>3
<1>4. ASSUME NEW x \in Said(s) PROVE x \in Said(s \o t)
  <2>1. PICK i \in 1..m : x = e(s[i])
    BY <1>2
  <2>2. i \in 1 .. m + n /\ (s \o t)[i] = s[i]
    BY <1>1
  <2> QED
    BY <1>2, <2>1, <2>2
<1>5. ASSUME NEW x \in Said(t) PROVE x \in Said(s \o t)
  <2>1. PICK i \in 1..n : x = e(t[i])
    BY <1>2
  <2>2. m + i \in 1 .. m + n /\ (s \o t)[m + i] = t[i]
    <3>1. m + i \in 1 .. m + n /\ ~(m + i <= m) /\ (m + i) - m = i
      BY <1>1
    <3> QED
      BY <1>1, <3>1
  <2> QED
    BY <1>2, <2>1, <2>2
<1> QED
  BY <1>3, <1>4, <1>5

LEMMA SaidPart ==
  ASSUME NEW X, NEW s \in Seq(X), NEW S \in SUBSET DOMAIN s
  PROVE  Said(Part(s, S)) = {<<s[i].commit, s[i].title>> : i \in S}
<1> DEFINE p == Part(s, S)
           e(g) == <<g.commit, g.title>>
<1>1. {p[k] : k \in DOMAIN p} = {s[i] : i \in S}
  BY PartValues
<1>2. Said(p) = {e(p[k]) : k \in DOMAIN p}
  BY DEF Said
<1> HIDE DEF p, e
<1>3. \A x : x \in {e(p[k]) : k \in DOMAIN p} <=> \E g \in {p[k] : k \in DOMAIN p} : x = e(g)
  OBVIOUS
<1>4. \A x : x \in {e(s[i]) : i \in S} <=> \E g \in {s[i] : i \in S} : x = e(g)
  OBVIOUS
<1>5. Said(p) = {e(s[i]) : i \in S}
  BY <1>1, <1>2, <1>3, <1>4
<1> QED
  BY <1>5 DEF p, e

-----------------------------------------------------------------------------
(***************************************************************************)
(* h018 numbers the roots by age.                                          *)
(***************************************************************************)
RootsIn(S)  == {c \in S : history[c].parents = 0}
Numbered(R) == {<<c, RankIn(R, c)>> : c \in {d \in R : \E first \in R : first < d}}

(* Younger roots are numbered on.                                          *)
LEMMA NumberedOn ==
  ASSUME NEW n \in Nat, NEW R \in SUBSET (1..n), NEW N \in SUBSET (1..n),
         \A c \in R, d \in N : c < d
  PROVE  /\ Cardinality(R \cup N) = Cardinality(R) + Cardinality(N)
         /\ \A c \in N : RankIn(R \cup N, c) = Cardinality(R) + RankIn(N, c)
         /\ Numbered(R \cup N) = Numbered(R) \cup
              {<<c, Cardinality(R) + RankIn(N, c)>> :
                 c \in {d \in N : Cardinality(R) + RankIn(N, d) > 1}}
<1> DEFINE U == R \cup N
           r == Cardinality(R)
<1>1. IsFiniteSet(R) /\ IsFiniteSet(N) /\ r \in Nat /\ \A c \in N : RankIn(N, c) \in Nat
  <2>1. \A c \in N : RankIn(N, c) \in 1..Cardinality(N) /\ Cardinality(N) \in Nat
    BY RankProperties
  <2>2. IsFiniteSet(R) /\ IsFiniteSet(N) /\ r \in Nat
    BY RankProperties
  <2> QED
    BY <2>1, <2>2
<1>2. \A c \in U : c \in Nat
  OBVIOUS
<1>3. R \cap N = {}
  <2>1. \A c \in R : c \in Nat
    OBVIOUS
  <2>2. \A c \in R : ~(c < c)
    BY <2>1
  <2> QED
    BY <2>2
<1>4. Cardinality(U) = r + Cardinality(N)
  BY <1>1, <1>3, DisjointUnion
<1>5. ASSUME NEW c \in N PROVE RankIn(U, c) = r + RankIn(N, c)
  <2> DEFINE T == {j \in N : j <= c}
  <2>1. {j \in U : j <= c} = R \cup T
    <3>1. \A j \in R : j <= c
      BY <1>2
    <3> QED
      BY <3>1
  <2>2. IsFiniteSet(T) /\ R \cap T = {}
    <3>1. T \in SUBSET N
      OBVIOUS
    <3> QED
      BY <1>1, <1>3, <3>1, FS_Subset
  <2> HIDE DEF T
  <2>3. Cardinality(R \cup T) = r + Cardinality(T)
    BY <1>1, <2>2, DisjointUnion
  <2> QED
    BY <2>1, <2>3 DEF RankIn, T
<1>6. ASSUME NEW c \in R
      PROVE  /\ RankIn(U, c) = RankIn(R, c)
             /\ (\E first \in U : first < c) <=> (\E first \in R : first < c)
  <2>1. \A j \in N : ~(j <= c) /\ ~(j < c)
    <3>1. \A j \in N : c < j /\ j \in Nat /\ c \in Nat
      BY <1>2
    <3> QED
      BY <3>1
  <2>2. {j \in U : j <= c} = {j \in R : j <= c}
    BY <2>1
  <2> QED
    BY <2>1, <2>2 DEF RankIn
<1>7. ASSUME NEW c \in N
      PROVE  (\E first \in U : first < c) <=> r + RankIn(N, c) > 1
  <2>0. U \in SUBSET (1..n)
    OBVIOUS
  <2> HIDE DEF U
  <2>1. /\ \A i \in U : RankIn(U, i) \in 1..Cardinality(U)
        /\ \A i, j \in U : i < j => RankIn(U, i) < RankIn(U, j)
        /\ Cardinality(U) \in Nat
    BY <2>0, RankProperties
  <2>2. c \in U /\ RankIn(U, c) = r + RankIn(N, c)
    BY <1>5 DEF U
  <2>3. ASSUME NEW first \in U, first < c PROVE RankIn(U, c) > 1
    <3>1. RankIn(U, first) < RankIn(U, c) /\ RankIn(U, first) \in 1..Cardinality(U)
          /\ RankIn(U, c) \in 1..Cardinality(U)
      BY <2>1, <2>2, <2>3
    <3> QED
      BY <2>1, <3>1
  <2>4. ASSUME ~\E first \in U : first < c PROVE RankIn(U, c) = 1
    <3>1. {j \in U : j <= c} = {c}
      <4>1. \A j \in U : j <= c <=> j < c \/ j = c
        BY <1>2, <2>2 DEF U
      <4> QED
        BY <2>2, <2>4, <4>1
    <3> QED
      BY <3>1, FS_Singleton DEF RankIn
  <2> QED
    BY <2>2, <2>3, <2>4
<1> DEFINE old == {d \in R : \E first \in R : first < d}
           new == {d \in N : r + RankIn(N, d) > 1}
<1>8. {d \in U : \E first \in U : first < d} = old \cup new
  BY <1>6, <1>7
<1>9. Numbered(U) = {<<c, RankIn(U, c)>> : c \in old} \cup {<<c, RankIn(U, c)>> : c \in new}
  <2> HIDE DEF old, new, U
  <2> QED
    BY <1>8 DEF Numbered
<1>10. {<<c, RankIn(U, c)>> : c \in old} = {<<c, RankIn(R, c)>> : c \in old}
  BY <1>6
<1>11. {<<c, RankIn(U, c)>> : c \in new} = {<<c, r + RankIn(N, c)>> : c \in new}
  BY <1>5
<1>12. Numbered(R) = {<<c, RankIn(R, c)>> : c \in old}
  BY DEF Numbered
<1>13. Numbered(U) = Numbered(R) \cup {<<c, r + RankIn(N, c)>> : c \in new}
  <2> HIDE DEF old, new, U, r
  <2> QED
    BY <1>9, <1>10, <1>11, <1>12
<1> QED
  BY <1>4, <1>5, <1>13

(* What h018 makes of the roots N of a run.                                *)
RootsFound(G, n, N) ==
  /\ G.m = [count |-> n + Cardinality(N), roots |-> {}]
  /\ Said(G.out) = {<<c, n + RankIn(N, c)>> : c \in {d \in N : n + RankIn(N, d) > 1}}

LEMMA RootsGranted ==
  ASSUME NEW m \in RootsMemory, NEW n \in Nat, NEW N \in SUBSET (1..n), NEW f,
         m.roots = {[commit |-> c, user |-> f[c]] : c \in N}
  PROVE  RootsFound(GrantRoots(m), m.count, N)
<1> DEFINE roots == InTime(m.roots)
           all == [i \in DOMAIN roots |->
                     GrantOf(18, roots[i].commit, roots[i].user, m.count + i)]
           K == Cardinality(N)
<1>1. {x.commit : x \in m.roots} = N
  <2> DEFINE line(c) == [commit |-> c, user |-> f[c]]
  <2>1. \A c \in N : line(c) \in m.roots /\ line(c).commit = c
    OBVIOUS
  <2>2. \A x \in m.roots : x.commit \in N
    OBVIOUS
  <2> HIDE DEF line
  <2>3. \A c \in N : c \in {x.commit : x \in m.roots}
    BY <2>1
  <2> QED
    BY <2>2, <2>3
<1>2. /\ roots \in Seq(m.roots) /\ Len(roots) = K /\ K \in Nat
      /\ \A k \in 1..K : roots[k].commit = NthOf(N, k)
  <2>1. \A x \in m.roots : x.commit \in 1..n
    BY <1>1
  <2> QED
    BY <1>1, <2>1, InTimeType
<1>3. DOMAIN roots = 1..K
  BY <1>2, LenProperties
<1> HIDE DEF roots
<1>4. /\ DOMAIN all = 1..K
      /\ \A i \in 1..K : all[i].commit = NthOf(N, i) /\ all[i].title = m.count + i
  BY <1>2, <1>3 DEF GrantOf
<1>5. all \in Seq({all[i] : i \in 1..K})
  <2>1. all = [i \in 1..K |-> all[i]]
    BY <1>3
  <2> HIDE DEF all
  <2>2. all \in [1..K -> {all[i] : i \in 1..K}]
    BY <1>4, <2>1
  <2> QED
    BY <1>2, <2>2, SeqDef
<1> DEFINE S == {i \in DOMAIN all : all[i].title > 1}
<1>6. GrantRoots(m) = [m |-> [count |-> m.count + Len(roots), roots |-> {}], out |-> Part(all, S)]
  BY DEF GrantRoots, ButTheFirst, roots
<1>7. Said(Part(all, S)) = {<<all[i].commit, all[i].title>> : i \in S}
  <2>1. S \in SUBSET DOMAIN all
    OBVIOUS
  <2> HIDE DEF S, all
  <2> QED
    BY <1>5, <2>1, SaidPart
<1>8. S = {i \in 1..K : m.count + i > 1}
  <2> HIDE DEF all
  <2> QED
    BY <1>4 DEF S
<1>9. {<<all[i].commit, all[i].title>> : i \in S} = {<<NthOf(N, i), m.count + i>> : i \in S}
  <2> HIDE DEF all
  <2> QED
    BY <1>4, <1>8
<1>10. /\ \A c \in N : RankIn(N, c) \in 1..K /\ NthOf(N, RankIn(N, c)) = c
       /\ \A i \in 1..K : NthOf(N, i) \in N /\ RankIn(N, NthOf(N, i)) = i
  BY RankProperties, NthProperties
<1>11. {<<NthOf(N, i), m.count + i>> : i \in {i \in 1..K : m.count + i > 1}} =
         {<<c, m.count + RankIn(N, c)>> : c \in {d \in N : m.count + RankIn(N, d) > 1}}
  <2> DEFINE A == {i \in 1..K : m.count + i > 1}
             B == {d \in N : m.count + RankIn(N, d) > 1}
             a(i) == <<NthOf(N, i), m.count + i>>
             b(c) == <<c, m.count + RankIn(N, c)>>
  <2>1. \A i \in A : NthOf(N, i) \in B /\ b(NthOf(N, i)) = a(i)
    BY <1>10
  <2>2. \A c \in B : RankIn(N, c) \in A /\ a(RankIn(N, c)) = b(c)
    BY <1>10
  <2> HIDE DEF A, B, a, b
  <2>3. {a(i) : i \in A} = {b(c) : c \in B}
    BY <2>1, <2>2
  <2> QED
    BY <2>3 DEF A, B, a, b
<1> HIDE DEF all, S, K
<1>12. GrantRoots(m).m = [count |-> m.count + Len(roots), roots |-> {}] /\ GrantRoots(m).out = Part(all, S)
  BY <1>6
<1> QED
  BY <1>2, <1>7, <1>8, <1>9, <1>11, <1>12 DEF K, RootsFound

(* The roots of what earlier runs saw are counted and numbered; those this *)
(* run found wait.                                                         *)
RootsSettled ==
  /\ cache[18] = Cardinality(RootsIn(Seen))
  /\ Said(GrantsOf(18)) = Numbered(RootsIn(Seen))

RootsHeard ==
  phase # "idle" =>
    /\ memory[18].count = cache[18]
    /\ memory[18].roots = {[commit |-> c, user |-> history[c].author] : c \in RootsIn(HeardInRun(18))}

RootsSettle == 18 \in enabled => RootsSettled /\ RootsHeard

LEMMA RootsSettledSame ==
  ASSUME RootsSettled, Seen' = Seen, cache'[18] = cache[18], GrantsOf(18)' = GrantsOf(18),
         \A c \in Seen : history'[c] = history[c]
  PROVE  RootsSettled'
<1>1. RootsIn(Seen)' = RootsIn(Seen)
  <2> HIDE DEF Seen
  <2> QED
    BY DEF RootsIn
<1>2. Said(GrantsOf(18))' = Said(GrantsOf(18)) /\ Numbered(RootsIn(Seen))' = Numbered(RootsIn(Seen))
  <2> HIDE DEF GrantsOf, RootsIn, Seen
  <2> QED
    BY <1>1 DEF Said, Numbered, RankIn
<1> HIDE DEF Seen
<1> QED
  BY <1>1, <1>2 DEF RootsSettled

LEMMA RootsHeardSame ==
  ASSUME RootsHeard, phase # "idle", HeardInRun(18)' = HeardInRun(18),
         memory'[18] = memory[18], cache'[18] = cache[18], history' = history
  PROVE  RootsHeard'
<1> HIDE DEF HeardInRun
<1> QED
  BY DEF RootsHeard, RootsIn

LEMMA RootsHeardObservation ==
  ASSUME TypeOK, HeldOnce, 18 \in enabled, RootsHeard, NEW o \in todo, OnObservation(o)
  PROVE  RootsHeard'
<1> DEFINE u == history[at].author
           m == memory[18]
           line(c) == [commit |-> c, user |-> history[c].author]
<1>1. /\ phase = "commit" /\ cache' = cache /\ history' = history
      /\ at' = at /\ Told' = Told \cup {o} /\ InRun' = InRun
  BY OnObservationMet DEF OnObservation
<1>2. /\ o \in Observed(history[at]) /\ history[at] \in Fact
      /\ memory'[18] = SecondChanceProcess(m, at, u, o).m
  BY ObservationView, TypeFacts DEF Process
<1>3. CASE o.kind # "ParentCount"
  <2>1. memory'[18] = m
    BY <1>2, <1>3, KeptIs DEF SecondChanceProcess
  <2>2. HeardInRun(18)' = HeardInRun(18)
    BY <1>1, <1>3 DEF HeardInRun, Consumes
  <2> QED
    BY <1>1, <2>1, <2>2, RootsHeardSame
<1>4. CASE o.kind = "ParentCount"
  <2>1. o.value = history[at].parents
    BY <1>2, <1>4, ObservedOf
  <2>2. HeardInRun(18)' = HeardInRun(18) \cup {at}
    BY <1>1, <1>4 DEF HeardInRun, Consumes
  <2>3. m.count = cache[18] /\ m.roots = {line(c) : c \in RootsIn(HeardInRun(18))}
    BY <1>1 DEF RootsHeard
  <2>5. RootsIn(HeardInRun(18))' = RootsIn(HeardInRun(18)) \cup {c \in {at} : history[c].parents = 0}
    <3> HIDE DEF HeardInRun
    <3> QED
      BY <1>1, <2>2 DEF RootsIn
  <2>6. memory'[18].count = m.count /\ memory'[18].roots = m.roots \cup {line(c) : c \in {c \in {at} : history[c].parents = 0}}
    <3>1. CASE o.value = 0
      <4>1. m \in RootsMemory
        BY MemoryIs DEF TypeOK
      <4>2. memory'[18] = [m EXCEPT !.roots = @ \cup {[commit |-> at, user |-> u]}]
        BY <1>2, <1>4, <3>1, KeptIs DEF SecondChanceProcess
      <4>3. memory'[18].count = m.count /\ memory'[18].roots = m.roots \cup {line(at)}
        <5> HIDE DEF m
        <5> QED
          BY <4>1, <4>2 DEF RootsMemory
      <4> QED
        BY <2>1, <3>1, <4>3
    <3>2. CASE o.value # 0
      <4>1. memory'[18] = m
        BY <1>2, <3>2, KeptIs DEF SecondChanceProcess
      <4> QED
        BY <2>1, <3>2, <4>1
    <3> QED
      BY <3>1, <3>2
  <2> HIDE DEF RootsIn, HeardInRun, m
  <2>7. memory'[18].roots = {line(c) : c \in RootsIn(HeardInRun(18))'}
    BY <2>3, <2>5, <2>6
  <2> QED
    BY <1>1, <2>3, <2>6, <2>7 DEF RootsHeard
<1> QED
  BY <1>3, <1>4

LEMMA RootsHeardComplete ==
  ASSUME TypeOK, HeldOnce, 18 \in enabled, RootsHeard, OnCommitComplete
  PROVE  RootsHeard'
<1>1. /\ phase = "commit" /\ UNCHANGED <<cache, history, memory>>
      /\ InRun' = InRun \cup {at} /\ Told = Observed(history[at]) /\ Told' = {}
  BY OnCommitCompleteMet DEF OnCommitComplete
<1>2. history[at] \in Fact
  BY CompleteView, TypeFacts
<1>3. [kind |-> "ParentCount", value |-> history[at].parents] \in Told
  <2>1. "ParentCount" \in Consumes(18)
    BY DEF Consumes
  <2> QED
    BY <1>1, <1>2, <2>1, ToldOf
<1>4. HeardInRun(18)' = InRun \cup {at}
  BY <1>1 DEF HeardInRun
<1>5. HeardInRun(18) = InRun \cup {at}
  <2>1. \E o \in Told : o.kind \in Consumes(18)
    BY <1>3 DEF Consumes
  <2> QED
    BY <2>1 DEF HeardInRun
<1> QED
  BY <1>1, <1>4, <1>5, RootsHeardSame

LEMMA RootsHeardStart ==
  ASSUME TypeOK, 18 \in enabled, InitCaches
  PROVE  RootsHeard'
<1>1. /\ InRun' = {} /\ Told' = {} /\ cache' = cache
      /\ memory'[18] = InitCache(18, cache[18])
  BY InitCachesMet DEF InitCaches
<1>2. HeardInRun(18)' = {}
  BY <1>1 DEF HeardInRun
<1>3. memory'[18] = [count |-> cache[18], roots |-> {}]
  BY <1>1 DEF InitCache
<1> HIDE DEF HeardInRun
<1> QED
  BY <1>1, <1>2, <1>3 DEF RootsHeard, RootsIn

(* Everything of this run is newer than what earlier runs saw.             *)
LEMMA RunEnds ==
  ASSUME TypeOK, Finalize
  PROVE  /\ Seen' = Seen \cup InRun /\ history' = history /\ phase = "walk" /\ phase' = "idle"
         /\ \A r : HeardInRun(r) = InRun
         /\ \A c \in Seen, d \in InRun : c < d
         /\ Seen \subseteq 1..Len(history) /\ InRun \subseteq 1..Len(history) /\ Len(history) \in Nat
<1>1. Seen' = Met /\ Told = {} /\ history' = history /\ phase = "walk" /\ phase' = "idle"
  BY FinalizeMet DEF Finalize
<1>2. /\ Seen \subseteq 1..Len(history) /\ InRun \subseteq 1..Len(history)
      /\ \A c \in InRun : processed < c
      /\ \A c \in Seen : c <= processed
      /\ Len(history) \in Nat /\ processed \in Nat
  BY MetType, TypeFacts
<1>3. \A c \in Seen, d \in InRun : c < d
  BY <1>2
<1>4. \A r : HeardInRun(r) = InRun
  BY <1>1 DEF HeardInRun
<1> QED
  BY <1>1, <1>2, <1>3, <1>4 DEF Met

LEMMA RootsSettledFinalize ==
  ASSUME TypeOK, 18 \in enabled, RootsSettled, RootsHeard, Finalize
  PROVE  RootsSettled'
<1> DEFINE m == memory[18]
           n == Len(history)
           R == RootsIn(Seen)
           N == RootsIn(InRun)
           f == [c \in 1..n |-> history[c].author]
           G == GrantRoots(m)
<1>1. /\ Seen' = Seen \cup InRun /\ history' = history /\ phase = "walk"
      /\ HeardInRun(18) = InRun
      /\ \A c \in Seen, d \in InRun : c < d
      /\ Seen \subseteq 1..n /\ InRun \subseteq 1..n /\ n \in Nat
  BY RunEnds
<1>2. /\ memory'[18] = G.m /\ cache'[18] = memory'[18].count
      /\ GrantsOf(18)' = GrantsOf(18) \o G.out
  <2>1. Finalized(18, m) = G /\ \A x : FiniCache(18, x) = x.count
    BY DEF Finalized, FiniCache
  <2> HIDE DEF G
  <2> QED
    BY <2>1, FinalizeView
<1>3. /\ m \in RootsMemory /\ cache[18] = Cardinality(R) /\ m.count = cache[18]
      /\ Said(GrantsOf(18)) = Numbered(R)
  BY <1>1, MemoryIs DEF TypeOK, RootsSettled, RootsHeard
<1>4. GrantsOf(18) \in Seq(GrantBy(18)) /\ G.out \in Seq(GrantBy(18))
  BY <1>3, RootsFinalized, GrantsType
<1>5. R \in SUBSET (1..n) /\ N \in SUBSET (1..n) /\ \A c \in R, d \in N : c < d
  BY <1>1 DEF RootsIn
<1>6. RootsIn(Seen)' = R \cup N
  BY <1>1 DEF RootsIn
<1>7. m.roots = {[commit |-> c, user |-> f[c]] : c \in N}
  <2>1. m.roots = {[commit |-> c, user |-> history[c].author] : c \in N}
    BY <1>1 DEF RootsHeard
  <2>2. \A c \in N : f[c] = history[c].author
    BY <1>5
  <2> HIDE DEF N, f, m
  <2> QED
    BY <2>1, <2>2
<1> HIDE DEF m, n, R, N, f, G
<1>8. /\ G.m = [count |-> m.count + Cardinality(N), roots |-> {}]
      /\ Said(G.out) =
           {<<c, m.count + RankIn(N, c)>> : c \in {d \in N : m.count + RankIn(N, d) > 1}}
  <2>1. RootsFound(G, m.count, N)
    BY <1>1, <1>3, <1>5, <1>7, RootsGranted DEF G
  <2> QED
    BY <2>1 DEF RootsFound
<1>9. /\ Cardinality(R \cup N) = Cardinality(R) + Cardinality(N)
      /\ Numbered(R \cup N) = Numbered(R) \cup
           {<<c, Cardinality(R) + RankIn(N, c)>> :
              c \in {d \in N : Cardinality(R) + RankIn(N, d) > 1}}
  BY <1>1, <1>5, NumberedOn
<1>10. cache'[18] = Cardinality(R \cup N)
  BY <1>2, <1>3, <1>8, <1>9
<1>11. Said(GrantsOf(18) \o G.out) = Said(GrantsOf(18)) \cup Said(G.out)
  BY <1>4, SaidConcat
<1>12. Said(GrantsOf(18)') = Numbered(R \cup N)
  BY <1>2, <1>3, <1>8, <1>9, <1>11
<1>13. Numbered(RootsIn(Seen)') = Numbered(R \cup N)
  BY <1>6
<1> QED
  BY <1>6, <1>10, <1>12, <1>13 DEF RootsSettled, Said, Numbered, RankIn

(* Between the ends of runs, h018 and h019 keep their caches and grant     *)
(* nothing.                                                                *)
Waits(r) == Seen' = Seen /\ cache'[r] = cache[r] /\ GrantsOf(r)' = GrantsOf(r)
            /\ \A c \in Seen : history'[c] = history[c]

Unheard(r) == /\ phase # "idle" /\ HeardInRun(r)' = HeardInRun(r) /\ memory'[r] = memory[r]
              /\ cache'[r] = cache[r] /\ history' = history

LEMMA CountersWait ==
  ASSUME TypeOK, HeldOnce, [Next]_vars
  PROVE  \A r \in enabled \cap {18, 19} :
           /\ Finalize \/ Waits(r)
           /\ OnCommitStart \/ (UNCHANGED vars /\ phase # "idle") => Unheard(r)
<1> SUFFICES ASSUME NEW r \in enabled \cap {18, 19}
             PROVE  /\ Finalize \/ Waits(r)
                    /\ OnCommitStart \/ (UNCHANGED vars /\ phase # "idle") => Unheard(r)
  OBVIOUS
<1>0. Held(r) = <<>> /\ Granted(r) = GrantsOf(r)
  <2>1. Held(r) = <<>>
    BY DEF HeldOnce, Prompt, Stateless
  <2> QED
    BY <2>1, GrantsType, ConcatEmptySeq DEF Granted
<1>1. ASSUME NEW f \in Facts[enabled], Push(f) PROVE Waits(r)
  <2>1. UNCHANGED <<enabled, granted, cache>>
    BY <1>1 DEF Push
  <2> QED
    BY <1>1, <2>1, PushMet, NothingGranted DEF Waits, Met
<1>2. ASSUME InitCaches PROVE Waits(r)
  <2>1. UNCHANGED <<enabled, granted, cache, history>>
    BY <1>2 DEF InitCaches
  <2> QED
    BY <1>2, <2>1, InitCachesMet, NothingGranted DEF Waits
<1>3. ASSUME OnCommitStart PROVE Waits(r) /\ Unheard(r)
  <2>1. UNCHANGED <<enabled, granted, cache, history>> /\ phase # "idle"
    BY <1>3 DEF OnCommitStart
  <2>2. HeardInRun(r)' = HeardInRun(r)
    BY <1>3, OnCommitStartMet, HeardSame
  <2>3. memory'[r] = memory[r]
    BY <1>3, SwearersPlain DEF OnCommitStart
  <2> QED
    BY <1>3, <2>1, <2>2, <2>3, OnCommitStartMet, NothingGranted DEF Waits, Unheard
<1>4. ASSUME NEW o \in todo, OnObservation(o) PROVE Waits(r)
  <2>1. UNCHANGED <<enabled, granted, cache, history>>
    BY <1>4 DEF OnObservation
  <2> QED
    BY <1>4, <2>1, OnObservationMet, NothingGranted DEF Waits
<1>5. ASSUME OnCommitComplete PROVE Waits(r)
  <2>1. UNCHANGED <<enabled, cache, history>>
    BY <1>5 DEF OnCommitComplete
  <2>2. GrantsOf(r)' = GrantsOf(r)
    BY <1>0, <1>5, GrantedOnCommitComplete
  <2> QED
    BY <1>5, <2>1, <2>2, OnCommitCompleteMet DEF Waits
<1>6. ASSUME UNCHANGED vars PROVE Waits(r) /\ (phase # "idle" => Unheard(r))
  <2>1. UNCHANGED <<enabled, cache, history, phase, at, memory>>
    BY <1>6 DEF vars
  <2>2. /\ Seen' = Seen /\ \A q : GrantsOf(q)' = GrantsOf(q)
        /\ \A q : HeardInRun(q)' = HeardInRun(q)
    BY <1>6, <2>1, StutterMet, HeardSame
  <2> QED
    BY <2>1, <2>2 DEF Waits, Unheard
<1> QED
  BY <1>1, <1>2, <1>3, <1>4, <1>5, <1>6 DEF Next

LEMMA RootsStep ==
  ASSUME TypeOK, HeldOnce, RootsSettle, [Next]_vars
  PROVE  RootsSettle'
<1>1. enabled' = enabled
  BY DEF Next, vars, Push, InitCaches, OnCommitStart, OnObservation, OnCommitComplete, Finalize
<1> SUFFICES ASSUME 18 \in enabled PROVE RootsSettled' /\ RootsHeard'
  BY <1>1 DEF RootsSettle
<1>2. RootsSettled /\ RootsHeard
  BY DEF RootsSettle
<1>3. /\ Finalize \/ Waits(18)
      /\ OnCommitStart \/ (UNCHANGED vars /\ phase # "idle") => Unheard(18)
  BY CountersWait
<1>4. RootsSettled'
  BY <1>2, <1>3, RootsSettledFinalize, RootsSettledSame DEF Waits
<1>5. Unheard(18) => RootsHeard'
  BY <1>2, RootsHeardSame DEF Unheard
<1>6. phase' = "idle" => RootsHeard'
  BY DEF RootsHeard
<1>7. RootsHeard'
  <2>1. ASSUME NEW f \in Facts[enabled], Push(f) PROVE phase' = "idle"
    BY <2>1 DEF Push
  <2>2. Finalize => phase' = "idle"
    BY DEF Finalize
  <2>3. UNCHANGED vars /\ phase = "idle" => phase' = "idle"
    BY DEF vars
  <2> QED
    BY <1>2, <1>3, <1>5, <1>6, <2>1, <2>2, <2>3, RootsHeardStart, RootsHeardObservation,
       RootsHeardComplete DEF Next
<1> QED
  BY <1>4, <1>7

LEMMA RootsInit == Init => RootsSettle
<1> SUFFICES ASSUME Init, 18 \in enabled PROVE RootsSettled /\ RootsHeard
  BY DEF RootsSettle
<1>1. Seen = {} /\ phase = "idle" /\ cache[18] = 0 /\ GrantsOf(18) = <<>>
  BY NothingYet DEF Mind, NoCache
<1>2. RootsIn(Seen) = {} /\ Numbered({}) = {}
  BY <1>1 DEF RootsIn, Numbered
<1>3. Said(<<>>) = {}
  BY DEF Said
<1> QED
  BY <1>1, <1>2, <1>3, FS_EmptySet DEF RootsSettled, RootsHeard

-----------------------------------------------------------------------------
(***************************************************************************)
(* h019 counts the copies of each user.                                    *)
(***************************************************************************)
Line(c)        == [commit |-> c, user |-> history[c].author, topic |-> history[c].topic]
Topics(S)      == {history[c].topic : c \in S}
CopiesBy(u, S) == {c \in S : history[c].author = u /\ Copied(c)}
Milestone(c)   == Copied(c) /\ CopiesUpTo(c) \in CopyThresholds

CopiesSettled ==
  /\ cache[19].seen = Topics(Seen)
  /\ \A u \in Users : cache[19].counts[u] = Cardinality(CopiesBy(u, Seen))
  /\ Said(GrantsOf(19)) = {<<c, CopiesUpTo(c)>> : c \in {d \in Seen : Milestone(d)}}

CopiesHeard ==
  phase # "idle" =>
    /\ memory[19].seen = cache[19].seen /\ memory[19].counts = cache[19].counts
    /\ memory[19].buffer = {Line(c) : c \in HeardInRun(19)}

CopiesSettle == 19 \in enabled => CopiesSettled /\ CopiesHeard

(* Whether a commit is a copy, and what number, does not change any more.  *)
LEMMA CopiesStay ==
  ASSUME TypeOK, \A c \in Seen : history'[c] = history[c], Seen' = Seen
  PROVE  /\ Topics(Seen)' = Topics(Seen)
         /\ \A u : CopiesBy(u, Seen)' = CopiesBy(u, Seen)
         /\ {<<c, CopiesUpTo(c)>> : c \in {d \in Seen : Milestone(d)}}'
              = {<<c, CopiesUpTo(c)>> : c \in {d \in Seen : Milestone(d)}}
<1>1. \A c \in Seen : /\ history'[c] = history[c]
                      /\ \A d \in 1 .. c - 1 : d \in Seen /\ history'[d] = history[d]
  <2>1. processed \in Nat
    BY TypeFacts
  <2> QED
    BY <2>1 DEF Seen
<1>2. \A c \in Seen : Copied(c)' <=> Copied(c)
  <2> HIDE DEF Seen
  <2> QED
    BY <1>1 DEF Copied
<1>3. \A u : By(u)' = By(u)
  <2> HIDE DEF Seen
  <2> QED
    BY DEF By
<1>4. ASSUME NEW c \in Seen PROVE CopiesUpTo(c)' = CopiesUpTo(c)
  <2> DEFINE u == history[c].author
  <2>1. \A d \in By(u) : d \in Seen
    BY DEF By
  <2>2. By(u)' = By(u) /\ history'[c].author = u
    BY <1>1, <1>3
  <2> HIDE DEF Seen, By, Copied
  <2>3. {d \in By(history[c].author) : d <= c /\ Copied(d)}' = {d \in By(u) : d <= c /\ Copied(d)}
    BY <1>2, <1>3, <2>1, <2>2
  <2> QED
    BY <2>3 DEF CopiesUpTo
<1> HIDE DEF Seen, By, Copied, CopiesUpTo
<1>5. Topics(Seen)' = Topics(Seen)
  BY DEF Topics
<1>6. \A u : CopiesBy(u, Seen)' = CopiesBy(u, Seen)
  BY <1>2 DEF CopiesBy
<1>7. \A c \in Seen : Milestone(c)' <=> Milestone(c)
  BY <1>2, <1>4 DEF Milestone
<1>8. {d \in Seen : Milestone(d)}' = {d \in Seen : Milestone(d)}
  BY <1>7
<1>9. \A c \in {d \in Seen : Milestone(d)} : <<c, CopiesUpTo(c)>>' = <<c, CopiesUpTo(c)>>
  BY <1>4
<1> QED
  BY <1>5, <1>6, <1>8, <1>9

LEMMA CopiesSettledSame ==
  ASSUME TypeOK, 19 \in enabled, CopiesSettled, Waits(19)
  PROVE  CopiesSettled'
<1>1. /\ Seen' = Seen /\ \A c \in Seen : history'[c] = history[c]
      /\ cache'[19] = cache[19] /\ GrantsOf(19)' = GrantsOf(19)
  BY DEF Waits
<1>2. /\ Topics(Seen)' = Topics(Seen)
      /\ \A u : CopiesBy(u, Seen)' = CopiesBy(u, Seen)
      /\ {<<c, CopiesUpTo(c)>> : c \in {d \in Seen : Milestone(d)}}'
           = {<<c, CopiesUpTo(c)>> : c \in {d \in Seen : Milestone(d)}}
  BY <1>1, CopiesStay
<1>3. Said(GrantsOf(19))' = Said(GrantsOf(19))
  <2> HIDE DEF GrantsOf
  <2> QED
    BY <1>1 DEF Said
<1> HIDE DEF GrantsOf, Seen, Topics, CopiesBy, Milestone, CopiesUpTo, Said
<1> QED
  BY <1>1, <1>2, <1>3 DEF CopiesSettled

LEMMA CopiesHeardSame ==
  ASSUME CopiesHeard, Unheard(19)
  PROVE  CopiesHeard'
<1> HIDE DEF HeardInRun
<1> QED
  BY DEF CopiesHeard, Line, Unheard

LEMMA CopiesHeardStart ==
  ASSUME TypeOK, 19 \in enabled, InitCaches
  PROVE  CopiesHeard'
<1>1. /\ InRun' = {} /\ Told' = {} /\ cache' = cache
      /\ memory'[19] = InitCache(19, cache[19])
  BY InitCachesMet DEF InitCaches
<1>2. HeardInRun(19)' = {}
  BY <1>1 DEF HeardInRun
<1>3. memory'[19] = [seen |-> cache[19].seen, counts |-> cache[19].counts, buffer |-> {}]
  BY <1>1 DEF InitCache
<1> HIDE DEF HeardInRun
<1> QED
  BY <1>1, <1>2, <1>3 DEF CopiesHeard

LEMMA CopiesHeardComplete ==
  ASSUME TypeOK, HeldOnce, 19 \in enabled, CopiesHeard, OnCommitComplete
  PROVE  CopiesHeard'
<1>1. /\ phase = "commit" /\ UNCHANGED <<cache, history, memory>>
      /\ InRun' = InRun \cup {at} /\ Told = Observed(history[at]) /\ Told' = {}
  BY OnCommitCompleteMet DEF OnCommitComplete
<1>2. history[at] \in Fact
  BY CompleteView, TypeFacts
<1>3. \E o \in Told : o.kind = "Subject"
  <2>1. "Subject" \in Consumes(19)
    BY DEF Consumes
  <2> QED
    BY <1>1, <1>2, <2>1, ToldOf
<1>4. HeardInRun(19)' = InRun \cup {at}
  BY <1>1 DEF HeardInRun
<1>5. HeardInRun(19) = InRun \cup {at}
  BY <1>3 DEF HeardInRun, Consumes
<1> QED
  BY <1>1, <1>4, <1>5, CopiesHeardSame DEF Unheard

LEMMA CopiesHeardObservation ==
  ASSUME TypeOK, HeldOnce, 19 \in enabled, CopiesHeard, NEW o \in todo, OnObservation(o)
  PROVE  CopiesHeard'
<1> DEFINE u == history[at].author
           m == memory[19]
<1>1. /\ phase = "commit" /\ cache' = cache /\ history' = history
      /\ at' = at /\ Told' = Told \cup {o} /\ InRun' = InRun
  BY OnObservationMet DEF OnObservation
<1>2. /\ o \in Observed(history[at]) /\ history[at] \in Fact
      /\ memory'[19] = FlatteryProcess(m, at, u, o).m
  BY ObservationView, TypeFacts DEF Process
<1>3. CASE o.kind # "Subject"
  <2>1. memory'[19] = m
    BY <1>2, <1>3, KeptIs DEF FlatteryProcess
  <2>2. HeardInRun(19)' = HeardInRun(19)
    BY <1>1, <1>3 DEF HeardInRun, Consumes
  <2> QED
    BY <1>1, <2>1, <2>2, CopiesHeardSame DEF Unheard
<1>4. CASE o.kind = "Subject"
  <2>1. o.value.topic = history[at].topic
    <3>1. o.value = [length |-> history[at].length, topic |-> history[at].topic]
      BY <1>2, <1>4, ObservedOf
    <3> QED
      BY <3>1
  <2>2. HeardInRun(19)' = HeardInRun(19) \cup {at}
    BY <1>1, <1>4 DEF HeardInRun, Consumes
  <2>3. /\ m.seen = cache[19].seen /\ m.counts = cache[19].counts
        /\ m.buffer = {Line(c) : c \in HeardInRun(19)}
    BY <1>1 DEF CopiesHeard
  <2>4. m \in CopiesMemory
    BY MemoryIs DEF TypeOK
  <2>5. memory'[19] = [m EXCEPT !.buffer = @ \cup {[commit |-> at, user |-> u, topic |-> o.value.topic]}]
    BY <1>2, <1>4, KeptIs DEF FlatteryProcess
  <2>6. [commit |-> at, user |-> u, topic |-> o.value.topic] = Line(at)
    BY <2>1 DEF Line
  <2> HIDE DEF m, HeardInRun, Line
  <2>7. /\ memory'[19].seen = m.seen /\ memory'[19].counts = m.counts
        /\ memory'[19].buffer = m.buffer \cup {Line(at)}
    BY <2>4, <2>5, <2>6 DEF CopiesMemory
  <2>8. \A c : Line(c)' = Line(c)
    BY <1>1 DEF Line
  <2>9. memory'[19].buffer = {Line(c)' : c \in HeardInRun(19)'}
    BY <2>2, <2>3, <2>7, <2>8
  <2> QED
    BY <1>1, <2>3, <2>7, <2>9 DEF CopiesHeard
<1> QED
  BY <1>3, <1>4

(* What h019 makes of the copies K of a run, written by f.                 *)
NumberOf(n, K, f, c) == n[f[c]] + Cardinality({d \in K : f[d] = f[c] /\ d <= c})

CopiesFound(G, m, K, f) ==
  /\ G.m.seen = m.seen \cup {x.topic : x \in m.buffer}
  /\ \A u \in Users : G.m.counts[u] = m.counts[u] + Cardinality({c \in K : f[c] = u})
  /\ Said(G.out) = {<<c, NumberOf(m.counts, K, f, c)>> :
                      c \in {d \in K : NumberOf(m.counts, K, f, d) \in CopyThresholds}}

CopiedLines(m) == {x \in m.buffer :
                     \/ x.topic \in m.seen
                     \/ \E y \in m.buffer : y.topic = x.topic /\ y.commit < x.commit}

LEMMA CopiesGranted ==
  ASSUME NEW m \in CopiesMemory, NEW n \in Nat, NEW K \in SUBSET (1..n), NEW f,
         {x.commit : x \in CopiedLines(m)} = K,
         \A x \in CopiedLines(m) : x.user = f[x.commit]
  PROVE  CopiesFound(GrantCopies(m), m, K, f)
<1> DEFINE copies == InTime(CopiedLines(m))
           Own(i) == {j \in 1..i : copies[j].user = copies[i].user}
           CountAt(i) == m.counts[copies[i].user] + Cardinality(Own(i))
           all == [i \in DOMAIN copies |->
                     GrantOf(19, copies[i].commit, copies[i].user, CountAt(i))]
           N == Cardinality(K)
           num(c) == NumberOf(m.counts, K, f, c)
           counts == [u \in Users |-> m.counts[u]
                        + Cardinality({i \in DOMAIN copies : copies[i].user = u})]
           S == {i \in DOMAIN all : all[i].title \in CopyThresholds}
<1>1. GrantCopies(m) = [m |-> [seen |-> m.seen \cup {x.topic : x \in m.buffer},
                               counts |-> counts, buffer |-> {}],
                        out |-> Part(all, S)]
  BY DEF GrantCopies, CopiedLines
<1>2. /\ copies \in Seq(CopiedLines(m)) /\ Len(copies) = N /\ N \in Nat
      /\ \A k \in 1..N : copies[k].commit = NthOf(K, k)
  <2>1. \A x \in CopiedLines(m) : x.commit \in 1..n
    <3> HIDE DEF CopiedLines
    <3>1. \A x \in CopiedLines(m) : x.commit \in K
      OBVIOUS
    <3> QED
      BY <3>1
  <2> HIDE DEF CopiedLines
  <2> QED
    BY <2>1, InTimeType
<1> HIDE DEF CopiedLines
<1>3. DOMAIN copies = 1..N /\ \A k \in 1..N : copies[k].user = f[NthOf(K, k)]
  <2>1. DOMAIN copies = 1..N /\ \A k \in 1..N : copies[k] \in CopiedLines(m)
    BY <1>2, LenProperties, ElementOfSeq
  <2> HIDE DEF copies
  <2> QED
    BY <1>2, <2>1
<1>4. /\ \A c \in K : RankIn(K, c) \in 1..N /\ NthOf(K, RankIn(K, c)) = c
      /\ \A i \in 1..N : NthOf(K, i) \in K /\ RankIn(K, NthOf(K, i)) = i
      /\ \A i, j \in 1..N : i < j <=> NthOf(K, i) < NthOf(K, j)
  <2>1. K \in SUBSET (1..n) /\ n \in Nat
    OBVIOUS
  <2>2. \A c \in K : RankIn(K, c) \in 1..N
    BY <2>1, RankProperties
  <2>3. \A c \in K : NthOf(K, RankIn(K, c)) = c
    BY <2>1, NthProperties
  <2>4. \A i \in 1..N : NthOf(K, i) \in K /\ RankIn(K, NthOf(K, i)) = i
    BY <2>1, NthProperties
  <2>5. \A i, j \in 1..N : i < j <=> NthOf(K, i) < NthOf(K, j)
    BY <2>1, NthProperties
  <2> QED
    BY <2>2, <2>3, <2>4, <2>5
<1>0. NthCounts(K)
  BY NthCount
<1> HIDE DEF copies
<1>5. ASSUME NEW i \in 1..N PROVE CountAt(i) = num(NthOf(K, i))
  <2> DEFINE c == NthOf(K, i)
             A == {d \in K : f[d] = f[c]}
  <2>1. i \in 0..N /\ i \in Nat /\ \A j \in 1..i : j \in 1..N
    BY <1>2
  <2>2. Own(i) = {j \in 1..i : NthOf(K, j) \in A}
    BY <1>3, <1>4, <2>1
  <2>3. \A d \in K : RankIn(K, d) <= i <=> d <= c
    <3>1. ASSUME NEW d \in K PROVE RankIn(K, d) <= i <=> d <= c
      <4> DEFINE k == RankIn(K, d)
      <4>1. k \in 1..N /\ NthOf(K, k) = d /\ (i < k <=> c < d) /\ c \in K
        BY <1>4
      <4>2. k \in Nat /\ c \in Nat /\ d \in Nat
        <5>1. \A x \in K : x \in Nat
          OBVIOUS
        <5>2. k \in Nat
          <6> HIDE DEF k, N
          <6> QED
            BY <1>2, <4>1
        <5> HIDE DEF k, c
        <5> QED
          BY <4>1, <5>1, <5>2
      <4> HIDE DEF k, c
      <4>3. ~(i < k) <=> ~(c < d)
        BY <4>1
      <4>4. k <= i <=> d <= c
        BY <2>1, <4>2, <4>3
      <4> QED
        BY <4>4 DEF k
    <3> QED
      BY <3>1
  <2>4. {d \in K : RankIn(K, d) <= i /\ d \in A} = {d \in K : f[d] = f[c] /\ d <= c}
    <3> HIDE DEF c
    <3> QED
      BY <2>3
  <2>5. Cardinality({j \in 1..i : NthOf(K, j) \in A})
          = Cardinality({d \in K : RankIn(K, d) <= i /\ d \in A})
    <3>1. i \in 0..Cardinality(K)
      BY <2>1
    <3> HIDE DEF A
    <3> QED
      BY <1>0, <3>1 DEF NthCounts
  <2>6. copies[i].user = f[c]
    BY <1>3
  <2> HIDE DEF c, A, Own
  <2>7. CountAt(i) = m.counts[f[c]] + Cardinality({d \in K : f[d] = f[c] /\ d <= c})
    BY <2>2, <2>4, <2>5, <2>6
  <2> QED
    BY <2>7 DEF NumberOf, c
<1>6. ASSUME NEW u \in Users PROVE counts[u] = m.counts[u] + Cardinality({c \in K : f[c] = u})
  <2> DEFINE A == {d \in K : f[d] = u}
             his == {i \in DOMAIN copies : copies[i].user = u}
  <2>1. his = {j \in 1..N : NthOf(K, j) \in A}
    BY <1>3, <1>4
  <2>2. {d \in K : RankIn(K, d) <= N /\ d \in A} = A
    <3>1. \A d \in K : RankIn(K, d) <= N
      <4> HIDE DEF N
      <4> QED
        BY <1>2, <1>4
    <3> HIDE DEF N
    <3> QED
      BY <3>1
  <2>3. Cardinality({j \in 1..N : NthOf(K, j) \in A})
          = Cardinality({d \in K : RankIn(K, d) <= N /\ d \in A})
    <3>1. N \in 0..Cardinality(K)
      BY <1>2
    <3> HIDE DEF A
    <3> QED
      BY <1>0, <3>1 DEF NthCounts
  <2>4. counts[u] = m.counts[u] + Cardinality(his)
    OBVIOUS
  <2> HIDE DEF his, counts, A
  <2> QED
    BY <2>1, <2>2, <2>3, <2>4 DEF A
<1> HIDE DEF CountAt, Own
<1>7. /\ DOMAIN all = 1..N
      /\ \A i \in 1..N : all[i].commit = NthOf(K, i) /\ all[i].title = num(NthOf(K, i))
  BY <1>2, <1>3, <1>5 DEF GrantOf
<1>8. all \in Seq({all[i] : i \in 1..N})
  <2>1. all = [i \in 1..N |-> all[i]]
    BY <1>3
  <2> HIDE DEF all
  <2>2. all \in [1..N -> {all[i] : i \in 1..N}]
    BY <1>7, <2>1
  <2> QED
    BY <1>2, <2>2, SeqDef
<1> HIDE DEF num, all
<1>9. Said(Part(all, S)) = {<<all[i].commit, all[i].title>> : i \in S}
  <2>1. S \in SUBSET DOMAIN all
    OBVIOUS
  <2> HIDE DEF S
  <2> QED
    BY <1>8, <2>1, SaidPart
<1>10. S = {i \in 1..N : num(NthOf(K, i)) \in CopyThresholds}
  BY <1>7 DEF S
<1>11. {<<all[i].commit, all[i].title>> : i \in S} =
         {<<c, num(c)>> : c \in {d \in K : num(d) \in CopyThresholds}}
  <2> DEFINE B == {d \in K : num(d) \in CopyThresholds}
             a(i) == <<all[i].commit, all[i].title>>
             b(c) == <<c, num(c)>>
  <2>1. \A i \in S : NthOf(K, i) \in B /\ b(NthOf(K, i)) = a(i)
    BY <1>4, <1>7, <1>10
  <2>2. \A c \in B : RankIn(K, c) \in S /\ a(RankIn(K, c)) = b(c)
    BY <1>4, <1>7, <1>10
  <2> HIDE DEF S, B, a, b
  <2>3. {a(i) : i \in S} = {b(c) : c \in B}
    BY <2>1, <2>2
  <2> QED
    BY <2>3 DEF B, a, b
<1> HIDE DEF S, counts
<1>12. /\ GrantCopies(m).m.seen = m.seen \cup {x.topic : x \in m.buffer}
       /\ GrantCopies(m).m.counts = counts /\ GrantCopies(m).out = Part(all, S)
  BY <1>1
<1> QED
  BY <1>6, <1>9, <1>11, <1>12 DEF CopiesFound, num

(* The copies of a run are those of its commits that say what an older     *)
(* commit said, of this run or an earlier one.                             *)
LEMMA CopiesInRun ==
  ASSUME TypeOK, NEW m,
         m.seen = Topics(Seen), m.buffer = {Line(c) : c \in InRun}, phase = "walk", at = processed
  PROVE  /\ {x.commit : x \in CopiedLines(m)} = {c \in InRun : Copied(c)}
         /\ \A x \in CopiedLines(m) : x.user = history[x.commit].author
<1>1. \A c \in InRun : \A d : d \in 1 .. c - 1 <=> d \in Seen \/ (d \in InRun /\ d < c)
  <2>1. processed \in Nat /\ Len(history) \in Nat /\ InRun = processed + 1 .. Len(history)
    BY TypeFacts DEF InRun
  <2> QED
    BY <2>1 DEF Seen
<1>2. \A c \in InRun : /\ Line(c).commit = c /\ Line(c).user = history[c].author
                       /\ Line(c).topic = history[c].topic
  BY DEF Line
<1> HIDE DEF Line, InRun, Seen
<1>3. ASSUME NEW c \in InRun PROVE Line(c) \in CopiedLines(m) <=> Copied(c)
  <2>1. Line(c).topic \in m.seen <=> \E d \in Seen : history[d].topic = history[c].topic
    BY <1>2 DEF Topics
  <2>2. (\E y \in m.buffer : y.topic = Line(c).topic /\ y.commit < Line(c).commit)
          <=> \E d \in InRun : history[d].topic = history[c].topic /\ d < c
    <3>1. (\E y \in m.buffer : y.topic = Line(c).topic /\ y.commit < Line(c).commit)
            <=> \E d \in InRun : Line(d).topic = Line(c).topic /\ Line(d).commit < Line(c).commit
      OBVIOUS
    <3> QED
      BY <1>2, <3>1
  <2>3. Copied(c) <=> \/ \E d \in Seen : history[d].topic = history[c].topic
                      \/ \E d \in InRun : history[d].topic = history[c].topic /\ d < c
    BY <1>1 DEF Copied
  <2>4. Line(c) \in m.buffer
    OBVIOUS
  <2> QED
    BY <2>1, <2>2, <2>3, <2>4 DEF CopiedLines
<1>4. \A x \in CopiedLines(m) : \E c \in InRun : x = Line(c)
  BY DEF CopiedLines
<1> HIDE DEF CopiedLines, Copied
<1>5. ASSUME NEW x \in CopiedLines(m)
      PROVE  x.commit \in {c \in InRun : Copied(c)} /\ x.user = history[x.commit].author
  <2>1. PICK c \in InRun : x = Line(c)
    BY <1>4
  <2> QED
    BY <1>2, <1>3, <2>1
<1>6. ASSUME NEW c \in InRun, Copied(c) PROVE c \in {x.commit : x \in CopiedLines(m)}
  BY <1>2, <1>3, <1>6
<1> QED
  BY <1>5, <1>6

(* When a run ends, its copies count.                                      *)
NewCopies == {c \in InRun : Copied(c)}

CopiesCounted(n, f) ==
  /\ \A u \in Users :
       Cardinality(CopiesBy(u, Seen))' = n[u] + Cardinality({c \in NewCopies : f[c] = u})
  /\ \A c \in NewCopies : CopiesUpTo(c)' = NumberOf(n, NewCopies, f, c)
  /\ \A c \in Seen : CopiesUpTo(c)' = CopiesUpTo(c)
  /\ \A c \in Seen \cup InRun : Copied(c)' <=> Copied(c)

LEMMA CopiesCount ==
  ASSUME TypeOK, Finalize, NEW f, \A c \in InRun : f[c] = history[c].author,
         NEW n, \A u \in Users : n[u] = Cardinality(CopiesBy(u, Seen))
  PROVE  CopiesCounted(n, f)
<1> DEFINE K == NewCopies
<1>0. K = {c \in InRun : Copied(c)}
  BY DEF NewCopies
<1> HIDE DEF K
<1>1. /\ Seen' = Seen \cup InRun /\ history' = history
      /\ \A c \in Seen, d \in InRun : c < d
      /\ Seen \subseteq 1..Len(history) /\ InRun \subseteq 1..Len(history) /\ Len(history) \in Nat
  BY RunEnds
<1>2. \A c : Copied(c)' <=> Copied(c)
  BY <1>1 DEF Copied
<1>3. /\ \A c \in Seen \cup InRun : c \in Nat /\ history[c] \in Fact
      /\ \A c \in Seen : c \notin InRun
  <2>1. \A c \in Seen \cup InRun : c \in Nat /\ history[c] \in Fact
    BY <1>1, TypeFacts
  <2>2. \A c \in Seen : ~(c < c)
    BY <2>1
  <2> QED
    BY <1>1, <2>1, <2>2
<1> HIDE DEF Seen, InRun, Copied
<1>4. ASSUME NEW u, NEW T \in SUBSET K
      PROVE  /\ IsFiniteSet(CopiesBy(u, Seen)) /\ IsFiniteSet(T)
             /\ CopiesBy(u, Seen) \cap T = {}
             /\ Cardinality(CopiesBy(u, Seen) \cup T) = Cardinality(CopiesBy(u, Seen)) + Cardinality(T)
  <2> DEFINE l == Len(history)
  <2>1. CopiesBy(u, Seen) \in SUBSET (1..l) /\ T \in SUBSET (1..l) /\ l \in Nat
    BY <1>0, <1>1 DEF CopiesBy
  <2>2. CopiesBy(u, Seen) \cap T = {}
    BY <1>0, <1>3 DEF CopiesBy
  <2> HIDE DEF l
  <2>3. IsFiniteSet(CopiesBy(u, Seen))
    BY <2>1, RankProperties
  <2>4. IsFiniteSet(T)
    BY <2>1, RankProperties
  <2> QED
    BY <2>2, <2>3, <2>4, DisjointUnion
<1>5. ASSUME NEW u \in Users
      PROVE  Cardinality(CopiesBy(u, Seen))' = n[u] + Cardinality({c \in K : f[c] = u})
  <2> DEFINE T == {c \in K : f[c] = u}
  <2>1. CopiesBy(u, Seen)' = CopiesBy(u, Seen) \cup T
    BY <1>0, <1>1, <1>2 DEF CopiesBy
  <2>2. T \in SUBSET K
    OBVIOUS
  <2> HIDE DEF T
  <2>3. Cardinality(CopiesBy(u, Seen) \cup T) = n[u] + Cardinality(T)
    BY <1>4, <2>2
  <2> QED
    BY <2>1, <2>3 DEF T
<1>6. ASSUME NEW c \in K PROVE CopiesUpTo(c)' = NumberOf(n, K, f, c)
  <2> DEFINE u == history[c].author
             T == {d \in K : f[d] = u /\ d <= c}
  <2>1. c \in InRun /\ f[c] = u /\ u \in Users
    BY <1>0, <1>3 DEF Fact
  <2>2. \A d \in Seen : d <= c
    BY <1>1, <1>3, <2>1
  <2>3. {d \in By(history[c].author) : d <= c /\ Copied(d)}' = CopiesBy(u, Seen) \cup T
    <3>1. By(history[c].author)' = {d \in Seen \cup InRun : history[d].author = u}
      BY <1>1 DEF By
    <3> HIDE DEF u
    <3>2. {d \in {d \in Seen \cup InRun : history[d].author = u} : d <= c /\ Copied(d)}
            = CopiesBy(u, Seen) \cup T
      BY <1>0, <2>2 DEF CopiesBy
    <3> HIDE DEF T, By
    <3> QED
      BY <1>2, <3>1, <3>2
  <2>4. T \in SUBSET K
    OBVIOUS
  <2> HIDE DEF T, u
  <2>5. CopiesUpTo(c)' = n[u] + Cardinality(T)
    <3>1. Cardinality(CopiesBy(u, Seen) \cup T) = n[u] + Cardinality(T)
      BY <1>4, <2>1, <2>4
    <3> QED
      BY <2>3, <3>1 DEF CopiesUpTo
  <2>6. NumberOf(n, K, f, c) = n[u] + Cardinality(T)
    BY <2>1 DEF NumberOf, T
  <2> QED
    BY <2>5, <2>6
<1>7. ASSUME NEW c \in Seen PROVE CopiesUpTo(c)' = CopiesUpTo(c)
  <2> DEFINE u == history[c].author
  <2>1. \A d \in InRun : ~(d <= c)
    <3>1. \A d \in InRun : c < d /\ d \in Nat /\ c \in Nat
      BY <1>1, <1>3
    <3> QED
      BY <3>1
  <2>2. By(history[c].author)' = {d \in Seen \cup InRun : history[d].author = u}
    BY <1>1 DEF By
  <2>3. By(history[c].author) = {d \in Seen : history[d].author = u}
    BY DEF By
  <2> HIDE DEF u, By
  <2>4. {d \in By(history[c].author) : d <= c /\ Copied(d)}'
          = {d \in By(history[c].author) : d <= c /\ Copied(d)}
    BY <1>2, <2>1, <2>2, <2>3
  <2> QED
    BY <2>4 DEF CopiesUpTo
<1> QED
  BY <1>2, <1>5, <1>6, <1>7 DEF CopiesCounted, K

LEMMA CopiesSettledFinalize ==
  ASSUME TypeOK, 19 \in enabled, CopiesSettled, CopiesHeard, Finalize
  PROVE  CopiesSettled'
<1> DEFINE m == memory[19]
           K == NewCopies
           f == [c \in 1..Len(history) |-> history[c].author]
           G == GrantCopies(m)
<1>1. /\ Seen' = Seen \cup InRun /\ history' = history /\ phase = "walk"
      /\ HeardInRun(19) = InRun /\ at = processed
      /\ InRun \subseteq 1..Len(history) /\ Len(history) \in Nat
  BY RunEnds, FinalizeView
<1>2. /\ memory'[19] = G.m /\ GrantsOf(19)' = GrantsOf(19) \o G.out
      /\ cache'[19] = [seen |-> memory'[19].seen, counts |-> memory'[19].counts]
  <2>1. Finalized(19, m) = G /\ \A x : FiniCache(19, x) = [seen |-> x.seen, counts |-> x.counts]
    BY DEF Finalized, FiniCache
  <2> HIDE DEF G
  <2> QED
    BY <2>1, FinalizeView
<1>3. /\ m \in CopiesMemory /\ m.seen = Topics(Seen)
      /\ \A u \in Users : m.counts[u] = Cardinality(CopiesBy(u, Seen))
      /\ m.buffer = {Line(c) : c \in InRun}
      /\ Said(GrantsOf(19)) = {<<c, CopiesUpTo(c)>> : c \in {d \in Seen : Milestone(d)}}
  BY <1>1, MemoryIs DEF TypeOK, CopiesSettled, CopiesHeard
<1>4. GrantsOf(19) \in Seq(GrantBy(19)) /\ G.out \in Seq(GrantBy(19))
  BY <1>3, CopiesFinalized, GrantsType
<1>5. \A c \in InRun : f[c] = history[c].author
  BY <1>1
<1> HIDE DEF m, f, G, Topics, CopiesBy, Line, Milestone, CopiesUpTo, Copied, GrantsOf
<1>6. /\ {x.commit : x \in CopiedLines(m)} = K
      /\ \A x \in CopiedLines(m) : x.user = history[x.commit].author
  BY <1>1, <1>3, CopiesInRun DEF NewCopies
<1>7. CopiesFound(G, m, K, f)
  <2>1. \A x \in CopiedLines(m) : x.user = f[x.commit]
    <3>1. \A x \in CopiedLines(m) : x.commit \in InRun
      BY <1>6 DEF NewCopies
    <3> HIDE DEF CopiedLines, InRun, K
    <3> QED
      BY <1>5, <1>6, <3>1
  <2>2. K \in SUBSET (1..Len(history))
    BY <1>1 DEF NewCopies
  <2> HIDE DEF K, CopiedLines
  <2> QED
    BY <1>1, <1>3, <1>6, <2>1, <2>2, CopiesGranted DEF G
<1>8. /\ \A u \in Users :
           Cardinality(CopiesBy(u, Seen))' = m.counts[u] + Cardinality({c \in K : f[c] = u})
      /\ \A c \in K : CopiesUpTo(c)' = NumberOf(m.counts, K, f, c)
      /\ \A c \in Seen : CopiesUpTo(c)' = CopiesUpTo(c)
      /\ \A c \in Seen \cup InRun : Copied(c)' <=> Copied(c)
  <2>1. CopiesCounted(m.counts, f)
    BY <1>3, <1>5, CopiesCount
  <2> QED
    BY <2>1 DEF CopiesCounted
<1>9. cache'[19].seen = Topics(Seen)'
  <2>1. cache'[19].seen = m.seen \cup {x.topic : x \in m.buffer}
    BY <1>2, <1>7 DEF CopiesFound
  <2>2. {x.topic : x \in m.buffer} = Topics(InRun)
    <3>1. \A c : Line(c).topic = history[c].topic
      BY DEF Line
    <3> QED
      BY <1>3, <3>1 DEF Topics
  <2>3. Topics(Seen)' = Topics(Seen) \cup Topics(InRun)
    <3> HIDE DEF Seen, InRun
    <3> QED
      BY <1>1 DEF Topics
  <2> QED
    BY <1>3, <2>1, <2>2, <2>3
<1>10. \A u \in Users : cache'[19].counts[u] = Cardinality(CopiesBy(u, Seen))'
  <2>1. cache'[19].counts = G.m.counts
    BY <1>2
  <2> HIDE DEF K
  <2> QED
    BY <1>7, <1>8, <2>1 DEF CopiesFound
<1>11. Said(GrantsOf(19))' = {<<c, CopiesUpTo(c)>> : c \in {d \in Seen : Milestone(d)}}'
  <2> DEFINE num(c) == NumberOf(m.counts, K, f, c)
             old == {d \in Seen : Milestone(d)}
             new == {d \in K : num(d) \in CopyThresholds}
  <2>1. Said(GrantsOf(19))' = Said(GrantsOf(19)) \cup Said(G.out)
    <3>1. Said(GrantsOf(19) \o G.out) = Said(GrantsOf(19)) \cup Said(G.out)
      BY <1>4, SaidConcat
    <3> QED
      BY <1>2, <3>1 DEF Said
  <2>2. Said(G.out) = {<<c, num(c)>> : c \in new}
    BY <1>7 DEF CopiesFound
  <2>3. {d \in Seen : Milestone(d)}' = old \cup new
    <3> HIDE DEF Seen, InRun, num
    <3>1. \A c \in Seen : Milestone(c)' <=> Milestone(c)
      BY <1>8 DEF Milestone
    <3>2. \A c \in InRun : Milestone(c)' <=> c \in new
      BY <1>8 DEF Milestone, num, NewCopies
    <3>3. \A c \in new : c \in InRun
      BY DEF NewCopies
    <3> HIDE DEF new
    <3> QED
      BY <1>1, <3>1, <3>2, <3>3
  <2>4. \A c \in old : CopiesUpTo(c)' = CopiesUpTo(c)
    BY <1>8
  <2>5. \A c \in new : CopiesUpTo(c)' = num(c)
    BY <1>8
  <2> HIDE DEF old, new, num
  <2>6. {<<c, CopiesUpTo(c)>> : c \in {d \in Seen : Milestone(d)}}'
          = {<<c, CopiesUpTo(c)>> : c \in old} \cup {<<c, num(c)>> : c \in new}
    BY <2>3, <2>4, <2>5
  <2> QED
    BY <1>3, <2>1, <2>2, <2>6 DEF old
<1> QED
  BY <1>9, <1>10, <1>11 DEF CopiesSettled

LEMMA CopiesStep ==
  ASSUME TypeOK, HeldOnce, CopiesSettle, [Next]_vars
  PROVE  CopiesSettle'
<1>1. enabled' = enabled
  BY DEF Next, vars, Push, InitCaches, OnCommitStart, OnObservation, OnCommitComplete, Finalize
<1> SUFFICES ASSUME 19 \in enabled PROVE CopiesSettled' /\ CopiesHeard'
  BY <1>1 DEF CopiesSettle
<1>2. CopiesSettled /\ CopiesHeard
  BY DEF CopiesSettle
<1>3. /\ Finalize \/ Waits(19)
      /\ OnCommitStart \/ (UNCHANGED vars /\ phase # "idle") => Unheard(19)
  BY CountersWait
<1>4. CopiesSettled'
  BY <1>2, <1>3, CopiesSettledFinalize, CopiesSettledSame
<1>5. Unheard(19) => CopiesHeard'
  BY <1>2, CopiesHeardSame
<1>6. phase' = "idle" => CopiesHeard'
  BY DEF CopiesHeard
<1>7. CopiesHeard'
  <2>1. ASSUME NEW f \in Facts[enabled], Push(f) PROVE phase' = "idle"
    BY <2>1 DEF Push
  <2>2. Finalize => phase' = "idle"
    BY DEF Finalize
  <2>3. UNCHANGED vars /\ phase = "idle" => phase' = "idle"
    BY DEF vars
  <2> QED
    BY <1>2, <1>3, <1>5, <1>6, <2>1, <2>2, <2>3, CopiesHeardStart, CopiesHeardObservation,
       CopiesHeardComplete DEF Next
<1> QED
  BY <1>4, <1>7

LEMMA CopiesInit == Init => CopiesSettle
<1> SUFFICES ASSUME Init, 19 \in enabled PROVE CopiesSettled /\ CopiesHeard
  BY DEF CopiesSettle
<1>1. /\ Seen = {} /\ phase = "idle" /\ cache[19] = [seen |-> {}, counts |-> NoCounts]
      /\ GrantsOf(19) = <<>>
  <2>1. NoCache(19) = [seen |-> {}, counts |-> NoCounts]
    BY DEF NoCache
  <2>2. Mind(19) = cache[19]
    BY NothingYet DEF Mind
  <2> QED
    BY <2>1, <2>2, NothingYet
<1>2. /\ Topics({}) = {} /\ \A u : CopiesBy(u, {}) = {}
      /\ {<<c, CopiesUpTo(c)>> : c \in {d \in {} : Milestone(d)}} = {}
  BY DEF Topics, CopiesBy
<1>3. Said(<<>>) = {}
  BY DEF Said
<1> HIDE DEF Seen, CopiesUpTo, Milestone, CopiesBy, Topics, GrantsOf
<1>4. cache[19].seen = {} /\ \A u \in Users : cache[19].counts[u] = 0
  BY <1>1 DEF NoCounts
<1>5. Cardinality({}) = 0
  BY FS_EmptySet
<1>6. CopiesSettled
  BY <1>1, <1>2, <1>3, <1>4, <1>5 DEF CopiesSettled
<1> QED
  BY <1>1, <1>6 DEF CopiesHeard

-----------------------------------------------------------------------------
(***************************************************************************)
(* h013: what commits said of commits that come later is kept, over as     *)
(* many runs as it takes, until one comes true.                            *)
(***************************************************************************)
\* Commit f has a token, of a length worth a prophecy, that names commit n.
Fits(t)      == t.length \in MinToken .. MaxToken
Speaks(f, n) == \E k \in DOMAIN f.tokens : Fits(f.tokens[k]) /\ f.tokens[k].names = n

\* Who spoke of what, in a list of tokens.
Spoken(tokens) == {<<tokens[i].source, tokens[i].names>> : i \in DOMAIN tokens}

\* What commit c of history h, of which S were seen in runs that ended at E, spoke of
\* came true in the run that ended with e commits.
RunIn(E, v) == FirstOf({e \in E : v <= e})
CameTrue(h, S, E, c, e) == \E v \in S : c < v /\ Speaks(h[c], v) /\ RunIn(E, v) = e

\* In g, each grant of h013 is for a prophecy of its run, and there is one in each run
\* that fulfilled any.
FortunesIn(g) == {i \in DOMAIN g : g[i][1].rule = 13}

AllTold(g, h, S, E) ==
  /\ \A i \in FortunesIn(g) : /\ g[i][1].commit \in S /\ g[i][2] \in E
                              /\ CameTrue(h, S, E, g[i][1].commit, g[i][2])
  /\ \A i, j \in FortunesIn(g) : g[i][2] = g[j][2] => i = j
  /\ \A e \in E : (\E c \in S : CameTrue(h, S, E, c, e)) => \E i \in FortunesIn(g) : g[i][2] = e

\* A cache x of the commits S of history h holds what they said, and what they said of
\* anything else.
Retains(x, h, S) ==
  /\ \A p \in Spoken(x) : p[1] \in S /\ Speaks(h[p[1]], p[2])
  /\ \A c \in S : \A n \in Nat \ S : Speaks(h[c], n) => <<c, n>> \in Spoken(x)

\* In a run after S that has started k commits and heard H, token t of memory m was
\* said, and only commits met before are in its future; m holds what was said.
Dated(t, h, S, H) ==
  /\ t.source \in S \cup H /\ Speaks(h[t.source], t.names)
  /\ t.source \in S => t.cutoff = UsizeMax
  /\ t.source \in H => t.cutoff = Len(h) - t.source

Remembers(m, h, S, H, k) ==
  /\ Len(m.visited) = k /\ \A i \in 1..k : m.visited[i] = Len(h) + 1 - i
  /\ \A i \in DOMAIN m.tokens : Dated(m.tokens[i], h, S, H)
  /\ \A c \in S : \A n \in Nat \ S : Speaks(h[c], n) => <<c, n>> \in Spoken(m.tokens)
  /\ \A c \in H : \A n \in Nat : Speaks(h[c], n) => <<c, n>> \in Spoken(m.tokens)

\* How many commits this run has started.
Started == Len(history) - at + (IF phase = "commit" THEN 1 ELSE 0)

FortunesHeard ==
  phase # "idle" => Remembers(memory[13], history, Seen, HeardInRun(13), Started)

Fortunes ==
  13 \in enabled => /\ AllTold(granted, history, Seen, ends)
                   /\ Retains(cache[13], history, Seen) /\ FortunesHeard

LEMMA FortuneMemoryIs ==
  ASSUME NEW m \in FortuneMemory
  PROVE  /\ m.visited \in Seq(Nat) /\ Len(m.visited) \in Nat
         /\ DOMAIN m.visited = 1..Len(m.visited)
         /\ m.tokens \in Seq([names : Nat, source : Nat, user : Users, cutoff : Int])
         /\ Len(m.tokens) \in Nat /\ DOMAIN m.tokens = 1..Len(m.tokens)
         /\ \A i \in DOMAIN m.tokens :
              m.tokens[i] \in [names : Nat, source : Nat, user : Users, cutoff : Int]
<1> DEFINE Token4 == [names : Nat, source : Nat, user : Users, cutoff : Int]
<1>1. m.visited \in Seq(Nat) /\ m.tokens \in Seq(Token4)
  BY DEF FortuneMemory
<1> HIDE DEF Token4
<1>2. Len(m.visited) \in Nat /\ DOMAIN m.visited = 1..Len(m.visited)
  BY <1>1, LenProperties
<1>3. /\ Len(m.tokens) \in Nat /\ DOMAIN m.tokens = 1..Len(m.tokens)
      /\ \A i \in DOMAIN m.tokens : m.tokens[i] \in Token4
  BY <1>1, LenProperties, ElementOfSeq
<1> QED
  BY <1>1, <1>2, <1>3 DEF Token4

\* What h013 remembers after the tokens s of commit c: what it did before, and those
\* of them that are worth a prophecy.
Heeds(m, P, c, s) ==
  /\ P.visited = m.visited
  /\ \A i \in DOMAIN P.tokens :
       \/ i \in DOMAIN m.tokens /\ P.tokens[i] = m.tokens[i]
       \/ /\ P.tokens[i].source = c /\ P.tokens[i].cutoff = Len(m.visited) - 1
          /\ \E k \in DOMAIN s : Fits(s[k]) /\ s[k].names = P.tokens[i].names
  /\ Spoken(m.tokens) \subseteq Spoken(P.tokens)
  /\ \A k \in DOMAIN s : Fits(s[k]) => <<c, s[k].names>> \in Spoken(P.tokens)

LEMMA FortuneHears ==
  ASSUME NEW m \in FortuneMemory, NEW c \in Nat, NEW u \in Users,
         NEW o, o.kind = "HexTokens", o.value \in Tokens
  PROVE  Heeds(m, FortuneTellerProcess(m, c, u, o).m, c, o.value)
<1> DEFINE s == o.value
           P == FortuneTellerProcess(m, c, u, o).m
           fit == Fitting(s)
           S == {i \in DOMAIN s : s[i].length \in MinToken .. MaxToken}
           n == Len(m.tokens)
           d == Len(m.visited) - 1
           Token4 == [names : Nat, source : Nat, user : Users, cutoff : Int]
           new == [i \in DOMAIN fit |-> [names |-> fit[i].names, source |-> c,
                                         user |-> u, cutoff |-> d]]
<1>1. /\ m.tokens \in Seq(Token4) /\ n \in Nat /\ d \in Int /\ DOMAIN m.tokens = 1..n
      /\ m \in [visited : Seq(Nat), tokens : Seq(Token4)]
  <2>1. /\ m.tokens \in Seq(Token4) /\ n \in Nat /\ Len(m.visited) \in Nat
        /\ DOMAIN m.tokens = 1..n
    BY FortuneMemoryIs
  <2> HIDE DEF n, Token4
  <2> QED
    BY <2>1 DEF FortuneMemory, Token4
<1>2. P = [m EXCEPT !.tokens = @ \o new]
  BY KeptIs DEF FortuneTellerProcess
<1>3. /\ P.visited = m.visited /\ P.tokens = m.tokens \o new
  <2> HIDE DEF P, new, Token4
  <2> QED
    BY <1>1, <1>2
<1>4. /\ fit \in Tokens /\ DOMAIN fit = 1..Len(fit) /\ Len(fit) \in Nat
      /\ \A i \in DOMAIN fit : fit[i] \in [length : Nat, names : Nat]
      /\ {fit[k] : k \in DOMAIN fit} = {s[i] : i \in S}
  <2> DEFINE T == [length : Nat, names : Nat]
  <2>1. S \in SUBSET DOMAIN s /\ fit = Part(s, S) /\ s \in Seq(T)
    BY DEF Fitting, Tokens
  <2> HIDE DEF S, fit, s, T
  <2>2. fit \in Seq(T) /\ {fit[k] : k \in DOMAIN fit} = {s[i] : i \in S}
    <3>1. fit \in Seq(T)
      BY <2>1, PartType
    <3>2. {Part(s, S)[k] : k \in DOMAIN Part(s, S)} = {s[i] : i \in S}
      BY <2>1, PartValues
    <3> QED
      BY <2>1, <3>1, <3>2
  <2>3. DOMAIN fit = 1..Len(fit) /\ Len(fit) \in Nat /\ \A i \in DOMAIN fit : fit[i] \in T
    BY <2>2, LenProperties, ElementOfSeq
  <2> QED
    BY <2>2, <2>3 DEF T, Tokens
<1>5. /\ \A k \in DOMAIN fit : \E i \in DOMAIN s : Fits(s[i]) /\ s[i] = fit[k]
      /\ \A i \in DOMAIN s : Fits(s[i]) => \E k \in DOMAIN fit : fit[k] = s[i]
  <2>1. \A k \in DOMAIN fit : \E i \in S : s[i] = fit[k]
    <3> HIDE DEF fit, S, s
    <3> QED
      BY <1>4
  <2>2. \A i \in S : \E k \in DOMAIN fit : fit[k] = s[i]
    <3> HIDE DEF fit, S, s
    <3> QED
      BY <1>4
  <2> HIDE DEF fit, s
  <2> QED
    BY <2>1, <2>2 DEF Fits
<1> HIDE DEF fit, P, S, s, d
<1>6. /\ new \in Seq(Token4) /\ Len(new) = Len(fit)
      /\ \A i \in 1..Len(fit) : /\ new[i].names = fit[i].names /\ new[i].source = c
                                /\ new[i].cutoff = d
  <2>1. new \in [1..Len(fit) -> Token4]
    BY <1>1, <1>4
  <2>2. \A i \in 1..Len(fit) : new[i].names = fit[i].names /\ new[i].source = c /\ new[i].cutoff = d
    BY <1>4
  <2> HIDE DEF new, Token4
  <2>3. new \in Seq(Token4) /\ Len(new) = Len(fit)
    BY <1>4, <2>1, SeqDef, LenProperties
  <2> QED
    BY <2>2, <2>3
<1> HIDE DEF new, Token4
<1>7. /\ DOMAIN P.tokens = 1 .. n + Len(fit)
      /\ \A i \in 1 .. n + Len(fit) : P.tokens[i] = IF i <= n THEN m.tokens[i] ELSE new[i - n]
  <2>1. /\ P.tokens \in Seq(Token4) /\ Len(P.tokens) = n + Len(fit)
        /\ \A i \in 1 .. n + Len(fit) : P.tokens[i] = IF i <= n THEN m.tokens[i] ELSE new[i - n]
    <3> DEFINE t == m.tokens
    <3>1. t \in Seq(Token4) /\ P.tokens = t \o new /\ n = Len(t)
      BY <1>1, <1>3
    <3> HIDE DEF t, n
    <3>2. /\ t \o new \in Seq(Token4) /\ Len(t \o new) = Len(t) + Len(new)
          /\ \A i \in 1 .. Len(t) + Len(new) :
               (t \o new)[i] = IF i <= Len(t) THEN t[i] ELSE new[i - Len(t)]
      BY <1>6, <3>1, ConcatProperties
    <3>3. /\ P.tokens \in Seq(Token4) /\ Len(P.tokens) = n + Len(fit)
          /\ \A i \in 1 .. n + Len(fit) : P.tokens[i] = IF i <= n THEN t[i] ELSE new[i - n]
      BY <1>6, <3>1, <3>2
    <3> QED
      BY <3>3 DEF t
  <2> QED
    BY <2>1, LenProperties
<1> HIDE DEF n
<1>8. ASSUME NEW i \in DOMAIN P.tokens
      PROVE  \/ i \in DOMAIN m.tokens /\ P.tokens[i] = m.tokens[i]
             \/ /\ P.tokens[i].source = c /\ P.tokens[i].cutoff = d
                /\ \E k \in DOMAIN s : Fits(s[k]) /\ s[k].names = P.tokens[i].names
  <2>1. CASE i <= n
    BY <1>1, <1>7, <2>1
  <2>2. CASE ~(i <= n)
    <3>1. i - n \in 1..Len(fit) /\ P.tokens[i] = new[i - n]
      BY <1>1, <1>4, <1>7, <2>2
    <3>2. PICK k \in DOMAIN s : Fits(s[k]) /\ s[k] = fit[i - n]
      BY <1>4, <1>5, <3>1
    <3> QED
      BY <1>6, <3>1, <3>2
  <2> QED
    BY <2>1, <2>2
<1>9. Spoken(m.tokens) \subseteq Spoken(P.tokens)
  <2>1. \A i \in DOMAIN m.tokens : i \in DOMAIN P.tokens /\ P.tokens[i] = m.tokens[i]
    BY <1>1, <1>4, <1>7
  <2> QED
    BY <2>1 DEF Spoken
<1>10. ASSUME NEW k \in DOMAIN s, Fits(s[k]) PROVE <<c, s[k].names>> \in Spoken(P.tokens)
  <2>1. PICK i \in DOMAIN fit : fit[i] = s[k]
    BY <1>5, <1>10
  <2>2. n + i \in DOMAIN P.tokens /\ P.tokens[n + i] = new[i]
    <3>1. n + i \in 1 .. n + Len(fit) /\ ~(n + i <= n) /\ (n + i) - n = i
      BY <1>1, <1>4
    <3> QED
      BY <1>7, <3>1
  <2>3. P.tokens[n + i].source = c /\ P.tokens[n + i].names = s[k].names
    BY <1>4, <1>6, <2>1, <2>2
  <2> QED
    BY <2>2, <2>3 DEF Spoken
<1> QED
  BY <1>3, <1>8, <1>9, <1>10 DEF Heeds, s, P, d

LEMMA TokensTold ==
  ASSUME NEW f \in Fact
  PROVE  /\ \A o \in Observed(f) : o.kind = "HexTokens" => o.value = f.tokens
         /\ 13 \in enabled /\ f.tokens # <<>> =>
              \E o \in Observed(f) : o.kind = "HexTokens"
<1>1. ASSUME NEW o \in Observed(f), o.kind = "HexTokens" PROVE o.value = f.tokens
  <2>1. o.kind \notin Kinds
    BY <1>1 DEF Kinds
  <2>2. f.kinds \subseteq Kinds
    BY DEF Fact
  <2>3. o \in {[kind |-> "HexTokens", value |-> s] : s \in {f.tokens} \ {<<>>}}
    BY <1>1, <2>1, <2>2 DEF Observed
  <2> QED
    BY <2>3
<1>2. ASSUME 13 \in enabled, f.tokens # <<>> PROVE \E o \in Observed(f) : o.kind = "HexTokens"
  <2> DEFINE o == [kind |-> "HexTokens", value |-> f.tokens]
  <2>1. o \in {[kind |-> "HexTokens", value |-> s] : s \in {f.tokens} \ {<<>>}}
    BY <1>2
  <2>2. o.kind \in Consumes(13) /\ o.kind = "HexTokens"
    BY DEF Consumes
  <2> HIDE DEF o
  <2>3. o \in Observed(f)
    BY <1>2, <2>1, <2>2 DEF Observed
  <2> QED
    BY <2>2, <2>3
<1> QED
  BY <1>1, <1>2

(* Nothing was said that mattered.                                         *)
LEMMA RemembersSame ==
  ASSUME NEW m, NEW p, NEW h, NEW S, NEW H, NEW G, NEW k, NEW l,
         Remembers(m, h, S, H, k), p.tokens = m.tokens, H \subseteq G,
         \A c \in G \ H : c \notin S /\ \A n \in Nat : ~Speaks(h[c], n),
         Len(p.visited) = l, \A i \in 1..l : p.visited[i] = Len(h) + 1 - i
  PROVE  Remembers(p, h, S, G, l)
<1>1. ASSUME NEW t, Dated(t, h, S, H) PROVE Dated(t, h, S, G)
  BY <1>1 DEF Dated
<1>2. \A i \in DOMAIN p.tokens : Dated(p.tokens[i], h, S, G)
  BY <1>1 DEF Remembers
<1>3. /\ \A c \in S : \A n \in Nat \ S : Speaks(h[c], n) => <<c, n>> \in Spoken(p.tokens)
      /\ \A c \in G : \A n \in Nat : Speaks(h[c], n) => <<c, n>> \in Spoken(p.tokens)
  BY DEF Remembers
<1> QED
  BY <1>2, <1>3 DEF Remembers

(* A run starts with what the last one kept.                               *)
LEMMA RemembersCache ==
  ASSUME NEW x, NEW h, NEW S, Retains(x, h, S)
  PROVE  Remembers(InitCache(13, x), h, S, {}, 0)
<1> DEFINE t == [i \in DOMAIN x |-> [names |-> x[i].names, source |-> x[i].source,
                                     user |-> x[i].user, cutoff |-> UsizeMax]]
           m == InitCache(13, x)
<1>1. m = [visited |-> <<>>, tokens |-> t]
  BY DEF InitCache
<1>2. DOMAIN t = DOMAIN x /\ Spoken(t) = Spoken(x)
  BY DEF Spoken
<1>3. ASSUME NEW i \in DOMAIN t PROVE Dated(t[i], h, S, {})
  <2>1. t[i].source = x[i].source /\ t[i].names = x[i].names /\ t[i].cutoff = UsizeMax
    OBVIOUS
  <2>2. <<x[i].source, x[i].names>> \in Spoken(x)
    BY DEF Spoken
  <2> HIDE DEF t
  <2>3. x[i].source \in S /\ Speaks(h[x[i].source], x[i].names)
    BY <2>2 DEF Retains
  <2> QED
    BY <2>1, <2>3 DEF Dated
<1> HIDE DEF t
<1>4. m.tokens = t /\ Len(m.visited) = 0 /\ 1..0 = {}
  BY <1>1
<1> HIDE DEF m
<1> QED
  BY <1>2, <1>3, <1>4 DEF Remembers, Retains, m

LEMMA FortunesHeardStart ==
  ASSUME TypeOK, 13 \in enabled, Retains(cache[13], history, Seen), InitCaches
  PROVE  FortunesHeard'
<1>1. /\ InRun' = {} /\ Told' = {} /\ history' = history /\ Seen' = Seen
      /\ at' = Len(history) /\ phase' = "walk" /\ memory'[13] = InitCache(13, cache[13])
  BY InitCachesMet DEF InitCaches
<1>2. HeardInRun(13)' = {} /\ Len(history) \in Nat
  BY <1>1, TypeFacts DEF HeardInRun
<1>3. Started' = 0
  BY <1>1, <1>2 DEF Started
<1> HIDE DEF Seen, HeardInRun, Started
<1>4. Remembers(memory'[13], history', Seen', HeardInRun(13)', Started')
  BY <1>1, <1>2, <1>3, RemembersCache
<1> QED
  BY <1>4 DEF FortunesHeard

LEMMA FortunesHeardCommit ==
  ASSUME TypeOK, 13 \in enabled, FortunesHeard, OnCommitStart
  PROVE  FortunesHeard'
<1> DEFINE m == memory[13]
           p == memory'[13]
           k == Started
<1>1. /\ InRun' = InRun /\ Told' = Told /\ history' = history /\ Seen' = Seen
      /\ at' = at /\ phase = "walk" /\ phase' = "commit" /\ p = CommitStarted(13, m, at)
  BY OnCommitStartMet DEF OnCommitStart
<1>2. HeardInRun(13)' = HeardInRun(13)
  BY <1>1, HeardSame
<1>3. /\ Len(history) \in Nat /\ at \in 0..Len(history) /\ m \in FortuneMemory
  BY TypeFacts, MemoryIs DEF TypeOK
<1>4. k \in Nat /\ Started' = k + 1 /\ k = Len(history) - at
  BY <1>1, <1>3 DEF Started
<1>5. p = [m EXCEPT !.visited = Append(@, at)]
  BY <1>1 DEF CommitStarted
<1>6. p.tokens = m.tokens /\ p.visited = Append(m.visited, at)
  <2> HIDE DEF m, p
  <2> QED
    BY <1>3, <1>5 DEF FortuneMemory
<1>7. m.visited \in Seq(Nat) /\ at \in Nat
  BY <1>3, FortuneMemoryIs
<1>8. Remembers(m, history, Seen, HeardInRun(13), k)
  BY <1>1 DEF FortunesHeard
<1> HIDE DEF Seen, HeardInRun, Started, k, m, p
<1>9. Len(m.visited) = k /\ \A i \in 1..k : m.visited[i] = Len(history) + 1 - i
  BY <1>8 DEF Remembers
<1>10. Len(p.visited) = k + 1 /\ \A i \in 1 .. k + 1 : p.visited[i] = Len(history) + 1 - i
  <2>1. /\ Len(p.visited) = k + 1 /\ p.visited[k + 1] = at
        /\ \A i \in 1..k : p.visited[i] = m.visited[i]
    BY <1>6, <1>7, <1>9, AppendProperties
  <2>2. \A i \in 1 .. k + 1 : i \in 1..k \/ i = k + 1
    BY <1>4
  <2>3. at = Len(history) + 1 - (k + 1)
    BY <1>3, <1>4
  <2> QED
    BY <1>9, <2>1, <2>2, <2>3
<1>11. Remembers(p, history, Seen, HeardInRun(13), k + 1)
  BY <1>6, <1>8, <1>10, RemembersSame
<1> QED
  BY <1>1, <1>2, <1>4, <1>11 DEF FortunesHeard, p

LEMMA FortunesHeardComplete ==
  ASSUME TypeOK, 13 \in enabled, FortunesHeard, OnCommitComplete
  PROVE  FortunesHeard'
<1> DEFINE m == memory[13]
           H == HeardInRun(13)
           k == Started
<1>1. /\ phase = "commit" /\ phase' = "walk" /\ UNCHANGED <<cache, history, memory>> /\ Seen' = Seen
      /\ InRun' = InRun \cup {at} /\ Told = Observed(history[at]) /\ Told' = {} /\ at' = at - 1
  BY OnCommitCompleteMet DEF OnCommitComplete
<1>2. history[at] \in Fact /\ at \notin Seen
  <2>1. at \in 1..Len(history) /\ at \notin Met
    BY CompleteView, OnCommitCompleteMet
  <2> QED
    BY <2>1, TypeFacts DEF Met
<1>3. Started' = k
  <2>1. Len(history) \in Nat /\ at \in 0..Len(history)
    BY TypeFacts DEF TypeOK
  <2> QED
    BY <1>1, <2>1 DEF Started
<1>4. HeardInRun(13)' = InRun \cup {at}
  BY <1>1 DEF HeardInRun
<1>5. H \subseteq InRun \cup {at} /\ InRun \subseteq H
  BY DEF HeardInRun
<1>6. \/ at \in H
      \/ \A n \in Nat : ~Speaks(history[at], n)
  <2>1. CASE history[at].tokens = <<>>
    BY <2>1 DEF Speaks
  <2>2. CASE history[at].tokens # <<>>
    <3>1. \E o \in Told : o.kind = "HexTokens"
      BY <1>1, <1>2, <2>2, TokensTold
    <3>2. "HexTokens" \in Consumes(13)
      BY DEF Consumes
    <3> QED
      BY <3>1, <3>2 DEF HeardInRun
  <2> QED
    BY <2>1, <2>2
<1>7. Remembers(m, history, Seen, H, k)
  BY <1>1 DEF FortunesHeard
<1> HIDE DEF Seen, H, m, k
<1>8. Len(m.visited) = k /\ \A i \in 1..k : m.visited[i] = Len(history) + 1 - i
  BY <1>7 DEF Remembers
<1>9. Remembers(m, history, Seen, InRun \cup {at}, k)
  <2> DEFINE G == InRun \cup {at}
  <2>1. H \subseteq G /\ \A c \in G \ H : c \notin Seen /\ \A n \in Nat : ~Speaks(history[c], n)
    BY <1>2, <1>5, <1>6
  <2> HIDE DEF G
  <2>2. Remembers(m, history, Seen, G, k)
    BY <1>7, <1>8, <2>1, RemembersSame
  <2> QED
    BY <2>2 DEF G
<1>10. Remembers(memory'[13], history', Seen', HeardInRun(13)', Started')
  BY <1>1, <1>3, <1>4, <1>9 DEF m
<1> QED
  BY <1>10 DEF FortunesHeard

(* The tokens of commit c, once told, are remembered.                      *)
LEMMA RemembersTold ==
  ASSUME NEW m, NEW P, NEW h, NEW S, NEW H, NEW k, NEW c,
         Remembers(m, h, S, H, k), Heeds(m, P, c, h[c].tokens),
         c \notin S, k - 1 = Len(h) - c
  PROVE  Remembers(P, h, S, H \cup {c}, k)
<1> DEFINE G == H \cup {c}
<1>1. /\ P.visited = m.visited /\ Spoken(m.tokens) \subseteq Spoken(P.tokens)
      /\ Len(m.visited) = k
  BY DEF Heeds, Remembers
<1>2. ASSUME NEW i \in DOMAIN P.tokens PROVE Dated(P.tokens[i], h, S, G)
  <2>1. CASE i \in DOMAIN m.tokens /\ P.tokens[i] = m.tokens[i]
    <3>1. Dated(P.tokens[i], h, S, H)
      BY <2>1 DEF Remembers
    <3> QED
      BY <3>1 DEF Dated
  <2>2. CASE ~(i \in DOMAIN m.tokens /\ P.tokens[i] = m.tokens[i])
    <3>1. /\ P.tokens[i].source = c /\ P.tokens[i].cutoff = Len(m.visited) - 1
          /\ \E j \in DOMAIN h[c].tokens : Fits(h[c].tokens[j])
                                           /\ h[c].tokens[j].names = P.tokens[i].names
      BY <2>2 DEF Heeds
    <3>2. Speaks(h[c], P.tokens[i].names)
      BY <3>1 DEF Speaks
    <3> QED
      BY <1>1, <3>1, <3>2 DEF Dated
  <2> QED
    BY <2>1, <2>2
<1>3. \A v \in Nat : Speaks(h[c], v) => <<c, v>> \in Spoken(P.tokens)
  BY DEF Heeds, Speaks
<1>4. /\ \A d \in S : \A v \in Nat \ S : Speaks(h[d], v) => <<d, v>> \in Spoken(P.tokens)
      /\ \A d \in H : \A v \in Nat : Speaks(h[d], v) => <<d, v>> \in Spoken(P.tokens)
  BY <1>1 DEF Remembers
<1>5. Len(P.visited) = k /\ \A i \in 1..k : P.visited[i] = Len(h) + 1 - i
  BY <1>1 DEF Remembers
<1>6. \A d \in G : \A v \in Nat : Speaks(h[d], v) => <<d, v>> \in Spoken(P.tokens)
  BY <1>3, <1>4
<1> QED
  BY <1>2, <1>4, <1>5, <1>6 DEF Remembers

LEMMA FortunesHeardObservation ==
  ASSUME TypeOK, 13 \in enabled, FortunesHeard, NEW o \in todo, OnObservation(o)
  PROVE  FortunesHeard'
<1> DEFINE u == history[at].author
           m == memory[13]
           k == Started
           H == HeardInRun(13)
<1>1. /\ phase = "commit" /\ phase' = "commit" /\ cache' = cache /\ history' = history
      /\ Seen' = Seen /\ at' = at /\ Told' = Told \cup {o} /\ InRun' = InRun
  BY OnObservationMet DEF OnObservation
<1>2. /\ o \in Observed(history[at]) /\ history[at] \in Fact /\ o \in Observation
      /\ at \in 1..Len(history) /\ u \in Users
      /\ memory'[13] = FortuneTellerProcess(m, at, u, o).m
  BY ObservationView, TypeFacts DEF Process
<1>3. Started' = k
  BY <1>1 DEF Started
<1>4. Remembers(m, history, Seen, H, k)
  BY <1>1 DEF FortunesHeard
<1>5. SUFFICES Remembers(memory'[13], history, Seen, HeardInRun(13)', k)
  <2> HIDE DEF Seen, HeardInRun, Started
  <2>1. SUFFICES Remembers(memory'[13], history', Seen', HeardInRun(13)', Started')
    BY DEF FortunesHeard
  <2> QED
    BY <1>1, <1>3
<1>6. CASE o.kind # "HexTokens"
  <2>1. memory'[13] = m
    BY <1>2, <1>6, KeptIs DEF FortuneTellerProcess
  <2>2. HeardInRun(13)' = H
    BY <1>1, <1>6 DEF HeardInRun, Consumes
  <2> QED
    BY <1>4, <2>1, <2>2
<1>7. CASE o.kind = "HexTokens"
  <2>1. o.value = history[at].tokens /\ o.value \in Tokens
    BY <1>2, <1>7, TokensTold DEF Fact, Tokens
  <2>2. HeardInRun(13)' = H \cup {at}
    BY <1>1, <1>7 DEF HeardInRun, Consumes
  <2>3. m \in FortuneMemory /\ at \in Nat
    BY <1>2, MemoryIs DEF TypeOK
  <2>4. at \notin Seen /\ k - 1 = Len(history) - at
    <3>1. Len(history) \in Nat /\ processed \in Nat /\ processed < at
      BY <1>1, TypeFacts DEF TypeOK
    <3> QED
      BY <1>1, <1>2, <3>1 DEF Seen, Started
  <2> HIDE DEF Seen, H, m, k, u
  <2>5. Heeds(m, memory'[13], at, history[at].tokens)
    BY <1>2, <1>7, <2>1, <2>3, FortuneHears
  <2>6. Remembers(memory'[13], history, Seen, H \cup {at}, k)
    BY <1>4, <2>4, <2>5, RemembersTold
  <2> QED
    BY <2>2, <2>6
<1> QED
  BY <1>6, <1>7

-----------------------------------------------------------------------------
(* What h013 finds at the end of a run over p + 1 .. Len(h): a prophecy    *)
(* that this run fulfilled, if there is any.                               *)
Foretold(h, p, c) == \E v \in p + 1 .. Len(h) : c < v /\ Speaks(h[c], v)

Finds(m, h, p) ==
  LET out == FirstFortune(m).out IN
  /\ out = <<>> => \A c \in 1..Len(h) : ~Foretold(h, p, c)
  /\ out # <<>> => out[1].commit \in 1..Len(h) /\ Foretold(h, p, out[1].commit)
  /\ Retains(Orphans(m), h, 1..Len(h))

LEMMA FortuneFinds ==
  ASSUME NEW m \in FortuneMemory, NEW h, Len(h) \in Nat, NEW p \in 0..Len(h), Len(h) <= UsizeMax,
         Remembers(m, h, 1..p, p + 1 .. Len(h), Len(h) - p)
  PROVE  Finds(m, h, p)
<1> DEFINE n == Len(h)
           S == 1..p
           H == p + 1 .. n
           t == m.tokens
           v == m.visited
           true == {i \in DOMAIN t : \E k \in DOMAIN v : k <= t[i].cutoff /\ v[k] = t[i].names}
           out == FirstFortune(m).out
<1>1. /\ n \in Nat /\ p \in Nat /\ p <= n /\ UsizeMax \in Nat /\ n <= UsizeMax
  BY RuleThresholdsAssumption
<1>2. /\ DOMAIN v = 1 .. n - p /\ DOMAIN t = 1..Len(t) /\ Len(t) \in Nat
      /\ \A i \in DOMAIN t : /\ t[i].names \in Nat /\ t[i].source \in Nat
                             /\ t[i].user \in Users /\ t[i].cutoff \in Int
      /\ \A k \in 1 .. n - p : v[k] = n + 1 - k
  <2>1. /\ DOMAIN v = 1..Len(v) /\ DOMAIN t = 1..Len(t) /\ Len(t) \in Nat
        /\ \A i \in DOMAIN t : t[i] \in [names : Nat, source : Nat, user : Users, cutoff : Int]
    BY FortuneMemoryIs
  <2>2. Len(v) = n - p /\ \A k \in 1 .. n - p : v[k] = n + 1 - k
    BY DEF Remembers
  <2> QED
    BY <2>1, <2>2
<1>3. ASSUME NEW i \in DOMAIN t
      PROVE  /\ t[i].source \in 1..n /\ Speaks(h[t[i].source], t[i].names)
             /\ i \in true <=> t[i].names \in H /\ t[i].source < t[i].names
             /\ (\E k \in DOMAIN v : v[k] = t[i].names) <=> t[i].names \in H
  <2>1. Dated(t[i], h, S, H)
    BY DEF Remembers
  <2>2. /\ t[i].source \in S \cup H /\ Speaks(h[t[i].source], t[i].names)
        /\ t[i].source \in S => t[i].cutoff = UsizeMax
        /\ t[i].source \in H => t[i].cutoff = n - t[i].source
    BY <2>1 DEF Dated
  <2> DEFINE a == t[i].names
             c == t[i].source
             d == t[i].cutoff
  <2>3. a \in Nat /\ c \in Nat /\ d \in Int
    BY <1>2
  <2>4. c \in 1..n
    BY <1>1, <2>2
  <2>5. (\E k \in DOMAIN v : v[k] = a) <=> a \in H
    <3>1. ASSUME NEW k \in DOMAIN v, v[k] = a PROVE a \in H
      <4>1. k \in 1 .. n - p /\ a = n + 1 - k
        BY <1>2, <3>1
      <4> HIDE DEF a, n
      <4> QED
        BY <1>1, <4>1
    <3>2. ASSUME a \in H PROVE \E k \in DOMAIN v : v[k] = a
      <4>1. n + 1 - a \in 1 .. n - p /\ n + 1 - (n + 1 - a) = a
        <5> HIDE DEF a, n
        <5> QED
          BY <1>1, <2>3, <3>2
      <4> QED
        BY <1>2, <4>1
    <3> QED
      BY <3>1, <3>2
  <2>6. ASSUME NEW k \in DOMAIN v, k <= d, v[k] = a PROVE a \in H /\ c < a
    <3>1. k \in 1 .. n - p /\ a = n + 1 - k /\ a \in H
      BY <1>2, <2>5, <2>6
    <3>2. c \in S => c < a
      <4> HIDE DEF a, c, n
      <4> QED
        BY <1>1, <2>3, <3>1
    <3>3. c \in H => c < a
      <4>1. c \in H => k <= n - c
        BY <2>2, <2>6
      <4> HIDE DEF a, c, n, d
      <4> QED
        BY <1>1, <2>3, <3>1, <4>1
    <3> QED
      BY <2>2, <3>1, <3>2, <3>3
  <2>7. ASSUME a \in H, c < a PROVE \E k \in DOMAIN v : k <= d /\ v[k] = a
    <3> DEFINE k == n + 1 - a
    <3>1. k \in 1 .. n - p /\ n + 1 - k = a /\ k <= n /\ k <= n - c
      <4> HIDE DEF a, c, n
      <4> QED
        BY <1>1, <2>3, <2>7
    <3>2. k <= d
      <4>1. d = UsizeMax \/ d = n - c
        BY <2>2
      <4> HIDE DEF a, c, n, d
      <4>2. k \in Int /\ n - c \in Int
        BY <1>1, <2>3
      <4> HIDE DEF k
      <4> QED
        BY <1>1, <3>1, <4>1, <4>2
    <3>3. k \in DOMAIN v /\ v[k] = a
      BY <1>2, <3>1
    <3> QED
      BY <3>2, <3>3
  <2> QED
    BY <2>2, <2>4, <2>5, <2>6, <2>7
<1>4. out = IF true = {} THEN <<>>
            ELSE <<GrantOf(13, t[FirstOf(true)].source, t[FirstOf(true)].user, 0)>>
  BY DEF FirstFortune
<1>5. Spoken(t) = {<<t[i].source, t[i].names>> : i \in DOMAIN t}
  BY DEF Spoken
<1>6. /\ \A c \in S : \A x \in Nat \ S : Speaks(h[c], x) => <<c, x>> \in Spoken(t)
      /\ \A c \in H : \A x \in Nat : Speaks(h[c], x) => <<c, x>> \in Spoken(t)
  BY DEF Remembers
<1>7. true \subseteq DOMAIN t
  OBVIOUS
<1> HIDE DEF true, t, v, out
<1>8. ASSUME out = <<>>, NEW c \in 1..n PROVE ~Foretold(h, p, c)
  <2>1. SUFFICES ASSUME NEW x \in H, c < x, Speaks(h[c], x) PROVE FALSE
    BY DEF Foretold
  <2>2. (c \in S \/ c \in H) /\ x \in Nat \ S
    <3> HIDE DEF n
    <3> QED
      BY <1>1, <2>1
  <2>3. <<c, x>> \in Spoken(t)
    BY <1>6, <2>1, <2>2
  <2>4. PICK i \in DOMAIN t : t[i].source = c /\ t[i].names = x
    BY <1>5, <2>3
  <2>5. i \in true
    BY <1>3, <2>1, <2>4
  <2>6. \A g : <<g>> # <<>>
    OBVIOUS
  <2>7. true # {}
    BY <2>5
  <2> QED
    BY <1>4, <1>8, <2>6, <2>7
<1>9. ASSUME out # <<>> PROVE out[1].commit \in 1..n /\ Foretold(h, p, out[1].commit)
  <2> DEFINE i == FirstOf(true)
  <2>1. true # {}
    BY <1>4, <1>9
  <2>2. i \in true
    <3>1. true \in SUBSET Nat
      BY <1>2, <1>7
    <3> QED
      BY <2>1, <3>1, FirstOfIs
  <2> HIDE DEF i
  <2>3. out[1].commit = t[i].source
    BY <1>4, <2>1 DEF i, GrantOf
  <2>4. i \in DOMAIN t /\ t[i].names \in H /\ t[i].source < t[i].names
    BY <1>3, <1>7, <2>2
  <2> QED
    BY <1>3, <2>3, <2>4 DEF Foretold
<1>10. Retains(Orphans(m), h, 1..n)
  <2> DEFINE K == {i \in DOMAIN t : \A k \in DOMAIN v : v[k] # t[i].names}
             kept == Part(t, K)
             x == Orphans(m)
  <2>1. /\ DOMAIN x = DOMAIN kept
        /\ \A i \in DOMAIN x : x[i].source = kept[i].source /\ x[i].names = kept[i].names
    BY DEF Orphans, t, v
  <2>2. {kept[i] : i \in DOMAIN kept} = {t[i] : i \in K}
    <3> DEFINE Token4 == [names : Nat, source : Nat, user : Users, cutoff : Int]
    <3>1. t \in Seq(Token4) /\ K \in SUBSET DOMAIN t
      BY FortuneMemoryIs DEF t
    <3> HIDE DEF Token4, K
    <3> QED
      BY <3>1, PartValues
  <2>3. Spoken(x) = {<<t[i].source, t[i].names>> : i \in K}
    <3> HIDE DEF kept, x, K
    <3>1. \A i \in DOMAIN kept : \E j \in K : kept[i] = t[j]
      BY <2>2
    <3>2. \A j \in K : \E i \in DOMAIN kept : kept[i] = t[j]
      BY <2>2
    <3> QED
      BY <2>1, <3>1, <3>2 DEF Spoken
  <2> HIDE DEF x, kept
  <2>4. ASSUME NEW q \in Spoken(x) PROVE q[1] \in 1..n /\ Speaks(h[q[1]], q[2])
    BY <1>3, <2>3
  <2>5. ASSUME NEW c \in 1..n, NEW y \in Nat \ (1..n), Speaks(h[c], y)
        PROVE  <<c, y>> \in Spoken(x)
    <3>1. (c \in S \/ c \in H) /\ y \in Nat \ S /\ y \notin H
      <4> HIDE DEF n
      <4> QED
        BY <1>1
    <3>2. <<c, y>> \in Spoken(t)
      BY <1>6, <2>5, <3>1
    <3>3. PICK i \in DOMAIN t : t[i].source = c /\ t[i].names = y
      BY <1>5, <3>2
    <3>4. i \in K
      BY <1>3, <3>1, <3>3
    <3> QED
      BY <2>3, <3>3, <3>4
  <2> QED
    BY <2>4, <2>5 DEF Retains, x
<1> QED
  BY <1>8, <1>9, <1>10 DEF Finds, out

-----------------------------------------------------------------------------
(* What collecting outputs adds to the grants of h013.                     *)
LEMMA FortunesCollected ==
  ASSUME TypeOK, NEW outputs \in Seq(AnyGrant), CollectPending(outputs), 13 \in enabled,
         OfRule(outputs, 13) \in OneOf(13)
  PROVE  /\ \A i \in FortunesTold : granted'[i] = granted[i]
         /\ OfRule(outputs, 13) = <<>> => FortunesTold' = FortunesTold
         /\ OfRule(outputs, 13) # <<>> =>
              \E n : /\ n \notin FortunesTold /\ FortunesTold' = FortunesTold \cup {n}
                     /\ granted'[n] = <<OfRule(outputs, 13)[1], Len(history)>>
<1> DEFINE N == Len(history)
           b == Sorted(outputs)
           l == Len(granted)
           x == OfRule(outputs, 13)
           T == {i \in DOMAIN b : b[i].rule = 13}
           new == [i \in DOMAIN b |-> <<b[i], N>>]
           Pair == AnyGrant \X Nat
<1>1. enabled \in Focuses /\ granted \in Seq(Pair) /\ N \in Nat
  BY TypeFacts DEF TypeOK
<1>2. b \in Seq(AnyGrant) /\ OfRule(b, 13) = x
  BY <1>1, SortedByRule
<1>3. granted' = granted \o new
  BY DEF CollectPending
<1> HIDE DEF b
<1>4. Len(b) \in Nat /\ DOMAIN b = 1..Len(b) /\ \A i \in 1..Len(b) : b[i] \in AnyGrant
  BY <1>2, LenProperties, ElementOfSeq
<1>5. new \in [1..Len(b) -> Pair] /\ \A i \in 1..Len(b) : new[i] = <<b[i], N>>
  BY <1>1, <1>4
<1> HIDE DEF new, N, Pair
<1>6. new \in Seq(Pair) /\ Len(new) = Len(b)
  BY <1>4, <1>5, SeqDef, LenProperties
<1>7. /\ l \in Nat /\ DOMAIN granted = 1..l /\ DOMAIN granted' = 1 .. l + Len(b)
      /\ \A i \in 1 .. l + Len(b) : granted'[i] = IF i <= l THEN granted[i] ELSE new[i - l]
  <2>1. /\ granted \o new \in Seq(Pair) /\ Len(granted \o new) = Len(granted) + Len(new)
        /\ \A i \in 1 .. Len(granted) + Len(new) :
             (granted \o new)[i] = IF i <= Len(granted) THEN granted[i]
                                   ELSE new[i - Len(granted)]
    BY <1>1, <1>6, ConcatProperties
  <2>2. Len(granted) \in Nat /\ DOMAIN granted = 1..Len(granted)
    BY <1>1, LenProperties
  <2>3. DOMAIN (granted \o new) = 1 .. Len(granted) + Len(new)
    BY <2>1, LenProperties
  <2> QED
    BY <1>3, <1>6, <2>1, <2>2, <2>3
<1> HIDE DEF l
<1>8. /\ \A i \in 1..l : i \in 1 .. l + Len(b) /\ granted'[i] = granted[i]
      /\ \A i \in 1..Len(b) : l + i \in 1 .. l + Len(b) /\ l + i \notin 1..l
                              /\ granted'[l + i] = <<b[i], N>>
      /\ \A i \in 1 .. l + Len(b) : i \notin 1..l => i - l \in 1..Len(b) /\ l + (i - l) = i
  <2>1. /\ \A i \in 1..l : i \in 1 .. l + Len(b) /\ i <= l
        /\ \A i \in 1..Len(b) : /\ l + i \in 1 .. l + Len(b) /\ l + i \notin 1..l
                                /\ ~(l + i <= l) /\ (l + i) - l = i
        /\ \A i \in 1 .. l + Len(b) : i \notin 1..l => i - l \in 1..Len(b) /\ l + (i - l) = i
    BY <1>4, <1>7
  <2> QED
    BY <1>5, <1>7, <2>1
<1>9. FortunesTold' = FortunesTold \cup {l + i : i \in T}
  <2>1. ASSUME NEW i \in FortunesTold' PROVE i \in FortunesTold \cup {l + j : j \in T}
    <3>1. i \in 1 .. l + Len(b) /\ granted'[i][1].rule = 13
      BY <1>7 DEF FortunesTold
    <3>2. CASE i \in 1..l
      BY <1>7, <1>8, <3>1, <3>2 DEF FortunesTold
    <3>3. CASE i \notin 1..l
      BY <1>4, <1>8, <3>1, <3>3
    <3> QED
      BY <3>2, <3>3
  <2>2. ASSUME NEW i \in FortunesTold PROVE i \in FortunesTold'
    BY <1>7, <1>8 DEF FortunesTold
  <2>3. ASSUME NEW i \in T PROVE l + i \in FortunesTold'
    BY <1>4, <1>7, <1>8 DEF FortunesTold
  <2> QED
    BY <2>1, <2>2, <2>3
<1>10. \A i \in FortunesTold : i \in 1..l /\ granted'[i] = granted[i]
  BY <1>7, <1>8 DEF FortunesTold
<1>11. /\ T \in SUBSET DOMAIN b /\ x = Part(b, T) /\ Len(x) = Cardinality(T) /\ IsFiniteSet(T)
       /\ {x[k] : k \in DOMAIN x} = {b[i] : i \in T}
  <2>1. T \in SUBSET DOMAIN b /\ x = Part(b, T)
    BY <1>2 DEF OfRule
  <2> HIDE DEF T, x
  <2>2. Len(x) = Cardinality(T)
    BY <1>2, <2>1, PartType
  <2>3. {Part(b, T)[k] : k \in DOMAIN Part(b, T)} = {b[i] : i \in T}
    BY <1>2, <2>1, PartValues
  <2>4. IsFiniteSet(T)
    <3>1. IsFiniteSet(1..Len(b))
      BY <1>4, FS_Interval
    <3> QED
      BY <1>4, <2>1, <3>1, FS_Subset
  <2> QED
    BY <2>1, <2>2, <2>3, <2>4
<1>12. x # <<>> => Len(x) = 1 /\ DOMAIN x = {1}
  BY OneOfProperties
<1> HIDE DEF T, x
<1>13. ASSUME x = <<>> PROVE FortunesTold' = FortunesTold
  <2>1. Cardinality(T) = 0
    BY <1>11, <1>13
  <2>2. T = {}
    BY <1>11, <2>1, FS_EmptySet
  <2> QED
    BY <1>9, <2>2
<1>14. ASSUME x # <<>>
       PROVE  \E n : /\ n \notin FortunesTold /\ FortunesTold' = FortunesTold \cup {n}
                     /\ granted'[n] = <<x[1], N>>
  <2>1. PICK i : T = {i}
    BY <1>11, <1>12, <1>14, FS_Singleton
  <2>2. i \in 1..Len(b) /\ b[i] = x[1]
    BY <1>4, <1>11, <1>12, <1>14, <2>1
  <2>3. l + i \notin FortunesTold /\ granted'[l + i] = <<x[1], N>>
    BY <1>8, <1>10, <2>2
  <2>4. FortunesTold' = FortunesTold \cup {l + i}
    BY <1>9, <2>1
  <2> QED
    BY <2>3, <2>4
<1> QED
  BY <1>10, <1>13, <1>14 DEF x, N

(* Runs that are over stay as they were.                                   *)
LEMMA RunInEnds ==
  ASSUME NEW n \in Nat, NEW p \in Nat, p < n, NEW E \in SUBSET (1..p), p \in E \cup {0}
  PROVE  /\ \A v \in 1..p : RunIn(E \cup {n}, v) = RunIn(E, v) /\ RunIn(E, v) \in E
         /\ \A v \in p + 1 .. n : RunIn(E \cup {n}, v) = n
<1>1. \A e \in E : e \in Nat /\ e <= p /\ e < n /\ e # n
  OBVIOUS
<1>2. ASSUME NEW v \in 1..n
      PROVE  /\ RunIn(E \cup {n}, v) \in E \cup {n} /\ v <= RunIn(E \cup {n}, v)
             /\ \A e \in E \cup {n} : v <= e => RunIn(E \cup {n}, v) <= e
  <2> DEFINE S == {e \in E \cup {n} : v <= e}
  <2>1. S \in SUBSET Nat /\ n \in S
    <3>1. v <= n
      OBVIOUS
    <3> QED
      BY <1>1, <3>1
  <2> HIDE DEF S
  <2>2. FirstOf(S) \in S /\ \A e \in S : FirstOf(S) <= e
    BY <2>1, FirstOfIs
  <2> QED
    BY <2>2 DEF S, RunIn
<1>3. ASSUME NEW v \in 1..p PROVE RunIn(E \cup {n}, v) = RunIn(E, v) /\ RunIn(E, v) \in E
  <2> DEFINE S == {e \in E : v <= e}
             a == RunIn(E, v)
             c == RunIn(E \cup {n}, v)
  <2>1. v \in 1..n /\ v <= p /\ p \in E
    OBVIOUS
  <2>2. S \in SUBSET Nat /\ p \in S
    BY <1>1, <2>1
  <2> HIDE DEF S
  <2>3. FirstOf(S) \in S /\ \A e \in S : FirstOf(S) <= e
    BY <2>2, FirstOfIs
  <2>4. a \in E /\ v <= a /\ \A e \in E : v <= e => a <= e
    BY <2>3 DEF S, RunIn
  <2>5. c \in E \cup {n} /\ v <= c /\ \A e \in E \cup {n} : v <= e => c <= e
    BY <1>2, <2>1
  <2> HIDE DEF a, c
  <2>6. c <= a /\ a < n
    BY <1>1, <2>4, <2>5
  <2>7. c \in E
    BY <1>1, <2>4, <2>5, <2>6
  <2>8. a <= c /\ a \in Nat /\ c \in Nat
    BY <1>1, <2>4, <2>5, <2>7
  <2>9. a = c
    BY <2>6, <2>8
  <2> QED
    BY <2>4, <2>9 DEF a, c
<1>4. ASSUME NEW v \in p + 1 .. n PROVE RunIn(E \cup {n}, v) = n
  <2>1. v \in 1..n /\ \A e \in E : ~(v <= e)
    BY <1>1
  <2> QED
    BY <1>2, <2>1
<1> QED
  BY <1>3, <1>4

(* A run that ends tells at most one fortune, if any came true.            *)
LEMMA FortunesEnd ==
  ASSUME NEW n \in Nat, NEW p \in Nat, p < n, NEW E \in SUBSET (1..p), p \in E \cup {0},
         NEW h, Len(h) = n, NEW g, NEW d, NEW out,
         AllTold(g, h, 1..p, E),
         \A i \in FortunesIn(g) : d[i] = g[i],
         out = <<>> => FortunesIn(d) = FortunesIn(g),
         out # <<>> => \E k : /\ k \notin FortunesIn(g) /\ FortunesIn(d) = FortunesIn(g) \cup {k}
                              /\ d[k] = <<out[1], n>>,
         out = <<>> => \A c \in 1..n : ~Foretold(h, p, c),
         out # <<>> => out[1].commit \in 1..n /\ Foretold(h, p, out[1].commit)
  PROVE  AllTold(d, h, 1..n, E \cup {n})
<1> DEFINE F == E \cup {n}
           T == FortunesIn(g)
           U == FortunesIn(d)
<1>1. /\ \A v \in 1..p : v \in 1..n /\ RunIn(F, v) = RunIn(E, v) /\ RunIn(E, v) \in E
      /\ \A v \in p + 1 .. n : v \in 1..n /\ RunIn(F, v) = n
      /\ \A v \in 1..n : v \in 1..p \/ v \in p + 1 .. n
      /\ \A e \in E : e # n
  <2>1. /\ \A v \in 1..p : v \in 1..n
        /\ \A v \in p + 1 .. n : v \in 1..n
        /\ \A v \in 1..n : v \in 1..p \/ v \in p + 1 .. n
        /\ \A e \in E : e # n
    OBVIOUS
  <2> QED
    BY <2>1, RunInEnds
<1> HIDE DEF F, T, U
<1>2. ASSUME NEW c, NEW e, CameTrue(h, 1..p, E, c, e) PROVE CameTrue(h, 1..n, F, c, e)
  BY <1>1, <1>2 DEF CameTrue
<1>3. ASSUME NEW c \in 1..n, NEW e \in E, CameTrue(h, 1..n, F, c, e)
      PROVE  c \in 1..p /\ CameTrue(h, 1..p, E, c, e)
  <2>1. PICK v \in 1..n : c < v /\ Speaks(h[c], v) /\ RunIn(F, v) = e
    BY <1>3 DEF CameTrue
  <2>2. v \in 1..p
    BY <1>1, <2>1
  <2>3. c \in 1..p
    BY <2>1, <2>2
  <2> QED
    BY <1>1, <2>1, <2>2, <2>3 DEF CameTrue
<1>4. ASSUME NEW c \in 1..n PROVE CameTrue(h, 1..n, F, c, n) <=> Foretold(h, p, c)
  <2>1. ASSUME NEW v \in 1..n, RunIn(F, v) = n PROVE v \in p + 1 .. n
    BY <1>1, <2>1
  <2> QED
    BY <1>1, <2>1 DEF CameTrue, Foretold
<1>5. /\ \A i \in T : /\ g[i][1].commit \in 1..p /\ g[i][2] \in E
                      /\ CameTrue(h, 1..p, E, g[i][1].commit, g[i][2])
      /\ \A i, j \in T : g[i][2] = g[j][2] => i = j
      /\ \A e \in E : (\E c \in 1..p : CameTrue(h, 1..p, E, c, e)) => \E i \in T : g[i][2] = e
  BY DEF AllTold, T
<1>6. /\ T \subseteq U /\ \A i \in T : d[i] = g[i]
      /\ \A i \in U \ T : out # <<>> /\ d[i] = <<out[1], n>>
      /\ \A i, j \in U \ T : i = j
      /\ out # <<>> => U \ T # {}
  BY DEF T, U
<1>7. ASSUME NEW i \in U
      PROVE  d[i][1].commit \in 1..n /\ d[i][2] \in F /\ CameTrue(h, 1..n, F, d[i][1].commit, d[i][2])
  <2>1. CASE i \in T
    BY <1>1, <1>2, <1>5, <1>6, <2>1 DEF F
  <2>2. CASE i \notin T
    <3>1. d[i][1] = out[1] /\ d[i][2] = n /\ out # <<>>
      BY <1>6, <2>2
    <3>2. out[1].commit \in 1..n /\ Foretold(h, p, out[1].commit)
      BY <3>1
    <3> QED
      BY <1>4, <3>1, <3>2 DEF F
  <2> QED
    BY <2>1, <2>2
<1>8. ASSUME NEW i \in U, NEW j \in U, d[i][2] = d[j][2] PROVE i = j
  <2>1. \A k \in U : IF k \in T THEN d[k][2] = g[k][2] /\ d[k][2] \in E ELSE d[k][2] = n
    BY <1>5, <1>6
  <2> QED
    BY <1>1, <1>5, <1>6, <1>8, <2>1
<1>9. ASSUME NEW e \in F, NEW c \in 1..n, CameTrue(h, 1..n, F, c, e)
      PROVE  \E i \in U : d[i][2] = e
  <2>1. CASE e \in E
    BY <1>3, <1>5, <1>6, <1>9, <2>1
  <2>2. CASE e = n
    <3>1. out # <<>>
      BY <1>4, <1>9, <2>2
    <3>2. PICK i \in U \ T : d[i] = <<out[1], n>>
      BY <1>6, <3>1
    <3> QED
      BY <2>2, <3>2
  <2> QED
    BY <2>1, <2>2 DEF F
<1> QED
  BY <1>7, <1>8, <1>9 DEF AllTold, F, U

LEMMA FinalizeCollects ==
  ASSUME TypeOK, Finalize
  PROVE  \E outputs \in Seq(AnyGrant) :
           /\ CollectPending(outputs)
           /\ \A r \in enabled : OfRule(outputs, r) = Finalized(r, memory[r]).out
<1> DEFINE out == [r \in enabled |-> Finalized(r, memory[r]).out]
<1>1. CollectPending(Pushed(out))
  BY DEF Finalize
<1>2. \A r \in enabled : out[r] \in Seq(GrantBy(r)) /\ out[r] = Finalized(r, memory[r]).out
  <2>1. \A r \in enabled : r \in AllRules /\ memory[r] \in Memory(r)
    BY TypeFacts DEF TypeOK
  <2> QED
    BY <2>1, FinalizedType
<1> HIDE DEF out
<1>3. enabled \in Focuses
  BY DEF TypeOK
<1>4. Pushed(out) \in Seq(AnyGrant) /\ \A r \in enabled : OfRule(Pushed(out), r) = out[r]
  BY <1>2, <1>3, PushedByRule
<1> QED
  BY <1>1, <1>2, <1>4

(* No fortune is told but at the end of a run.                             *)
LEMMA AllToldSame ==
  ASSUME NEW g, NEW d, NEW h, NEW e, NEW S, NEW E, AllTold(g, h, S, E),
         FortunesIn(d) = FortunesIn(g), \A i \in FortunesIn(g) : d[i] = g[i],
         \A c \in S : e[c] = h[c]
  PROVE  AllTold(d, e, S, E)
<1>1. ASSUME NEW c \in S, NEW k PROVE CameTrue(e, S, E, c, k) <=> CameTrue(h, S, E, c, k)
  BY DEF CameTrue
<1> QED
  BY <1>1 DEF AllTold

LEMMA RetainsSame ==
  ASSUME NEW x, NEW h, NEW e, NEW S, Retains(x, h, S), \A c \in S : e[c] = h[c]
  PROVE  Retains(x, e, S)
BY DEF Retains

(* What every step but the end of a run leaves alone.                      *)
Quiet ==
  /\ ends' = ends /\ Seen' = Seen /\ cache' = cache
  /\ \A c \in Seen : history'[c] = history[c]
  /\ FortunesIn(granted') = FortunesIn(granted)
  /\ \A i \in FortunesIn(granted) : granted'[i] = granted[i]

LEMMA FortunesWait ==
  ASSUME TypeOK, HeldOnce, 13 \in enabled, [Next]_vars
  PROVE  Finalize \/ Quiet
<1>1. ASSUME NEW f \in Facts[enabled], Push(f) PROVE Quiet
  <2>1. UNCHANGED <<ends, granted, cache>>
    BY <1>1 DEF Push
  <2>2. Seen' = Seen /\ \A c \in Seen : history'[c] = history[c]
    BY <1>1, PushMet DEF Met
  <2> QED
    BY <2>1, <2>2 DEF Quiet
<1>2. ASSUME InitCaches PROVE Quiet
  <2>1. UNCHANGED <<ends, granted, cache, history>>
    BY <1>2 DEF InitCaches
  <2> QED
    BY <1>2, <2>1, InitCachesMet DEF Quiet
<1>3. ASSUME OnCommitStart PROVE Quiet
  <2>1. UNCHANGED <<ends, granted, cache, history>>
    BY <1>3 DEF OnCommitStart
  <2> QED
    BY <1>3, <2>1, OnCommitStartMet DEF Quiet
<1>4. ASSUME NEW o \in todo, OnObservation(o) PROVE Quiet
  <2>1. UNCHANGED <<ends, granted, cache, history>>
    BY <1>4 DEF OnObservation
  <2> QED
    BY <1>4, <2>1, OnObservationMet DEF Quiet
<1>5. ASSUME OnCommitComplete PROVE Quiet
  <2>1. UNCHANGED <<ends, cache, history>>
    BY <1>5 DEF OnCommitComplete
  <2>2. PICK x \in Seq(AnyGrant) :
          /\ CollectPending(x)
          /\ \A r \in enabled : OfRule(x, r)
               = Held(r) \o CommitCompleted(r, memory[r], at, history[at].author)
    BY <1>5, CompleteView
  <2>3. OfRule(x, 13) = <<>>
    <3>1. Held(13) = <<>> /\ CommitCompleted(13, memory[13], at, history[at].author) = <<>>
      BY DEF HeldOnce, Prompt, Stateless, CommitCompleted
    <3> QED
      BY <2>2, <3>1
  <2>4. FortunesTold' = FortunesTold /\ \A i \in FortunesTold : granted'[i] = granted[i]
    BY <2>2, <2>3, FortunesCollected, OneOfProperties
  <2> QED
    BY <1>5, <2>1, <2>4, OnCommitCompleteMet DEF Quiet, FortunesTold, FortunesIn
<1>6. ASSUME UNCHANGED vars PROVE Quiet
  BY <1>6, StutterMet DEF vars, Quiet
<1> QED
  BY <1>1, <1>2, <1>3, <1>4, <1>5, <1>6 DEF Next

LEMMA FortunesFinalize ==
  ASSUME TypeOK, 13 \in enabled, AllTold(granted, history, Seen, ends), FortunesHeard, Finalize
  PROVE  AllTold(granted', history', Seen', ends') /\ Retains(cache'[13], history', Seen')
<1> DEFINE m == memory[13]
           n == Len(history)
           p == processed
           out == FirstFortune(m).out
<1>1. /\ n \in Nat /\ p \in 0..n /\ p \in Nat /\ p < n /\ n <= UsizeMax
      /\ ends \in SUBSET (1..p) /\ p \in ends \cup {0}
  <2>1. n \in Nat /\ p \in 0..n /\ p \in ends \cup {0} /\ \A e \in ends : e <= p
    BY TypeFacts
  <2>2. /\ ends \subseteq 1..n /\ n <= MaxCommits /\ p < n
        /\ MaxCommits \in Nat /\ MaxCommits <= UsizeMax /\ UsizeMax \in Nat
    BY HistoryAssumption, RuleThresholdsAssumption DEF TypeOK, Finalize
  <2> HIDE DEF n, p
  <2> QED
    BY <2>1, <2>2
<1>2. /\ history' = history /\ ends' = ends \cup {n} /\ phase = "walk" /\ at = p
      /\ HeardInRun(13) = InRun /\ Len(history)' = n
      /\ Seen = 1..p /\ Seen' = 1..n /\ InRun = p + 1 .. n /\ Started = n - p
  <2>1. /\ history' = history /\ ends' = ends \cup {n} /\ phase = "walk" /\ at = p /\ processed' = n
        /\ HeardInRun(13) = InRun
    BY FinalizeView, RunEnds DEF Finalize
  <2>2. Started = n - p
    BY <1>1, <2>1 DEF Started
  <2> QED
    BY <2>1, <2>2 DEF Seen, InRun
<1>3. m \in FortuneMemory
  BY MemoryIs DEF TypeOK
<1>4. Remembers(m, history, Seen, HeardInRun(13), Started)
  BY <1>2 DEF FortunesHeard
<1>5. Remembers(m, history, 1..p, p + 1 .. n, n - p)
  <2> HIDE DEF m, n, p
  <2> QED
    BY <1>2, <1>4
<1>6. Finds(m, history, p)
  <2> HIDE DEF m, p
  <2> QED
    BY <1>1, <1>3, <1>5, FortuneFinds
<1>7. /\ cache'[13] = Orphans(m) /\ Finalized(13, m).out = out
      /\ out = <<>> \/ out # <<>>
  <2>1. Finalized(13, m) = FirstFortune(m) /\ FirstFortune(m).m = m
    BY DEF Finalized, FirstFortune
  <2>2. memory'[13] = Finalized(13, m).m /\ cache'[13] = FiniCache(13, memory'[13])
    BY FinalizeView
  <2>3. \A x : FiniCache(13, x) = Orphans(x)
    BY DEF FiniCache
  <2> HIDE DEF m
  <2> QED
    BY <2>1, <2>2, <2>3
<1>8. out \in OneOf(13)
  <2>1. out = <<>> \/ \E i \in DOMAIN m.tokens :
                        out = <<GrantOf(13, m.tokens[i].source, m.tokens[i].user, 0)>>
    <3> DEFINE true == {i \in DOMAIN m.tokens : \E k \in DOMAIN m.visited :
                          k <= m.tokens[i].cutoff /\ m.visited[k] = m.tokens[i].names}
    <3>1. true \in SUBSET Nat /\ true \subseteq DOMAIN m.tokens
      BY <1>3, FortuneMemoryIs
    <3>2. out = IF true = {} THEN <<>>
                ELSE <<GrantOf(13, m.tokens[FirstOf(true)].source, m.tokens[FirstOf(true)].user, 0)>>
      BY DEF FirstFortune
    <3> HIDE DEF true, out, m
    <3>3. true # {} => FirstOf(true) \in DOMAIN m.tokens
      BY <3>1, FirstOfIs
    <3> QED
      BY <3>2, <3>3
  <2>2. \A i \in DOMAIN m.tokens : m.tokens[i].source \in Nat /\ m.tokens[i].user \in Users
    BY <1>3, FortuneMemoryIs
  <2>3. \A i \in DOMAIN m.tokens :
          <<GrantOf(13, m.tokens[i].source, m.tokens[i].user, 0)>> \in OneOf(13)
    <3> HIDE DEF m
    <3> QED
      BY <2>2, GrantOfType
  <2> HIDE DEF out, m
  <2> QED
    BY <2>1, <2>3, OneOfProperties
<1> HIDE DEF out
<1>9. PICK x \in Seq(AnyGrant) : CollectPending(x) /\ OfRule(x, 13) = out
  <2> HIDE DEF m
  <2>1. PICK x \in Seq(AnyGrant) : /\ CollectPending(x)
                                   /\ \A r \in enabled : OfRule(x, r) = Finalized(r, memory[r]).out
    BY FinalizeCollects
  <2> QED
    BY <1>7, <2>1 DEF m
<1>10. /\ \A i \in FortunesIn(granted) : granted'[i] = granted[i]
       /\ out = <<>> => FortunesIn(granted') = FortunesIn(granted)
       /\ out # <<>> => \E k : /\ k \notin FortunesIn(granted)
                               /\ FortunesIn(granted') = FortunesIn(granted) \cup {k}
                               /\ granted'[k] = <<out[1], n>>
  BY <1>8, <1>9, FortunesCollected DEF FortunesTold, FortunesIn
<1>11. /\ out = <<>> => \A c \in 1..n : ~Foretold(history, p, c)
       /\ out # <<>> => out[1].commit \in 1..n /\ Foretold(history, p, out[1].commit)
       /\ Retains(Orphans(m), history, 1..n)
  BY <1>6 DEF Finds, out
<1>12. AllTold(granted', history, 1..n, ends \cup {n})
  <2>1. AllTold(granted, history, 1..p, ends)
    BY <1>2
  <2>2. Len(history) = n
    OBVIOUS
  <2> HIDE DEF p, n
  <2> QED
    BY <1>1, <1>10, <1>11, <2>1, <2>2, FortunesEnd
<1> QED
  BY <1>2, <1>7, <1>11, <1>12

LEMMA FortunesStep ==
  ASSUME TypeOK, HeldOnce, Fortunes, [Next]_vars
  PROVE  Fortunes'
<1>1. enabled' = enabled
  BY DEF Next, vars, Push, InitCaches, OnCommitStart, OnObservation, OnCommitComplete, Finalize
<1> SUFFICES ASSUME 13 \in enabled
             PROVE  /\ AllTold(granted', history', Seen', ends')
                    /\ Retains(cache'[13], history', Seen') /\ FortunesHeard'
  BY <1>1 DEF Fortunes
<1>2. /\ AllTold(granted, history, Seen, ends)
      /\ Retains(cache[13], history, Seen) /\ FortunesHeard
  BY DEF Fortunes
<1>3. Finalize \/ Quiet
  BY FortunesWait
<1>4. AllTold(granted', history', Seen', ends') /\ Retains(cache'[13], history', Seen')
  <2>1. ASSUME Quiet
        PROVE  AllTold(granted', history', Seen', ends') /\ Retains(cache'[13], history', Seen')
    <3> HIDE DEF Seen
    <3>1. /\ ends' = ends /\ Seen' = Seen /\ cache' = cache
          /\ \A c \in Seen : history'[c] = history[c]
          /\ FortunesIn(granted') = FortunesIn(granted)
          /\ \A i \in FortunesIn(granted) : granted'[i] = granted[i]
      BY <2>1 DEF Quiet
    <3>2. AllTold(granted', history', Seen, ends) /\ Retains(cache[13], history', Seen)
      BY <1>2, <3>1, AllToldSame, RetainsSame
    <3> QED
      BY <3>1, <3>2
  <2> QED
    BY <1>2, <1>3, <2>1, FortunesFinalize
<1>5. phase' = "idle" => FortunesHeard'
  BY DEF FortunesHeard
<1>6. FortunesHeard'
  <2>1. ASSUME NEW f \in Facts[enabled], Push(f) PROVE phase' = "idle"
    BY <2>1 DEF Push
  <2>2. Finalize => phase' = "idle"
    BY DEF Finalize
  <2>3. ASSUME UNCHANGED vars PROVE FortunesHeard'
    <3>1. Seen' = Seen /\ HeardInRun(13)' = HeardInRun(13)
      BY <2>3, StutterMet, HeardSame DEF vars
    <3>2. Started' = Started /\ UNCHANGED <<phase, memory, history>>
      BY <2>3 DEF vars, Started
    <3> HIDE DEF Seen, HeardInRun, Started
    <3>3. phase' # "idle" => Remembers(memory'[13], history', Seen', HeardInRun(13)', Started')
      BY <1>2, <3>1, <3>2 DEF FortunesHeard
    <3> QED
      BY <3>3 DEF FortunesHeard
  <2> QED
    BY <1>2, <1>5, <2>1, <2>2, <2>3, FortunesHeardStart, FortunesHeardCommit,
       FortunesHeardObservation, FortunesHeardComplete DEF Next
<1> QED
  BY <1>4, <1>6

LEMMA FortunesInit == Init => Fortunes
<1> SUFFICES ASSUME Init, 13 \in enabled
             PROVE  /\ AllTold(granted, history, Seen, ends)
                    /\ Retains(cache[13], history, Seen) /\ FortunesHeard
  BY DEF Fortunes
<1>1. Seen = {} /\ ends = {} /\ granted = <<>> /\ phase = "idle" /\ cache[13] = <<>>
  <2>1. cache[13] = NoCache(13)
    BY DEF Init
  <2> QED
    BY <2>1, NothingYet DEF Init, NoCache
<1> HIDE DEF Seen
<1>2. FortunesIn(<<>>) = {} /\ Spoken(<<>>) = {}
  BY DEF FortunesIn, Spoken
<1>3. AllTold(<<>>, history, {}, {})
  BY <1>2 DEF AllTold
<1>4. Retains(<<>>, history, {})
  BY <1>2 DEF Retains
<1> QED
  BY <1>1, <1>3, <1>4 DEF FortunesHeard

\* A prophecy of commit c is a token that fits and names a later commit that was seen.
LEMMA PropheciesAre ==
  ASSUME TypeOK, NEW c \in Seen
  PROVE  /\ IsFiniteSet(Prophecies(c))
         /\ \A e : CameTrue(history, Seen, ends, c, e)
              <=> \E k \in Prophecies(c) : RunOf(history[c].tokens[k].names) = e
<1> DEFINE t == history[c].tokens
<1>1. t \in Seq([length : Nat, names : Nat])
  BY MetType, TypeFacts DEF Fact
<1> HIDE DEF t
<1>2. IsFiniteSet(DOMAIN t)
  <2>1. DOMAIN t = 1..Len(t) /\ Len(t) \in Nat
    BY <1>1, LenProperties
  <2> QED
    BY <2>1, FS_Interval
<1>3. Prophecies(c) = {k \in DOMAIN t : Fits(t[k]) /\ t[k].names \in Seen /\ t[k].names > c}
  BY DEF Prophecies, Fits, t
<1> HIDE DEF Seen
<1>4. IsFiniteSet(Prophecies(c))
  BY <1>2, <1>3, FS_Subset
<1>5. \A k \in DOMAIN t : t[k].names \in Nat
  <2>1. \A k \in DOMAIN t : t[k] \in [length : Nat, names : Nat]
    BY <1>1, LenProperties, ElementOfSeq
  <2> QED
    BY <2>1
<1>6. c \in Nat
  BY MetType, TypeFacts
<1>7. \A k \in DOMAIN t : c < t[k].names <=> t[k].names > c
  BY <1>5, <1>6
<1>8. \A e, n : RunIn(ends, n) = e <=> RunOf(n) = e
  BY DEF RunIn, RunOf
<1>9. \A e : CameTrue(history, Seen, ends, c, e)
        <=> \E k \in DOMAIN t : /\ Fits(t[k]) /\ t[k].names \in Seen /\ c < t[k].names
                                /\ RunIn(ends, t[k].names) = e
  BY DEF CameTrue, Speaks, t
<1> QED
  BY <1>3, <1>4, <1>7, <1>8, <1>9 DEF t

-----------------------------------------------------------------------------
(***************************************************************************)
(* The theorems.                                                           *)
(***************************************************************************)
Inv ==
  /\ TypeOK /\ HeldOnce /\ BatchInOrder /\ OneShots /\ Firsts /\ Records
  /\ SwearsCounted /\ RootsSettle /\ CopiesSettle /\ Fortunes

LEMMA InvInductive == Spec => []Inv
<1>1. Init => Inv
  <2>1. Init => BatchInOrder
    BY DEF Init, BatchInOrder
  <2> QED
    BY <2>1, TypeInit, HeldOnceInit, OneShotsInit, FirstsInit, RecordsInit,
       SwearsInit, RootsInit, CopiesInit, FortunesInit DEF Inv
<1>2. Inv /\ [Next]_vars => Inv'
  <2> SUFFICES ASSUME Inv, [Next]_vars PROVE Inv'
    OBVIOUS
  <2> QED
    BY TypeStep, HeldOnceStep, BatchInOrderStep, OneShotsStep, FirstsStep, RecordsStep,
       SwearsStep, RootsStep, CopiesStep, FortunesStep DEF Inv
<1> QED
  BY <1>1, <1>2, PTL DEF Spec

\* What a rule keeps, and what it is handed, is what its code reads it as: no cache
\* of another rule, no commit that is not of history, nothing left over for the next
\* commit (rules/rule_plugin.rs, rules/rule_engine.rs).
THEOREM RulesAreTyped == Spec => []TypeOK
<1>1. Inv => TypeOK
  BY DEF Inv
<1> QED
  BY <1>1, InvInductive, PTL

\* Sorted by rule, no rule twice for a commit, and every commit that deserves it once:
\* whatever the rules enabled, the order of observations and the cuts into runs.
THEOREM OneGrantPerCommit == Spec => []OncePerCommitInOrder
<1>1. Inv => OncePerCommitInOrder
  <2> SUFFICES ASSUME Inv PROVE OncePerCommitInOrder
    OBVIOUS
  <2>1. phase = "walk" => \A i, j \in DOMAIN batch : i < j => batch[i].rule < batch[j].rule
    BY DEF Inv, BatchInOrder, Rising
  <2>2. ASSUME Settled, NEW r \in enabled \cap (Stateless \cup {17})
        PROVE  /\ {GrantsOf(r)[i].commit : i \in DOMAIN GrantsOf(r)}
                    = {c \in Seen : Deserves(r, history[c])}
               /\ \A i, j \in DOMAIN GrantsOf(r) : GrantsOf(r)[i] = GrantsOf(r)[j] => i = j
    <3>1. GrantsMatch(r)
      BY DEF Inv, OneShots, OneShotRules
    <3>2. Met = Seen
      BY <2>2, MetType DEF Inv, Settled
    <3> HIDE DEF GrantsOf, Met, Seen
    <3> QED
      BY <3>1, <3>2 DEF GrantsMatch
  <2> QED
    BY <2>1, <2>2 DEF OncePerCommitInOrder
<1> QED
  BY <1>1, InvInductive, PTL

\* The first swearer and the first to add CI are the first in all of history and are
\* found once, however history is cut into runs.
THEOREM FirstsAreFirst == Spec => []FirstsStand
<1>1. Inv => FirstsStand
  <2> SUFFICES ASSUME Inv, Settled, NEW r \in enabled \cap {7, 14}
               PROVE  LET did == {c \in Seen : IF r = 7 THEN history[c].swears > 0
                                               ELSE "CiConfig" \in history[c].kinds}
                      IN  GrantsOf(r) = IF did = {} THEN <<>>
                            ELSE <<GrantOf(r, FirstOf(did), history[FirstOf(did)].author, 0)>>
    BY DEF FirstsStand
  <2> DEFINE did == {c \in Seen : IF r = 7 THEN history[c].swears > 0
                                  ELSE "CiConfig" \in history[c].kinds}
  <2>1. TypeOK /\ FirstsSettled(r)
    BY DEF Inv, Firsts
  <2>2. did = {c \in Seen : Did(r, history[c])}
    BY DEF Did
  <2>3. Seen \subseteq Nat
    BY <2>1, MetType, TypeFacts
  <2> HIDE DEF did, Seen, GrantsOf
  <2>4. CASE Nobody(r, Seen) /\ GrantsOf(r) = <<>>
    BY <2>2, <2>4 DEF Nobody, did
  <2>5. CASE FirstOfAll(r, Seen, cache[r]) /\ GrantsOf(r) = FirstBy(r, cache[r])
    <3>1. cache[r] \in did /\ \A d \in did : cache[r] <= d
      BY <2>2, <2>5 DEF FirstOfAll
    <3>2. did \in SUBSET Nat
      BY <2>2, <2>3
    <3>3. FirstOf(did) \in did /\ \A d \in did : FirstOf(did) <= d
      BY <3>1, <3>2, FirstOfIs
    <3>4. FirstOf(did) = cache[r]
      <4>1. \A a, b \in Nat : a <= b /\ b <= a => a = b
        OBVIOUS
      <4>2. FirstOf(did) <= cache[r] /\ cache[r] <= FirstOf(did)
        BY <3>1, <3>3, Zenon
      <4>3. FirstOf(did) \in Nat /\ cache[r] \in Nat
        BY <3>1, <3>2, <3>3, Zenon
      <4> QED
        BY <4>1, <4>2, <4>3, Zenon
    <3> QED
      BY <2>5, <3>1, <3>4 DEF FirstBy, did
  <2> QED
    BY <2>1, <2>4, <2>5 DEF FirstsSettled
<1> QED
  BY <1>1, InvInductive, PTL

\* The holder of the shortest and of the longest subject holds the record of all
\* history, and a record passes on only when it is broken.
THEOREM RecordsAreHeld == Spec => []RecordsStand
<1>1. Inv => RecordsStand
  <2> SUFFICES ASSUME Inv, Settled, NEW r \in enabled \cap {2, 3}
               PROVE  LET own == GrantsOf(r) IN
                      /\ IF own = <<>> THEN \A c \in Seen : ~IsRecord(r, c)
                         ELSE IsRecord(r, own[Len(own)].commit)
                      /\ \A i, j \in DOMAIN own : i < j =>
                           history[own[i].commit].length # history[own[j].commit].length
    BY DEF RecordsStand
  <2> DEFINE own == GrantsOf(r)
  <2>1. TypeOK /\ Best(r, Seen, cache[r]) /\ Holders(r, own) /\ r \in {2, 3}
    BY DEF Inv, Records, RecordsSettled
  <2>2. \A c \in Seen : LengthOf(c) \in Nat
    BY <2>1, LengthsAre DEF Met
  <2> HIDE DEF own, Seen
  <2>3. /\ \A i \in DOMAIN own : own[i].commit \in Seen
        /\ IF own = <<>> THEN cache[r] = NoLength ELSE LengthOf(own[Len(own)].commit) = cache[r]
        /\ \A i, j \in DOMAIN own :
             i < j => Beats(r, LengthOf(own[j].commit), LengthOf(own[i].commit))
    BY <2>1 DEF Holders
  <2>4. \A c : IsRecord(r, c) <=> /\ Worthy(r, LengthOf(c))
                                 /\ \A d \in Seen : IF r = 2 THEN LengthOf(c) <= LengthOf(d)
                                                    ELSE LengthOf(c) >= LengthOf(d)
    BY DEF IsRecord, Worthy, LengthOf
  <2>5. CASE own = <<>>
    <3>1. \A c \in Seen : ~Worthy(r, LengthOf(c))
      BY <2>1, <2>3, <2>5 DEF Best, NoLength
    <3> QED
      BY <2>4, <2>5, <3>1 DEF own
  <2>6. CASE own # <<>>
    <3> DEFINE c == own[Len(own)].commit
    <3>1. c \in Seen
      <4>1. own \in Seq(GrantBy(r))
        BY <2>1, GrantsType DEF own
      <4>2. Len(own) \in DOMAIN own
        <5>1. Len(own) \in Nat /\ DOMAIN own = 1..Len(own)
          BY <4>1, LenProperties
        <5>2. Len(own) # 0
          BY <2>6, <4>1, EmptySeq
        <5> QED
          BY <5>1, <5>2
      <4> QED
        BY <2>3, <4>2
    <3>2. LengthOf(c) \in Nat /\ LengthOf(c) = cache[r]
      BY <2>2, <2>3, <2>6, <3>1
    <3> HIDE DEF c
    <3>3. Worthy(r, LengthOf(c)) /\ \A d \in Seen : ~Beats(r, LengthOf(d), LengthOf(c))
      BY <2>1, <3>2 DEF Best, NoLength
    <3>4. \A d \in Seen : IF r = 2 THEN LengthOf(c) <= LengthOf(d)
                          ELSE LengthOf(c) >= LengthOf(d)
      BY <2>2, <3>2, <3>3 DEF Beats
    <3>5. IsRecord(r, c)
      BY <2>4, <3>3, <3>4
    <3>6. ASSUME NEW i \in DOMAIN own, NEW j \in DOMAIN own, i < j
          PROVE  LengthOf(own[i].commit) # LengthOf(own[j].commit)
      <4>1. /\ LengthOf(own[i].commit) \in Nat /\ LengthOf(own[j].commit) \in Nat
            /\ Beats(r, LengthOf(own[j].commit), LengthOf(own[i].commit))
        BY <2>2, <2>3, <3>6
      <4> QED
        BY <2>1, <4>1, BeatsOrder
    <3> QED
      BY <2>6, <3>5, <3>6 DEF own, c, LengthOf
  <2> QED
    BY <2>5, <2>6
<1> QED
  BY <1>1, InvInductive, PTL

\* What rules count over many runs is what one run over all of history would count:
\* the milestones of swearing, who swears the most, the roots by age, the copies.
THEOREM CountsCarryOver == Spec => []CountsAddUp
<1>1. Inv => CountsAddUp
  <2> SUFFICES ASSUME Inv, Settled
               PROVE  /\ 9 \in enabled => \A u \in Users : Milestones(GrantsOf(9), u, Swears(u))
                      /\ 10 \in enabled /\ (\E u \in Users : Swears(u) > 0) =>
                           LET own == GrantsOf(10)
                           IN  own # <<>> /\ \A u \in Users : Swears(own[Len(own)].user) >= Swears(u)
                      /\ 18 \in enabled =>
                           Said(GrantsOf(18)) =
                             {<<c, Cardinality({d \in Roots : d <= c})>> :
                                c \in {d \in Roots : \E first \in Roots : first < d}}
                      /\ 19 \in enabled =>
                           Said(GrantsOf(19)) =
                             {<<c, CopiesUpTo(c)>> :
                                c \in {d \in Seen : Copied(d) /\ CopiesUpTo(d) \in CopyThresholds}}
    BY DEF CountsAddUp
  <2>1. /\ 9 \in enabled => \A u \in Users : Milestones(GrantsOf(9), u, Swears(u))
        /\ 10 \in enabled /\ (\E u \in Users : Swears(u) > 0) =>
             LET own == GrantsOf(10)
             IN  own # <<>> /\ \A u \in Users : Swears(own[Len(own)].user) >= Swears(u)
    BY SwearsAddUp DEF Inv
  <2>2. 18 \in enabled =>
          Said(GrantsOf(18)) =
            {<<c, Cardinality({d \in Roots : d <= c})>> :
               c \in {d \in Roots : \E first \in Roots : first < d}}
    <3>1. RootsIn(Seen) = Roots
      BY DEF RootsIn, Roots
    <3> HIDE DEF GrantsOf, Roots, Said
    <3> QED
      BY <3>1 DEF Inv, RootsSettle, RootsSettled, Numbered, RankIn
  <2>3. 19 \in enabled =>
          Said(GrantsOf(19)) =
            {<<c, CopiesUpTo(c)>> :
               c \in {d \in Seen : Copied(d) /\ CopiesUpTo(d) \in CopyThresholds}}
    <3> HIDE DEF GrantsOf, Seen, Said, Copied, CopiesUpTo
    <3> QED
      BY DEF Inv, CopiesSettle, CopiesSettled, Milestone
  <2> QED
    BY <2>1, <2>2, <2>3
<1> QED
  BY <1>1, InvInductive, PTL

\* A fortune told is one that came true, no more often than it did, and a run that made
\* any come true grants exactly once.
THEOREM FortunesAreTold == Spec => []FortunesComeTrue
<1>1. Inv => FortunesComeTrue
  <2> DEFINE F == FortunesTold
             Owned(c) == {j \in FortunesTold : granted[j][1].commit = c}
             Earned(e) == {i \in FortunesTold : granted[i][2] = e}
             run(c, k) == RunOf(history[c].tokens[k].names)
  <2> SUFFICES ASSUME Inv, 13 \in enabled
               PROVE  /\ \A i \in F : Cardinality(Owned(granted[i][1].commit))
                                        <= Cardinality(Prophecies(granted[i][1].commit))
                      /\ \A e \in ends : Cardinality(Earned(e)) =
                           IF \E c \in Seen : \E k \in Prophecies(c) : run(c, k) = e
                           THEN 1 ELSE 0
    BY DEF FortunesComeTrue
  <2>1. TypeOK /\ AllTold(granted, history, Seen, ends) /\ F = FortunesIn(granted)
    BY DEF Inv, Fortunes, FortunesTold, FortunesIn
  <2>2. \A c \in Seen : /\ IsFiniteSet(Prophecies(c))
                        /\ \A e : CameTrue(history, Seen, ends, c, e)
                             <=> \E k \in Prophecies(c) : run(c, k) = e
    BY <2>1, PropheciesAre
  <2> HIDE DEF F, Seen, run
  <2>3. ASSUME NEW i \in F
        PROVE  Cardinality(Owned(granted[i][1].commit))
                 <= Cardinality(Prophecies(granted[i][1].commit))
    <3> DEFINE c == granted[i][1].commit
               B == Owned(c)
               P == Prophecies(c)
               f == [j \in B |-> CHOOSE k \in P : run(c, k) = granted[j][2]]
    <3>1. c \in Seen /\ IsFiniteSet(P)
      BY <2>1, <2>2 DEF AllTold
    <3>2. \A j \in B : j \in F /\ granted[j][1].commit = c
      BY DEF F
    <3> HIDE DEF B, P, c
    <3>3. \A j \in B : \E k \in P : run(c, k) = granted[j][2]
      <4>1. \A j \in B : CameTrue(history, Seen, ends, c, granted[j][2])
        BY <2>1, <3>2 DEF AllTold
      <4> QED
        BY <2>2, <3>1, <4>1 DEF P
    <3>4. \A j \in B : f[j] \in P /\ run(c, f[j]) = granted[j][2]
      BY <3>3
    <3>5. \A j, k \in B : granted[j][2] = granted[k][2] => j = k
      BY <2>1, <3>2 DEF AllTold
    <3>6. f \in Injection(B, P)
      <4>1. f \in [B -> P]
        BY <3>4
      <4>2. \A j, k \in B : f[j] = f[k] => j = k
        BY <3>4, <3>5
      <4> HIDE DEF f
      <4> QED
        BY <4>1, <4>2 DEF Injection, IsInjective
    <3> HIDE DEF f
    <3>7. Cardinality(B) <= Cardinality(P)
      BY <3>1, <3>6, FS_Injection
    <3> QED
      BY <3>7 DEF B, P, c
  <2>4. ASSUME NEW e \in ends
        PROVE  Cardinality(Earned(e)) =
                 IF \E c \in Seen : \E k \in Prophecies(c) : run(c, k) = e THEN 1 ELSE 0
    <3> DEFINE I == Earned(e)
    <3>1. \A j : j \in I <=> j \in F /\ granted[j][2] = e
      BY DEF F
    <3> HIDE DEF I
    <3>2. CASE \E c \in Seen : \E k \in Prophecies(c) : run(c, k) = e
      <4>1. \E c \in Seen : CameTrue(history, Seen, ends, c, e)
        BY <2>2, <3>2
      <4>2. PICK i \in F : granted[i][2] = e
        BY <2>1, <4>1 DEF AllTold
      <4>3. \A j \in I : j = i
        BY <2>1, <3>1, <4>2 DEF AllTold
      <4>4. I = {i}
        BY <3>1, <4>2, <4>3
      <4>5. Cardinality(I) = 1
        BY <4>4, FS_Singleton
      <4> QED
        BY <3>2, <4>5 DEF I
    <3>3. CASE ~\E c \in Seen : \E k \in Prophecies(c) : run(c, k) = e
      <4>1. ASSUME NEW j \in I PROVE FALSE
        <5>1. granted[j][1].commit \in Seen /\ CameTrue(history, Seen, ends, granted[j][1].commit, e)
          BY <2>1, <3>1, <4>1 DEF AllTold
        <5> QED
          BY <2>2, <3>3, <5>1
      <4>2. I = {}
        BY <4>1
      <4>3. Cardinality(I) = 0
        BY <4>2, FS_EmptySet
      <4> QED
        BY <3>3, <4>3 DEF I
    <3> QED
      BY <3>2, <3>3
  <2> QED
    BY <2>3, <2>4
<1> QED
  BY <1>1, InvInductive, PTL
=============================================================================
