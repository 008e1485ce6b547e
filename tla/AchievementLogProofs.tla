--------------------------- MODULE AchievementLogProofs ---------------------------
(***************************************************************************)
(* Theorems about AchievementLog, for every set of achievements, users and *)
(* requests.                                                               *)
(***************************************************************************)
EXTENDS AchievementLog, AchievementEventsProofs

\* Every file and every log is a sequence of events, whatever was interrupted:
\* Load refuses a file that is anything else.
THEOREM TypeCorrect == Spec => []TypeOK
<1>1. Init => TypeOK
  BY EmptySeq, BoundAssumption DEF Init, TypeOK
<1>2. TypeOK /\ [Next]_vars => TypeOK'
  <2> SUFFICES ASSUME TypeOK, [Next]_vars PROVE TypeOK'
    OBVIOUS
  <2>1. << >> \in Seq(Event)
    BY EmptySeq
  <2>2. CASE Load
    BY <2>2 DEF Load, TypeOK
  <2>3. ASSUME NEW ask \in Asks, GrantTo(ask[1], ask[2])
        PROVE  TypeOK'
    <3>1. ask[1] \in AllAchievements /\ ask[2] \in Grant
      BY AskAssumption DEF AllAchievements
    <3>2. QED
      BY <2>3, <3>1, ResolveTyped DEF GrantTo, TypeOK
  <2>4. CASE EvaluateMeta
    <3>1. FarmerGrants(log) \subseteq Grant /\ Farmer \in AllAchievements
      BY DEF FarmerGrants, AllAchievements, MetaAchievements
    <3>2. QED
      BY <2>4, <3>1, ResolveTyped DEF EvaluateMeta, TypeOK
  <2>5. CASE Save
    BY <2>1, <2>5 DEF Save, TypeOK
  <2>6. CASE SaveCutShort
    <3>1. CutShort(log) \subseteq Seq(Event) \cup {Unreadable}
      BY CutShortTyped DEF TypeOK
    <3>2. QED
      BY <2>1, <2>6, <3>1, BoundAssumption DEF SaveCutShort, Dies, TypeOK
  <2>7. CASE Abandon
    BY <2>1, <2>7, BoundAssumption DEF Abandon, Dies, TypeOK
  <2>8. ASSUME NEW as, Prune(as) \/ PruneCutShort(as)
        PROVE  TypeOK'
    <3>1. file \in Seq(Event)
      BY <2>8 DEF Prune, PruneCutShort, TypeOK
    <3>2. Pruned(file, as) \in Seq(Event)
      BY <3>1, PrunedProperties
    <3>3. CutShort(Pruned(file, as)) \subseteq Seq(Event) \cup {Unreadable}
      BY <3>2, CutShortTyped
    <3>4. QED
      <4>1. file' \in Seq(Event) \cup {Unreadable} /\ UNCHANGED << log, phase >>
        BY <2>8, <3>2, <3>3 DEF Prune, PruneCutShort
      <4>2. deaths' \in 0..MaxDeaths
        <5>1. deaths' = deaths \/ (deaths < MaxDeaths /\ deaths' = deaths + 1)
          BY <2>8 DEF Prune, PruneCutShort, Dies
        <5> QED
          BY <5>1, BoundAssumption DEF TypeOK
      <4> QED
        BY <4>1, <4>2 DEF TypeOK
  <2>9. CASE Discard
    BY <2>1, <2>9 DEF Discard, TypeOK
  <2>10. CASE UNCHANGED vars
    BY <2>10 DEF vars, TypeOK
  <2>11. QED
    BY <2>2, <2>3, <2>4, <2>5, <2>6, <2>7, <2>8, <2>9, <2>10 DEF Next
<1>3. QED
  BY <1>1, <1>2, PTL DEF Spec

\* Between two grants of a global achievement there is a revocation of the
\* first, in memory and on disk, through every save, pruning, interrupted write
\* and lost run.
THEOREM AlternatesAlways == Spec => []RevokedBeforeRegrant
<1>1. Alternates(<< >>)
  BY DEF Alternates
<1>2. Init => RevokedBeforeRegrant
  BY <1>1 DEF Init, RevokedBeforeRegrant
<1>3. TypeOK /\ RevokedBeforeRegrant /\ [Next]_vars => RevokedBeforeRegrant'
  <2> SUFFICES ASSUME TypeOK, RevokedBeforeRegrant, [Next]_vars
               PROVE  RevokedBeforeRegrant'
    OBVIOUS
  <2>1. /\ log \in Seq(Event) /\ Alternates(log)
        /\ file # Unreadable => file \in Seq(Event) /\ Alternates(file)
    BY DEF TypeOK, RevokedBeforeRegrant
  <2>2. CASE Load
    BY <2>1, <2>2 DEF Load, RevokedBeforeRegrant
  <2>3. ASSUME NEW ask \in Asks, GrantTo(ask[1], ask[2])
        PROVE  RevokedBeforeRegrant'
    <3>1. ask[1] \in AllAchievements /\ ask[2] \in Grant
      BY AskAssumption DEF AllAchievements
    <3>2. QED
      BY <2>1, <2>3, <3>1, ResolveAlternates DEF GrantTo, RevokedBeforeRegrant
  <2>4. CASE EvaluateMeta
    <3>1. FarmerGrants(log) \subseteq Grant /\ Farmer \in AllAchievements
      BY DEF FarmerGrants, AllAchievements, MetaAchievements
    <3>2. QED
      BY <2>1, <2>4, <3>1, ResolveAlternates DEF EvaluateMeta, RevokedBeforeRegrant
  <2>5. CASE Save
    BY <1>1, <2>1, <2>5 DEF Save, RevokedBeforeRegrant
  <2>6. CASE SaveCutShort
    <3>1. \A f \in CutShort(log) : f # Unreadable => Alternates(f)
      BY <2>1, CutShortAlternates
    <3>2. QED
      BY <1>1, <2>6, <3>1 DEF SaveCutShort, RevokedBeforeRegrant
  <2>7. CASE Abandon
    BY <1>1, <2>1, <2>7 DEF Abandon, RevokedBeforeRegrant
  <2>8. ASSUME NEW as, Prune(as) \/ PruneCutShort(as)
        PROVE  RevokedBeforeRegrant'
    <3>1. file \in Seq(Event) /\ Alternates(file)
      BY <2>1, <2>8 DEF Prune, PruneCutShort
    <3>2. Pruned(file, as) \in Seq(Event) /\ Alternates(Pruned(file, as))
      BY <3>1, PrunedProperties, PruneAlternates
    <3>3. \A f \in CutShort(Pruned(file, as)) : f # Unreadable => Alternates(f)
      BY <3>2, CutShortAlternates
    <3>4. QED
      BY <2>1, <2>8, <3>2, <3>3 DEF Prune, PruneCutShort, RevokedBeforeRegrant
  <2>9. CASE Discard
    BY <1>1, <2>1, <2>9 DEF Discard, RevokedBeforeRegrant
  <2>10. CASE UNCHANGED vars
    BY <2>10 DEF vars, RevokedBeforeRegrant
  <2>11. QED
    BY <2>2, <2>3, <2>4, <2>5, <2>6, <2>7, <2>8, <2>9, <2>10 DEF Next
<1>4. QED
  BY <1>2, <1>3, TypeCorrect, PTL DEF Spec

\* At most one user holds a global achievement, and current_holder and
\* active_grants agree on who it is, in every log that is ever open or loadable.
THEOREM SingleHolderAlways == Spec => []OneActiveHolder
<1>1. TypeOK /\ RevokedBeforeRegrant => OneActiveHolder
  BY AlternatesSingleHolder DEF TypeOK, RevokedBeforeRegrant, OneActiveHolder
<1>2. QED
  BY <1>1, TypeCorrect, AlternatesAlways, PTL
-----------------------------------------------------------------------------
(***************************************************************************)
(* The rows of a log: revocations take back the grant that was active, and *)
(* what may be granted once is granted once.  Both are consequences of one *)
(* invariant on logs, Orderly, which every prefix of a log has and which   *)
(* pruning whole achievements keeps.                                       *)
(***************************************************************************)

\* Only a revocable achievement is ever taken back, so that a grant of any
\* other kind is found by every later scan.
RevocableOnly(l) ==
  \A i \in DOMAIN l : l[i].event = "revoke" => Kind(l[i].ach) = "GlobalRevocable"

\* Two grants that may not both be there.
Repeats(d, e) ==
  /\ d.event = "grant" /\ e.event = "grant" /\ d.ach = e.ach
  /\ Kind(d.ach) = "Global" \/ (Kind(d.ach) = "PerUser" /\ d.user = e.user)

Once(l) == \A i, j \in DOMAIN l : i < j => ~Repeats(l[i], l[j])

Takes(d, e) == d = [e EXCEPT !.event = "grant"]

Matched(l, i) ==
  \E j \in 1..(i - 1) : /\ Takes(l[j], l[i])
                        /\ \A k \in (j + 1)..(i - 1) : l[k].ach # l[i].ach

Orderly(l) ==
  /\ RevocableOnly(l)
  /\ Once(l)
  /\ \A i \in DOMAIN l : l[i].event = "revoke" => Matched(l, i)

-----------------------------------------------------------------------------
(***************************************************************************)
(* What keeps a log orderly.                                               *)
(***************************************************************************)

\* A log made of some rows of an orderly one, in their order and with all
\* rows before a row, of its achievement, that the orderly one has.
LEMMA PartOrderly ==
  ASSUME NEW l \in Seq(Event), Orderly(l), NEW new \in Seq(Event), NEW Old,
         \A k \in DOMAIN new : Old[k] \in DOMAIN l /\ new[k] = l[Old[k]],
         \A k, m \in DOMAIN new : k < m <=> Old[k] < Old[m],
         \A m \in DOMAIN new : \A i \in DOMAIN l :
           i < Old[m] /\ l[i].ach = l[Old[m]].ach => \E k \in DOMAIN new : Old[k] = i
  PROVE  Orderly(new)
<1>1. /\ Len(l) \in Nat /\ DOMAIN l = 1..Len(l)
      /\ Len(new) \in Nat /\ DOMAIN new = 1..Len(new)
  BY LenProperties
<1>2. RevocableOnly(new)
  BY DEF Orderly, RevocableOnly
<1>3. Once(new)
  BY DEF Orderly, Once
<1>4. ASSUME NEW m \in DOMAIN new, new[m].event = "revoke"
      PROVE  Matched(new, m)
  <2>1. Old[m] \in DOMAIN l /\ l[Old[m]].event = "revoke" /\ new[m] = l[Old[m]]
    BY <1>4
  <2>2. PICK j \in 1..(Old[m] - 1) :
               /\ Takes(l[j], l[Old[m]])
               /\ \A k \in (j + 1)..(Old[m] - 1) : l[k].ach # l[Old[m]].ach
    BY <2>1 DEF Orderly, Matched
  <2>3. j \in DOMAIN l /\ j < Old[m]
    BY <1>1, <2>1, <2>2
  <2>4. l[j].ach = l[Old[m]].ach
    <3>1. l[Old[m]] \in Event
      BY <2>1, ElementOfSeq, <1>1
    <3>2. QED
      BY <2>2, <3>1 DEF Takes, Event
  <2>5. PICK k \in DOMAIN new : Old[k] = j
    BY <2>3, <2>4
  <2>6. k < m /\ k \in 1..(m - 1)
    BY <1>1, <2>3, <2>5
  <2>7. ASSUME NEW o \in (k + 1)..(m - 1) PROVE new[o].ach # new[m].ach
    <3>1. o \in DOMAIN new /\ k < o /\ o < m
      BY <1>1, <2>6
    <3>2. Old[o] \in DOMAIN l /\ j < Old[o] /\ Old[o] < Old[m]
      BY <2>5, <3>1
    <3>3. Old[o] \in (j + 1)..(Old[m] - 1)
      BY <1>1, <2>1, <2>3, <3>2
    <3>4. QED
      BY <2>1, <2>2, <3>1, <3>3
  <2>8. Takes(new[k], new[m])
    BY <2>1, <2>2, <2>5
  <2> QED
    BY <2>6, <2>7, <2>8 DEF Matched
<1> QED
  BY <1>2, <1>3, <1>4 DEF Orderly

LEMMA PrefixOrderly ==
  ASSUME NEW l \in Seq(Event), Orderly(l), NEW n \in 0..Len(l)
  PROVE  Orderly(SubSeq(l, 1, n))
<1> DEFINE new == SubSeq(l, 1, n)
           Old == [k \in 1..n |-> k]
<1>1. Len(l) \in Nat /\ DOMAIN l = 1..Len(l) /\ n \in Nat
  BY LenProperties
<1>2. new \in Seq(Event) /\ DOMAIN new = 1..n /\ \A i \in 1..n : new[i] = l[i]
  BY <1>1, SubSeqProperties, LenProperties
<1> HIDE DEF new
<1>3. /\ \A k \in DOMAIN new : Old[k] \in DOMAIN l /\ new[k] = l[Old[k]]
      /\ \A k, m \in DOMAIN new : k < m <=> Old[k] < Old[m]
      /\ \A m \in DOMAIN new : \A i \in DOMAIN l :
           i < Old[m] /\ l[i].ach = l[Old[m]].ach => \E k \in DOMAIN new : Old[k] = i
  BY <1>1, <1>2
<1> HIDE DEF Old
<1>4. new \in Seq(Event)
  BY <1>2
<1>5. Orderly(new)
  BY <1>3, <1>4, PartOrderly
<1> QED
  BY <1>5 DEF new

\* Pruning takes all the rows of an achievement or none.
LEMMA PruneOrderly ==
  ASSUME NEW l \in Seq(Event), Orderly(l), NEW as
  PROVE  Orderly(Pruned(l, as))
<1> DEFINE kept == KeptRows(l, as)
           new  == Pruned(l, as)
           Old  == [k \in DOMAIN new |-> NthOf(kept, k)]
<1>1. /\ new \in Seq(Event)
      /\ \A k \in DOMAIN new : NthOf(kept, k) \in kept /\ new[k] = l[NthOf(kept, k)]
      /\ \A i \in kept : \E k \in DOMAIN new : NthOf(kept, k) = i
      /\ \A k, m \in DOMAIN new : k < m <=> NthOf(kept, k) < NthOf(kept, m)
  <2>1. /\ Pruned(l, as) \in Seq(Event)
        /\ \A k \in DOMAIN Pruned(l, as) :
             /\ NthOf(KeptRows(l, as), k) \in KeptRows(l, as)
             /\ Pruned(l, as)[k] = l[NthOf(KeptRows(l, as), k)]
        /\ \A i \in KeptRows(l, as) :
             \E k \in DOMAIN Pruned(l, as) : NthOf(KeptRows(l, as), k) = i
        /\ \A k, m \in DOMAIN Pruned(l, as) :
             k < m <=> NthOf(KeptRows(l, as), k) < NthOf(KeptRows(l, as), m)
        /\ DOMAIN Pruned(l, as) = 1..Len(Pruned(l, as))
    BY PrunedProperties, ZenonT(60)
  <2> QED
    BY <2>1
<1>2. /\ kept \in SUBSET DOMAIN l
      /\ \A i \in DOMAIN l, j \in kept : l[i].ach = l[j].ach => i \in kept
  BY DEF KeptRows
<1> HIDE DEF kept, new
<1>3. \A k \in DOMAIN new : Old[k] = NthOf(kept, k)
  OBVIOUS
<1> HIDE DEF Old
<1>4. /\ \A k \in DOMAIN new : Old[k] \in DOMAIN l /\ new[k] = l[Old[k]]
      /\ \A k, m \in DOMAIN new : k < m <=> Old[k] < Old[m]
  BY <1>1, <1>2, <1>3
<1>5. ASSUME NEW m \in DOMAIN new, NEW i \in DOMAIN l, l[i].ach = l[Old[m]].ach
      PROVE  \E k \in DOMAIN new : Old[k] = i
  <2>1. i \in kept
    BY <1>1, <1>2, <1>3, <1>5
  <2> QED
    BY <1>1, <1>3, <2>1
<1>6. Orderly(new)
  BY <1>1, <1>4, <1>5, PartOrderly, SMTT(40)
<1> QED
  BY <1>6 DEF new

LEMMA CutShortOrderly ==
  ASSUME NEW l \in Seq(Event), Orderly(l), NEW f \in CutShort(l)
  PROVE  f # Unreadable => Orderly(f)
BY PrefixOrderly DEF CutShort

\* A row that is no revocation and repeats none keeps a log orderly.
LEMMA AppendOrderly ==
  ASSUME NEW l \in Seq(Event), Orderly(l), NEW e \in Event,
         e.event = "revoke" => /\ Kind(e.ach) = "GlobalRevocable"
                               /\ \E j \in DOMAIN l :
                                    /\ Takes(l[j], e)
                                    /\ \A k \in DOMAIN l : k > j => l[k].ach # e.ach,
         \A i \in DOMAIN l : ~Repeats(l[i], e)
  PROVE  Orderly(l \o << e >>)
<1> DEFINE n   == Len(l)
           new == l \o << e >>
<1>1. /\ n \in Nat /\ DOMAIN l = 1..n /\ DOMAIN new = 1..(n + 1)
      /\ \A i \in 1..n : new[i] = l[i]
      /\ new[n + 1] = e
  BY ExtendByOne
<1> HIDE DEF new, n
<1>2. RevocableOnly(new)
  BY <1>1 DEF Orderly, RevocableOnly
<1>3. Once(new)
  <2> SUFFICES ASSUME NEW i \in 1..(n + 1), NEW j \in 1..(n + 1), i < j
               PROVE  ~Repeats(new[i], new[j])
    BY <1>1 DEF Once
  <2>1. i \in 1..n
    BY <1>1
  <2>2. CASE j = n + 1
    BY <1>1, <2>1, <2>2
  <2>3. CASE j \in 1..n
    BY <1>1, <2>1, <2>3 DEF Orderly, Once
  <2> QED
    BY <1>1, <2>2, <2>3
<1>4. ASSUME NEW i \in 1..(n + 1), new[i].event = "revoke"
      PROVE  Matched(new, i)
  <2>1. CASE i = n + 1
    <3>1. PICK j \in 1..n : /\ Takes(l[j], e)
                            /\ \A k \in DOMAIN l : k > j => l[k].ach # e.ach
      BY <1>1, <1>4, <2>1
    <3>2. \A k \in (j + 1)..n : new[k].ach # new[i].ach
      BY <1>1, <2>1, <3>1
    <3>3. j \in 1..(i - 1) /\ Takes(new[j], new[i]) /\ i - 1 = n
      BY <1>1, <2>1, <3>1
    <3> QED
      BY <3>2, <3>3 DEF Matched
  <2>2. CASE i \in 1..n
    <3>1. PICK j \in 1..(i - 1) : /\ Takes(l[j], l[i])
                                  /\ \A k \in (j + 1)..(i - 1) : l[k].ach # l[i].ach
      BY <1>1, <1>4, <2>2 DEF Orderly, Matched
    <3>2. \A k \in 1..(i - 1) : new[k] = l[k]
      BY <1>1, <2>2
    <3>3. \A k \in (j + 1)..(i - 1) : k \in 1..(i - 1)
      BY <1>1, <2>2, <3>1
    <3> QED
      BY <1>1, <2>2, <3>1, <3>2, <3>3 DEF Matched
  <2> QED
    BY <1>1, <2>1, <2>2
<1>5. Orderly(new)
  BY <1>1, <1>2, <1>3, <1>4 DEF Orderly
<1> QED
  BY <1>5 DEF new

\* A grant that resolve does not suppress repeats no other: what was once
\* granted and cannot be taken back is found by is_granted_to and by
\* current_holder.
LEMMA UnsuppressedIsNew ==
  ASSUME NEW l \in Seq(Event), Orderly(l), NEW a \in AllAchievements, NEW g \in Grant,
         ~Suppressed(l, a, g), NEW i \in DOMAIN l
  PROVE  ~Repeats(l[i], GrantEvent(a, g))
<1> SUFFICES ASSUME Repeats(l[i], GrantEvent(a, g)) PROVE FALSE
  OBVIOUS
<1>1. /\ IsGrant(l[i], a)
      /\ Kind(a) = "Global" \/ (Kind(a) = "PerUser" /\ l[i].user = g.user)
  BY DEF Repeats, GrantEvent, IsGrant
<1>2. \A j \in DOMAIN l : ~IsRevoke(l[j], a)
  BY <1>1 DEF Orderly, RevocableOnly, IsRevoke
<1>3. CASE Kind(a) = "PerUser"
  BY <1>1, <1>2, <1>3 DEF Suppressed, IsGrantedTo, IsFor, IsGrant, NotRevokedAfter
<1>4. CASE Kind(a) = "Global"
  <2>1. \A j \in DOMAIN l : IsGrant(l[j], a) => j = i
    <3>1. Len(l) \in Nat /\ DOMAIN l = 1..Len(l)
      BY LenProperties
    <3> QED
      BY <1>1, <1>4, <3>1 DEF Orderly, Once, Repeats, IsGrant
  <2>2. IsHolder(l, a, i)
    BY <1>1, <1>2, <2>1 DEF IsHolder, NotRevokedAfter, IsGrant
  <2> QED
    BY <1>4, <2>2 DEF Suppressed, HasHolder, Holders
<1> QED
  BY <1>1, <1>3, <1>4

\* The row record_revocation copies is the holder's grant, and no row of
\* its achievement follows it.
LEMMA RevocationTakesHolder ==
  ASSUME NEW l \in Seq(Event), Orderly(l), NEW a \in AllAchievements, HasHolder(l, a)
  PROVE  \E h \in DOMAIN l :
           /\ Takes(l[h], Revocation(l, a, HolderUser(l, a)))
           /\ \A k \in DOMAIN l : k > h => l[k].ach # a
<1> DEFINE u == HolderUser(l, a)
<1>1. /\ Len(l) \in Nat /\ DOMAIN l = 1..Len(l)
      /\ \A i \in DOMAIN l : l[i] \in Event
  BY LenProperties, ElementOfSeq
<1>2. PICK h \in DOMAIN l : IsHolder(l, a, h) /\ l[h].user = u
  BY HolderProperties
<1> HIDE DEF u
<1>3. /\ IsGrant(l[h], a)
      /\ \A j \in DOMAIN l : j > h => ~IsGrant(l[j], a)
      /\ \A j \in DOMAIN l : j > h => ~(IsRevoke(l[j], a) /\ l[j].user = u)
  BY <1>2 DEF IsHolder, NotRevokedAfter, IsGrant
<1>4. LatestGrant(l, a, u) = h
  <2> DEFINE P(i) == /\ IsGrant(l[i], a) /\ l[i].user = u
                     /\ \A j \in DOMAIN l : j > i => ~(IsGrant(l[j], a) /\ l[j].user = u)
  <2>1. P(h)
    BY <1>2, <1>3
  <2>2. \A i \in DOMAIN l : P(i) => i = h
    BY <1>1, <1>2, <1>3
  <2>3. LatestGrant(l, a, u) = CHOOSE i \in DOMAIN l : P(i)
    BY DEF LatestGrant
  <2> QED
    BY <2>1, <2>2, <2>3
<1>5. Takes(l[h], Revocation(l, a, u))
  BY <1>1, <1>2, <1>3, <1>4 DEF Takes, Revocation, IsGrant, Event
<1>6. ASSUME NEW k \in DOMAIN l, k > h, l[k].ach = a PROVE FALSE
  <2>1. l[k].event = "revoke" /\ IsRevoke(l[k], a) /\ l[k].user # u
    BY <1>1, <1>3, <1>6 DEF Event, IsGrant, IsRevoke
  <2>2. PICK j \in 1..(k - 1) : /\ Takes(l[j], l[k])
                                /\ \A o \in (j + 1)..(k - 1) : l[o].ach # l[k].ach
    BY <2>1 DEF Orderly, Matched
  <2>3. j \in DOMAIN l /\ IsGrant(l[j], a) /\ l[j].user = l[k].user
    BY <1>1, <1>6, <2>2 DEF Takes, Event, IsGrant
  <2>4. j # h
    BY <1>2, <2>1, <2>3
  <2>5. ~(j > h)
    BY <1>3, <2>3
  <2>6. h \in (j + 1)..(k - 1)
    BY <1>1, <1>6, <2>3, <2>4, <2>5
  <2> QED
    BY <1>3, <1>6, <2>2, <2>6 DEF IsGrant
<1> QED
  BY <1>5, <1>6 DEF u

LEMMA ResolveOrderly ==
  ASSUME NEW l \in Seq(Event), Orderly(l), NEW a \in AllAchievements, NEW g \in Grant
  PROVE  Orderly(Resolve(l, a, g))
<1> DEFINE e == GrantEvent(a, g)
<1>1. e \in Event /\ e.event = "grant" /\ e.ach = a
  BY DEF GrantEvent, Grant, Event
<1>2. CASE Suppressed(l, a, g)
  <2>1. Resolve(l, a, g) = l \o << >>
    BY <1>2 DEF Resolve, Resolution
  <2> QED
    BY <2>1, ConcatEmptySeq
<1>3. CASE ~Suppressed(l, a, g) /\ ~Supersedes(l, a)
  <2>1. Resolve(l, a, g) = l \o << e >>
    BY <1>3 DEF Resolve, Resolution
  <2>2. \A i \in DOMAIN l : ~Repeats(l[i], e)
    BY <1>3, UnsuppressedIsNew
  <2> HIDE DEF e
  <2> QED
    BY <1>1, <2>1, <2>2, AppendOrderly
<1>4. CASE ~Suppressed(l, a, g) /\ Supersedes(l, a)
  <2> DEFINE d == Revocation(l, a, HolderUser(l, a))
             m == l \o << d >>
  <2>1. Kind(a) = "GlobalRevocable" /\ HasHolder(l, a)
    BY <1>4 DEF Supersedes
  <2>2. d \in Event /\ d.event = "revoke" /\ d.ach = a
    BY <2>1, HolderProperties DEF IsRevoke
  <2>3. \E h \in DOMAIN l : Takes(l[h], d) /\ \A k \in DOMAIN l : k > h => l[k].ach # a
    BY <2>1, RevocationTakesHolder
  <2>4. Resolve(l, a, g) = l \o << d, e >>
    BY <1>4 DEF Resolve, Resolution
  <2> HIDE DEF d, e
  <2>5. \A i \in DOMAIN l : ~Repeats(l[i], d)
    BY <2>2 DEF Repeats
  <2>6. Orderly(m) /\ m \in Seq(Event)
    BY <2>1, <2>2, <2>3, <2>5, AppendOrderly, ExtendByOne
  <2>7. l \o << d, e >> = m \o << e >>
    BY <1>1, <2>2
  <2> HIDE DEF m
  <2>8. \A i \in DOMAIN m : ~Repeats(m[i], e)
    BY <1>1, <2>1 DEF Repeats
  <2> QED
    BY <1>1, <2>4, <2>6, <2>7, <2>8, AppendOrderly
<1> QED
  BY <1>2, <1>3, <1>4

-----------------------------------------------------------------------------
(***************************************************************************)
(* The theorems.                                                           *)
(***************************************************************************)

OrderlyInv == Orderly(log) /\ (file # Unreadable => Orderly(file))

LEMMA OrderlyAlways == Spec => []OrderlyInv
<1>1. Orderly(<< >>)
  BY DEF Orderly, RevocableOnly, Once
<1>2. Init => OrderlyInv
  BY <1>1 DEF Init, OrderlyInv
<1>3. TypeOK /\ OrderlyInv /\ [Next]_vars => OrderlyInv'
  <2> SUFFICES ASSUME TypeOK, OrderlyInv, [Next]_vars PROVE OrderlyInv'
    OBVIOUS
  <2>1. /\ log \in Seq(Event) /\ Orderly(log)
        /\ file # Unreadable => file \in Seq(Event) /\ Orderly(file)
    BY DEF TypeOK, OrderlyInv
  <2>2. CASE Load
    BY <2>1, <2>2 DEF Load, OrderlyInv
  <2>3. ASSUME NEW ask \in Asks, GrantTo(ask[1], ask[2])
        PROVE  OrderlyInv'
    <3>1. ask[1] \in AllAchievements /\ ask[2] \in Grant
      BY AskAssumption DEF AllAchievements
    <3> QED
      BY <2>1, <2>3, <3>1, ResolveOrderly DEF GrantTo, OrderlyInv
  <2>4. CASE EvaluateMeta
    <3>1. FarmerGrants(log) \subseteq Grant /\ Farmer \in AllAchievements
      BY DEF FarmerGrants, AllAchievements, MetaAchievements
    <3> QED
      BY <2>1, <2>4, <3>1, ResolveOrderly DEF EvaluateMeta, OrderlyInv
  <2>5. CASE Save
    BY <1>1, <2>1, <2>5 DEF Save, OrderlyInv
  <2>6. CASE SaveCutShort
    <3>1. \A f \in CutShort(log) : f # Unreadable => Orderly(f)
      BY <2>1, CutShortOrderly
    <3> QED
      BY <1>1, <2>6, <3>1 DEF SaveCutShort, OrderlyInv
  <2>7. CASE Abandon
    BY <1>1, <2>1, <2>7 DEF Abandon, OrderlyInv
  <2>8. ASSUME NEW as, Prune(as) \/ PruneCutShort(as)
        PROVE  OrderlyInv'
    <3>1. file \in Seq(Event) /\ Orderly(file)
      BY <2>1, <2>8 DEF Prune, PruneCutShort
    <3>2. Pruned(file, as) \in Seq(Event) /\ Orderly(Pruned(file, as))
      BY <3>1, PrunedProperties, PruneOrderly
    <3>3. \A f \in CutShort(Pruned(file, as)) : f # Unreadable => Orderly(f)
      BY <3>2, CutShortOrderly
    <3> QED
      BY <2>1, <2>8, <3>2, <3>3 DEF Prune, PruneCutShort, OrderlyInv
  <2>9. CASE Discard
    BY <1>1, <2>1, <2>9 DEF Discard, OrderlyInv
  <2>10. CASE UNCHANGED vars
    BY <2>10 DEF vars, OrderlyInv
  <2> QED
    BY <2>2, <2>3, <2>4, <2>5, <2>6, <2>7, <2>8, <2>9, <2>10 DEF Next
<1> QED
  BY <1>2, <1>3, TypeCorrect, PTL DEF Spec

\* A revocation row takes back the very grant that was active when it was
\* written, whatever was granted, pruned or cut short before: the grant
\* that record_revocation finds is the one current_holder found.
THEOREM RevocationsMatchAlways == Spec => []RevocationsTakeBackTheActiveGrant
<1>1. ASSUME NEW l, Orderly(l) PROVE RevocationsMatch(l)
  BY <1>1 DEF Orderly, Matched, Takes, RevocationsMatch
<1>2. OrderlyInv => RevocationsTakeBackTheActiveGrant
  BY <1>1 DEF OrderlyInv, RevocationsTakeBackTheActiveGrant
<1> QED
  BY <1>2, OrderlyAlways, PTL

\* Nobody earns a per-user achievement twice and a permanent global one is
\* granted once ever, in the log and in every file it leaves.
THEOREM GrantedOnceAlways == Spec => []GrantedOnce
<1>1. TypeOK /\ OrderlyInv => GrantedOnce
  <2> SUFFICES ASSUME TypeOK, OrderlyInv,
                      NEW l \in {log} \cup ({file} \ {Unreadable}),
                      NEW i \in DOMAIN l, NEW j \in DOMAIN l,
                      l[i].event = "grant", l[j].event = "grant", l[i].ach = l[j].ach,
                      \/ Kind(l[i].ach) = "Global"
                      \/ Kind(l[i].ach) = "PerUser" /\ l[i].user = l[j].user
               PROVE  i = j
    BY DEF GrantedOnce
  <2>1. l \in Seq(Event) /\ Orderly(l)
    BY DEF TypeOK, OrderlyInv
  <2>2. Len(l) \in Nat /\ DOMAIN l = 1..Len(l)
    BY <2>1, LenProperties
  <2>3. Repeats(l[i], l[j]) /\ Repeats(l[j], l[i])
    BY DEF Repeats
  <2>4. ~(i < j) /\ ~(j < i)
    BY <2>1, <2>3 DEF Orderly, Once
  <2> QED
    BY <2>2, <2>4
<1> QED
  BY <1>1, TypeCorrect, OrderlyAlways, PTL

-----------------------------------------------------------------------------
(***************************************************************************)
(* The refinement: the log implements AchievementHolders.                  *)
(***************************************************************************)

LEMMA NamesAreAchievements == Abstract!Names = AllAchievements
<1>1. \A a \in AllAchievements : Kind(a) \in Kinds
  BY KindAssumption DEF Kind, Kinds, AllAchievements, MetaAchievements
<1> QED
  BY <1>1 DEF Abstract!Names, Abstract!Permanent, Kinds, GlobalKinds

\* The mapping reads a log through is_granted_to.
LEMMA HoldersOfLog ==
  ASSUME NEW l \in Seq(Event)
  PROVE  /\ HoldersOf(l) = [a \in AllAchievements |-> {u \in Users : IsGrantedTo(l, a, u)}]
         /\ HoldersOf(l) \in Abstract!Holdings
<1>1. \A a : {l[i].user : i \in {k \in ActiveGrants(l) : l[k].ach = a}}
               = {u \in Users : IsGrantedTo(l, a, u)}
  BY ActiveMeansGranted, GrantedToUsers
<1>2. HoldersOf(l) = [a \in AllAchievements |-> {u \in Users : IsGrantedTo(l, a, u)}]
  BY <1>1 DEF HoldersOf
<1> QED
  BY <1>2, NamesAreAchievements DEF Abstract!Holdings

LEMMA HoldersOfEmpty == HoldersOf(<< >>) = Abstract!Nobody
<1>1. ActiveGrants(<< >>) = {}
  BY DEF ActiveGrants
<1> QED
  BY <1>1, NamesAreAchievements DEF HoldersOf, Abstract!Nobody

\* A log with single holders maps to holdings where nobody shares a global
\* achievement.
LEMMA HoldersOfSingle ==
  ASSUME NEW l \in Seq(Event), SingleHolder(l)
  PROVE  Abstract!AtMostOne(HoldersOf(l))
<1>1. ASSUME NEW a \in GlobalOnes, NEW u \in HoldersOf(l)[a], NEW v \in HoldersOf(l)[a]
      PROVE  u = v
  <2>1. a \in AllAchievements
    BY DEF GlobalOnes
  <2>2. IsGrantedTo(l, a, u) /\ IsGrantedTo(l, a, v)
    BY <2>1, HoldersOfLog
  <2> QED
    BY <2>2, HolderIsGranted
<1> QED
  BY <1>1 DEF Abstract!AtMostOne, GlobalOnes, GlobalKinds

\* Resolving a grant awards the achievement, or changes nothing.
LEMMA ResolveAwards ==
  ASSUME NEW l \in Seq(Event), SingleHolder(l), NEW a \in AllAchievements, NEW g \in Grant
  PROVE  LET new == HoldersOf(Resolve(l, a, g))
             old == HoldersOf(l)
         IN  /\ Kind(a) \notin GlobalKinds => new = [old EXCEPT ![a] = @ \cup {g.user}]
             /\ Kind(a) = "Global" =>
                  \/ Resolve(l, a, g) = l
                  \/ old[a] = {} /\ new = [old EXCEPT ![a] = {g.user}]
             /\ Kind(a) = "GlobalRevocable" => new = [old EXCEPT ![a] = {g.user}]
<1> DEFINE r   == Resolve(l, a, g)
           new == HoldersOf(r)
           old == HoldersOf(l)
<1>1. /\ \A b, v : b # a => (IsGrantedTo(r, b, v) <=> IsGrantedTo(l, b, v))
      /\ Kind(a) \notin GlobalKinds =>
           \A v : IsGrantedTo(r, a, v) <=> v = g.user \/ IsGrantedTo(l, a, v)
      /\ Kind(a) = "Global" =>
           IF HasHolder(l, a) THEN r = l
           ELSE \A v : IsGrantedTo(r, a, v) <=> v = g.user
      /\ Kind(a) = "GlobalRevocable" =>
           \A v : IsGrantedTo(r, a, v) <=> v = g.user
  BY ResolveHolders
<1>2. r \in Seq(Event)
  BY ResolveTyped
<1>3. g.user \in Users
  BY DEF Grant
<1>4. Kind(a) = "Global" /\ ~HasHolder(l, a) => \A v : ~IsGrantedTo(l, a, v)
  BY HolderIsGranted DEF GlobalOnes, GlobalKinds
<1> HIDE DEF r
<1>5. /\ new = [b \in AllAchievements |-> {u \in Users : IsGrantedTo(r, b, u)}]
      /\ old = [b \in AllAchievements |-> {u \in Users : IsGrantedTo(l, b, u)}]
  BY <1>2, HoldersOfLog
<1> HIDE DEF new, old
<1>6. \A b \in AllAchievements : b # a => new[b] = old[b]
  BY <1>1, <1>5
<1>7. Kind(a) \notin GlobalKinds => new = [old EXCEPT ![a] = @ \cup {g.user}]
  <2>1. Kind(a) \notin GlobalKinds => new[a] = old[a] \cup {g.user}
    BY <1>1, <1>3, <1>5
  <2> QED
    BY <1>5, <1>6, <2>1
<1>8. Kind(a) = "Global" => r = l \/ (old[a] = {} /\ new = [old EXCEPT ![a] = {g.user}])
  <2>1. Kind(a) = "Global" => r = l \/ (old[a] = {} /\ new[a] = {g.user})
    BY <1>1, <1>3, <1>4, <1>5
  <2> QED
    BY <1>5, <1>6, <2>1
<1>9. Kind(a) = "GlobalRevocable" => new = [old EXCEPT ![a] = {g.user}]
  <2>1. Kind(a) = "GlobalRevocable" => new[a] = {g.user}
    BY <1>1, <1>3, <1>5
  <2> QED
    BY <1>5, <1>6, <2>1
<1> QED
  BY <1>7, <1>8, <1>9 DEF r, new, old

\* Pruning forgets achievements.
LEMMA PruneForgets ==
  ASSUME NEW l \in Seq(Event), NEW as
  PROVE  HoldersOf(Pruned(l, as)) =
           [a \in AllAchievements |->
              IF a \in as \cup MetaAchievements THEN {} ELSE HoldersOf(l)[a]]
<1>1. Pruned(l, as) \in Seq(Event)
  BY PrunedProperties
<1>2. \A b, v : IsGrantedTo(Pruned(l, as), b, v) <=>
                  b \notin as \cup MetaAchievements /\ IsGrantedTo(l, b, v)
  BY PruneHolders
<1>3. /\ HoldersOf(Pruned(l, as)) =
           [b \in AllAchievements |-> {u \in Users : IsGrantedTo(Pruned(l, as), b, u)}]
      /\ HoldersOf(l) = [b \in AllAchievements |-> {u \in Users : IsGrantedTo(l, b, u)}]
  BY <1>1, HoldersOfLog
<1> QED
  BY <1>2, <1>3

\* A prefix of a log has no holder of a permanent achievement that the log does
\* not have: no row takes a permanent achievement back.
LEMMA PrefixHolders ==
  ASSUME NEW l \in Seq(Event), Orderly(l), NEW n \in 0..Len(l),
         NEW a \in AllAchievements, Kind(a) # "GlobalRevocable"
  PROVE  HoldersOf(SubSeq(l, 1, n))[a] \subseteq HoldersOf(l)[a]
<1> DEFINE p == SubSeq(l, 1, n)
<1>1. /\ Len(l) \in Nat /\ DOMAIN l = 1..Len(l)
      /\ p \in Seq(Event) /\ DOMAIN p = 1..n
      /\ \A i \in 1..n : p[i] = l[i]
  BY LenProperties, SubSeqProperties
<1>2. /\ HoldersOf(p) = [b \in AllAchievements |-> {u \in Users : IsGrantedTo(p, b, u)}]
      /\ HoldersOf(l) = [b \in AllAchievements |-> {u \in Users : IsGrantedTo(l, b, u)}]
  BY <1>1, HoldersOfLog
<1>3. ASSUME NEW u \in Users, IsGrantedTo(p, a, u) PROVE IsGrantedTo(l, a, u)
  <2>1. PICK i \in 1..n : IsFor(l[i], a, u) /\ l[i].event = "grant"
    BY <1>1, <1>3 DEF IsGrantedTo
  <2>2. NotRevokedAfter(l, i)
    BY <2>1 DEF NotRevokedAfter, IsRevoke, IsFor, Orderly, RevocableOnly
  <2>3. i \in DOMAIN l
    BY <1>1
  <2> QED
    BY <2>1, <2>2, <2>3 DEF IsGrantedTo
<1> QED
  BY <1>2, <1>3

\* What an interrupted write of a log leaves remains of what was held.
LEMMA CutShortHolders ==
  ASSUME NEW l \in Seq(Event), Alternates(l), Orderly(l), NEW f \in CutShort(l)
  PROVE  HoldersOf(IF f = Unreadable THEN << >> ELSE f) \in Abstract!Remains(HoldersOf(l))
<1> DEFINE left == IF f = Unreadable THEN << >> ELSE f
<1>1. Alternates(<< >>) /\ << >> \in Seq(Event)
  BY EmptySeq DEF Alternates
<1>2. left \in Seq(Event) /\ Alternates(left)
  BY <1>1, CutShortTyped, CutShortAlternates
<1>3. \E n \in 0..Len(l) : left = SubSeq(l, 1, n)
  <2>1. 0 \in 0..Len(l) /\ SubSeq(l, 1, 0) = << >>
    BY LenProperties, SubSeqProperties
  <2> QED
    BY <2>1 DEF CutShort
<1>4. \A a \in AllAchievements :
        Kind(a) # "GlobalRevocable" => HoldersOf(left)[a] \subseteq HoldersOf(l)[a]
  BY <1>3, PrefixHolders
<1> HIDE DEF left
<1>5. SingleHolder(left)
  BY <1>2, AlternatesSingleHolder
<1>6. HoldersOf(left) \in Abstract!Holdings /\ Abstract!AtMostOne(HoldersOf(left))
  BY <1>2, <1>5, HoldersOfLog, HoldersOfSingle
<1>7. \A a \in Abstract!Permanent : a \in AllAchievements /\ Kind(a) # "GlobalRevocable"
  BY DEF Abstract!Permanent, GlobalKinds
<1>8. HoldersOf(left) \in Abstract!Remains(HoldersOf(l))
  BY <1>4, <1>6, <1>7 DEF Abstract!Remains
<1> QED
  BY <1>8 DEF left

\* And of a pruned log it leaves nothing of what the pruning forgets for good.
LEMMA PrunedCutShortHolders ==
  ASSUME NEW l \in Seq(Event), Alternates(l), Orderly(l), NEW as,
         NEW f \in CutShort(Pruned(l, as))
  PROVE  LET left == HoldersOf(IF f = Unreadable THEN << >> ELSE f)
         IN  /\ left \in Abstract!Remains(HoldersOf(l))
             /\ \A a \in MetaAchievements : left[a] = {}
<1> DEFINE p    == Pruned(l, as)
           rows == IF f = Unreadable THEN << >> ELSE f
           left == HoldersOf(rows)
<1>1. p \in Seq(Event) /\ Alternates(p) /\ Orderly(p)
  BY PrunedProperties, PruneAlternates, PruneOrderly
<1>2. left \in Abstract!Remains(HoldersOf(p))
  BY <1>1, CutShortHolders
<1>3. \A a \in AllAchievements : HoldersOf(p)[a] \subseteq HoldersOf(l)[a]
  <2>1. HoldersOf(p) = [a \in AllAchievements |->
                          IF a \in as \cup MetaAchievements THEN {} ELSE HoldersOf(l)[a]]
    BY PruneForgets
  <2> HIDE DEF p
  <2> QED
    BY <2>1
<1>4. Abstract!Permanent \subseteq AllAchievements
  BY DEF Abstract!Permanent
<1>5. left \in Abstract!Remains(HoldersOf(l))
  <2> HIDE DEF left, p
  <2> QED
    BY <1>2, <1>3, <1>4 DEF Abstract!Remains
<1>6. ASSUME NEW a \in MetaAchievements PROVE left[a] = {}
  <2>1. \A i \in DOMAIN p : p[i].ach # a
    <3>1. \A i \in DOMAIN p : /\ NthOf(KeptRows(l, as), i) \in KeptRows(l, as)
                              /\ p[i] = l[NthOf(KeptRows(l, as), i)]
      BY PrunedProperties
    <3>2. \A i \in KeptRows(l, as) : l[i].ach # a
      BY DEF KeptRows
    <3> HIDE DEF p
    <3> QED
      BY <3>1, <3>2
  <2>2. \A i \in DOMAIN rows : i \in DOMAIN p /\ rows[i] = p[i]
    <3> HIDE DEF p
    <3>1. DOMAIN p = 1..Len(p) /\ Len(p) \in Nat
      BY <1>1, LenProperties
    <3>2. CASE rows = << >>
      BY <3>2
    <3>3. CASE f # Unreadable
      <4>1. PICK n \in 0..Len(p) : rows = SubSeq(p, 1, n)
        BY <3>3 DEF CutShort, p
      <4>2. DOMAIN SubSeq(p, 1, n) = 1..n /\ \A i \in 1..n : SubSeq(p, 1, n)[i] = p[i]
        BY <1>1, <3>1, SubSeqProperties
      <4> HIDE DEF rows
      <4> QED
        BY <3>1, <4>1, <4>2
    <3> QED
      BY <3>2, <3>3
  <2> HIDE DEF p, rows
  <2>3. ActiveGrants(rows) \subseteq DOMAIN rows
    BY DEF ActiveGrants
  <2>4. {i \in ActiveGrants(rows) : rows[i].ach = a} = {}
    BY <2>1, <2>2, <2>3
  <2>5. a \in AllAchievements
    BY DEF AllAchievements
  <2> QED
    BY <2>4, <2>5 DEF HoldersOf, left
<1> QED
  BY <1>5, <1>6

\* What the file counts for: one that does not load is as good as none.
FileLog == IF file = Unreadable THEN << >> ELSE file

\* A resolved grant awards the achievement, or is no step of AchievementHolders.
LEMMA ResolveRefines ==
  ASSUME TypeOK, OneActiveHolder, NEW a \in AllAchievements, NEW g \in Grant,
         log' = Resolve(log, a, g), UNCHANGED << file, deaths >>
  PROVE  [Abstract!Next]_(Abstract!vars)
<1> DEFINE live  == HoldersOf(log)
           saved == HoldersOf(FileLog)
<1>1. log \in Seq(Event) /\ SingleHolder(log)
  BY DEF TypeOK, OneActiveHolder
<1>2. /\ Kind(a) \notin GlobalKinds => live' = [live EXCEPT ![a] = @ \cup {g.user}]
      /\ Kind(a) = "Global" =>
           \/ log' = log
           \/ live[a] = {} /\ live' = [live EXCEPT ![a] = {g.user}]
      /\ Kind(a) = "GlobalRevocable" => live' = [live EXCEPT ![a] = {g.user}]
  BY <1>1, ResolveAwards
<1>3. saved' = saved
  BY DEF FileLog
<1>4. log' = log => live' = live
  OBVIOUS
<1>5. a \in Abstract!Names /\ g.user \in Users
  BY NamesAreAchievements DEF Grant
<1> HIDE DEF live, saved
<1>6. CASE Kind(a) \notin GlobalKinds
  <2>1. Abstract!AwardPerUser(a, g.user)
    BY <1>2, <1>3, <1>6 DEF Abstract!AwardPerUser, live, saved, FileLog
  <2> QED
    BY <1>5, <2>1 DEF Abstract!Next
<1>7. CASE Kind(a) = "Global"
  <2>1. \/ UNCHANGED Abstract!vars
        \/ Abstract!AwardFirst(a, g.user)
    BY <1>2, <1>3, <1>4, <1>7 DEF Abstract!AwardFirst, Abstract!vars, live, saved, FileLog
  <2> QED
    BY <1>5, <2>1 DEF Abstract!Next
<1>8. CASE Kind(a) = "GlobalRevocable"
  <2>1. Abstract!Transfer(a, g.user)
    BY <1>2, <1>3, <1>8 DEF Abstract!Transfer, live, saved, FileLog
  <2> QED
    BY <1>5, <2>1 DEF Abstract!Next
<1> QED
  BY <1>6, <1>7, <1>8 DEF GlobalKinds

\* Every run of the log, saved, lost, cut short or pruned, is a run of
\* AchievementHolders: no ordinary grant takes an achievement from anyone who may
\* keep it, a revocable one passes on in one step, what a save makes durable is
\* what was held, and a write that stops part-way brings nobody a permanent one.
THEOREM HoldersImplemented == Spec => ImplementsHolders
<1> DEFINE Inv == TypeOK /\ RevokedBeforeRegrant /\ OneActiveHolder /\ OrderlyInv
<1>1. Init => Abstract!Init
  <2>1. Unreadable # << >>
    BY UnreadableAssumption, EmptySeq
  <2> QED
    BY <2>1, HoldersOfEmpty DEF Init, Abstract!Init
<1>2. Inv /\ [Next]_vars => [Abstract!Next]_(Abstract!vars)
  <2> SUFFICES ASSUME Inv, [Next]_vars PROVE [Abstract!Next]_(Abstract!vars)
    OBVIOUS
  <2>1. /\ log \in Seq(Event) /\ Alternates(log) /\ Orderly(log)
        /\ Unreadable \notin Seq(Event)
        /\ file # Unreadable => file \in Seq(Event) /\ Alternates(file) /\ Orderly(file)
    BY UnreadableAssumption DEF TypeOK, RevokedBeforeRegrant, OrderlyInv
  <2>2. CASE Load
    <3>1. Abstract!Open
      BY <2>2 DEF Load, Abstract!Open
    <3> QED
      BY <3>1 DEF Abstract!Next
  <2>3. ASSUME NEW ask \in Asks, GrantTo(ask[1], ask[2])
        PROVE  [Abstract!Next]_(Abstract!vars)
    <3>1. ask[1] \in AllAchievements /\ ask[2] \in Grant
      BY AskAssumption DEF AllAchievements
    <3>2. log' = Resolve(log, ask[1], ask[2]) /\ UNCHANGED << file, deaths >>
      BY <2>3 DEF GrantTo
    <3> QED
      BY <3>1, <3>2, ResolveRefines
  <2>4. CASE EvaluateMeta
    <3>1. FarmerGrants(log) \subseteq Grant /\ Farmer \in AllAchievements
      BY DEF FarmerGrants, AllAchievements, MetaAchievements
    <3>2. CASE UNCHANGED log
      BY <2>4, <3>2 DEF EvaluateMeta, Abstract!vars
    <3>3. ASSUME NEW g \in FarmerGrants(log), log' = Resolve(log, Farmer, g)
          PROVE  [Abstract!Next]_(Abstract!vars)
      BY <2>4, <3>1, <3>3, ResolveRefines DEF EvaluateMeta
    <3> QED
      BY <2>4, <3>2, <3>3 DEF EvaluateMeta
  <2>5. CASE Save
    <3>1. Abstract!Save
      BY <2>1, <2>5, HoldersOfEmpty DEF Save, Abstract!Save
    <3> QED
      BY <3>1 DEF Abstract!Next
  <2>6. CASE SaveCutShort
    <3>1. file' \in CutShort(log) /\ log' = << >> /\ deaths' = deaths + 1
      BY <2>6 DEF SaveCutShort, Dies
    <3>2. Abstract!SaveInterrupted
      BY <2>1, <3>1, CutShortHolders, HoldersOfEmpty DEF Abstract!SaveInterrupted, Abstract!Dies
    <3> QED
      BY <3>2 DEF Abstract!Next
  <2>7. CASE Abandon
    <3>1. Abstract!Close
      BY <2>7, HoldersOfEmpty DEF Abandon, Dies, Abstract!Close, Abstract!Dies
    <3> QED
      BY <3>1 DEF Abstract!Next
  <2>8. ASSUME NEW as \in (SUBSET Achievements) \ {{}}, Prune(as)
        PROVE  [Abstract!Next]_(Abstract!vars)
    <3>1. /\ file \in Seq(Event) /\ file # Unreadable
          /\ file' = Pruned(file, as) /\ UNCHANGED << log, deaths >>
      BY <2>1, <2>8 DEF Prune
    <3>2. file' # Unreadable
      BY <2>1, <3>1, PrunedProperties
    <3>3. HoldersOf(file') = [a \in AllAchievements |->
                                IF a \in as \cup MetaAchievements THEN {} ELSE HoldersOf(file)[a]]
      BY <3>1, PruneForgets
    <3>4. as \in SUBSET Abstract!Names
      BY NamesAreAchievements DEF AllAchievements
    <3>5. Abstract!Forget
      BY <3>1, <3>2, <3>3, <3>4, NamesAreAchievements DEF Abstract!Forget
    <3> QED
      BY <3>5 DEF Abstract!Next
  <2>9. ASSUME NEW as \in (SUBSET Achievements) \ {{}}, PruneCutShort(as)
        PROVE  [Abstract!Next]_(Abstract!vars)
    <3>1. /\ file \in Seq(Event) /\ Alternates(file) /\ Orderly(file) /\ file # Unreadable
          /\ file' \in CutShort(Pruned(file, as))
          /\ UNCHANGED log /\ deaths' = deaths + 1
      BY <2>1, <2>9 DEF PruneCutShort, Dies
    <3>2. Abstract!ForgetInterrupted
      BY <3>1, PrunedCutShortHolders DEF Abstract!ForgetInterrupted, Abstract!Dies
    <3> QED
      BY <3>2 DEF Abstract!Next
  <2>10. CASE Discard
    <3>1. file' = << >> /\ UNCHANGED << log, deaths >> /\ Unreadable # << >>
      BY <2>10, UnreadableAssumption, EmptySeq DEF Discard
    <3>2. Abstract!Discard
      BY <3>1, HoldersOfEmpty DEF Abstract!Discard
    <3> QED
      BY <3>2 DEF Abstract!Next
  <2>11. CASE UNCHANGED vars
    BY <2>11 DEF vars, Abstract!vars
  <2> QED
    BY <2>2, <2>3, <2>4, <2>5, <2>6, <2>7, <2>8, <2>9, <2>10, <2>11 DEF Next
<1> QED
  BY <1>1, <1>2, TypeCorrect, AlternatesAlways, SingleHolderAlways, OrderlyAlways, PTL
     DEF Spec, ImplementsHolders, Abstract!Spec

-----------------------------------------------------------------------------
(***************************************************************************)
(* Who leads once the meta-achievement is evaluated.                       *)
(***************************************************************************)

\* A grant is active until a row takes back this very grant: the scan by
\* achievement and user finds no other.
LEMMA ActiveUntilTakenBack ==
  ASSUME NEW l \in Seq(Event), Orderly(l), Alternates(l),
         NEW i \in DOMAIN l, l[i].event = "grant"
  PROVE  NotRevokedAfter(l, i) <=>
           ~ \E j \in (i + 1)..Len(l) : l[j] = [l[i] EXCEPT !.event = "revoke"]
<1>1. /\ Len(l) \in Nat /\ DOMAIN l = 1..Len(l)
      /\ \A j \in DOMAIN l : l[j] \in Event
  BY LenProperties, ElementOfSeq
<1>2. \A j \in DOMAIN l : j > i <=> j \in (i + 1)..Len(l)
  BY <1>1
<1>3. ASSUME NEW j \in DOMAIN l, j > i, l[j] = [l[i] EXCEPT !.event = "revoke"]
      PROVE  ~NotRevokedAfter(l, i)
  <2>1. l[j].event = "revoke" /\ l[j].ach = l[i].ach /\ l[j].user = l[i].user
    BY <1>1, <1>3 DEF Event
  <2> QED
    BY <1>3, <2>1 DEF NotRevokedAfter, IsRevoke
<1>4. ASSUME ~NotRevokedAfter(l, i)
      PROVE  \E j \in DOMAIN l : j > i /\ l[j] = [l[i] EXCEPT !.event = "revoke"]
  <2> DEFINE a   == l[i].ach
             Rev == {j \in DOMAIN l : j > i /\ IsRevoke(l[j], a)}
  <2>1. Rev \in SUBSET Nat /\ Rev # {}
    BY <1>1, <1>4 DEF NotRevokedAfter
  <2>2. PICK j \in Rev : \A k \in Rev : j <= k
    BY <2>1, LeastExists
  <2>3. /\ j \in DOMAIN l /\ j > i /\ l[j].event = "revoke" /\ l[j].ach = a
        /\ \A k \in DOMAIN l : k > i /\ k < j => ~IsRevoke(l[k], a)
    BY <1>1, <2>2 DEF IsRevoke
  <2>4. PICK k \in 1..(j - 1) : /\ Takes(l[k], l[j])
                               /\ \A m \in (k + 1)..(j - 1) : l[m].ach # l[j].ach
    BY <2>3 DEF Orderly, Matched
  <2>5. k \in DOMAIN l /\ k < j /\ l[k] = [l[j] EXCEPT !.event = "grant"]
    BY <1>1, <2>3, <2>4 DEF Takes
  <2>6. i <= k
    <3>1. SUFFICES ASSUME k < i PROVE FALSE
      BY <1>1, <2>5
    <3>2. i \in (k + 1)..(j - 1)
      BY <1>1, <2>3, <2>5, <3>1
    <3> QED
      BY <2>3, <2>4, <3>2
  <2>7. ~(i < k)
    <3>1. SUFFICES ASSUME i < k PROVE FALSE
      OBVIOUS
    <3>2. l[k].event = "grant" /\ l[k].ach = a
      BY <1>1, <2>3, <2>5 DEF Event
    <3>3. a \in GlobalOnes
      <4>1. Kind(a) = "GlobalRevocable" /\ a \in AllAchievements
        BY <1>1, <2>3 DEF Orderly, RevocableOnly, Event
      <4> QED
        BY <4>1 DEF GlobalOnes, GlobalKinds
    <3>4. \E m \in (i + 1)..(k - 1) : IsRevoke(l[m], a)
      BY <2>5, <3>1, <3>2, <3>3 DEF Alternates, IsGrant
    <3>5. PICK m \in (i + 1)..(k - 1) : IsRevoke(l[m], a)
      BY <3>4
    <3>6. m \in DOMAIN l /\ m > i /\ m < j
      BY <1>1, <2>5, <3>5
    <3> QED
      BY <2>3, <3>5, <3>6
  <2>8. k = i
    BY <1>1, <2>5, <2>6, <2>7
  <2>9. l[j] = [l[i] EXCEPT !.event = "revoke"]
    <3>1. l[j] \in Event /\ l[i] = [l[j] EXCEPT !.event = "grant"] /\ l[j].event = "revoke"
      BY <1>1, <2>3, <2>5, <2>8
    <3> QED
      BY <3>1 DEF Event
  <2> QED
    BY <2>3, <2>9
<1> QED
  BY <1>2, <1>3, <1>4

\* What evaluate() counts for a user is what the user stands at.
LEMMA StandingIsCount ==
  ASSUME log \in Seq(Event), Orderly(log), Alternates(log), NEW u
  PROVE  /\ {i \in Counted(log) : log[i].user = u} \in SUBSET (1..Len(log))
         /\ Standing(u) = CountOf(log, u)
         /\ CountOf(log, u) \in Nat
         /\ CountOf(log, u) > 0 <=> u \in Contributors(log)
<1> DEFINE S == {i \in Counted(log) : log[i].user = u}
<1>1. /\ Len(log) \in Nat /\ DOMAIN log = 1..Len(log)
      /\ \A i \in DOMAIN log : log[i] \in Event
  BY LenProperties, ElementOfSeq
<1>2. S \in SUBSET (1..Len(log))
  BY <1>1 DEF Counted, ActiveGrants
<1>3. \A i \in DOMAIN log : log[i].ach \in Achievements <=> log[i].ach \notin MetaAchievements
  BY <1>1, FarmerAssumption DEF Event, AllAchievements, MetaAchievements
<1>4. S = {i \in DOMAIN log : /\ log[i].event = "grant" /\ log[i].user = u
                             /\ log[i].ach \in Achievements
                             /\ ~ \E j \in (i + 1)..Len(log) :
                                    log[j] = [log[i] EXCEPT !.event = "revoke"]}
  BY <1>3, ActiveUntilTakenBack DEF Counted, ActiveGrants
<1>5. Standing(u) = Cardinality(S) /\ CountOf(log, u) = Cardinality(S)
  BY <1>4, Zenon DEF Standing, CountOf
<1>6. u \in Contributors(log) <=> S # {}
  BY DEF Contributors
<1> HIDE DEF S
<1>7. IsFiniteSet(S)
  <2>1. 1 \in Int /\ Len(log) \in Int
    BY <1>1
  <2>2. IsFiniteSet(1..Len(log))
    BY <2>1, FS_Interval
  <2> QED
    BY <1>2, <2>2, FS_Subset
<1>8. Cardinality(S) \in Nat /\ (Cardinality(S) = 0 <=> S = {})
  BY <1>7, FS_CardinalityType, FS_EmptySet
<1>9. CountOf(log, u) > 0 <=> u \in Contributors(log)
  BY <1>5, <1>6, <1>8
<1>10. S \in SUBSET (1..Len(log)) /\ Standing(u) = CountOf(log, u) /\ CountOf(log, u) \in Nat
  BY <1>2, <1>5, <1>8
<1> QED
  BY <1>9, <1>10, Zenon DEF S

\* Once evaluated, the meta-achievement is with whom evaluate() names.
EvaluatedHolds ==
  phase = "evaluated" => \A g \in FarmerGrants(log) : IsGrantedTo(log, Farmer, g.user)

LEMMA EvaluatedHoldsAlways == Spec => []EvaluatedHolds
<1>1. Init => EvaluatedHolds
  BY DEF Init, EvaluatedHolds
<1>2. TypeOK /\ OneActiveHolder /\ EvaluatedHolds /\ [Next]_vars => EvaluatedHolds'
  <2> SUFFICES ASSUME TypeOK, OneActiveHolder, EvaluatedHolds, [Next]_vars
               PROVE  EvaluatedHolds'
    OBVIOUS
  <2>1. CASE EvaluateMeta
    <3>1. CASE FarmerGrants(log) = {} /\ log' = log
      BY <3>1 DEF EvaluatedHolds
    <3>2. ASSUME NEW g \in FarmerGrants(log), log' = Resolve(log, Farmer, g)
          PROVE  EvaluatedHolds'
      <4>1. /\ log \in Seq(Event) /\ SingleHolder(log) /\ g \in Grant
            /\ Farmer \in AllAchievements /\ Kind(Farmer) = "GlobalRevocable"
        BY DEF TypeOK, OneActiveHolder, FarmerGrants, AllAchievements, MetaAchievements, Kind
      <4>2. IsGrantedTo(Resolve(log, Farmer, g), Farmer, g.user)
        BY <4>1, ResolveHolders
      <4>3. FarmerGrants(Resolve(log, Farmer, g)) = FarmerGrants(log)
        BY <4>1, FarmerGrantsStay
      <4>4. \A h \in FarmerGrants(log) : h.user = g.user
        BY <4>1, FarmerIsOne DEF FarmerGrants
      <4> QED
        BY <3>2, <4>2, <4>3, <4>4 DEF EvaluatedHolds
    <3> QED
      BY <2>1, <3>1, <3>2 DEF EvaluateMeta
  <2>2. CASE ~EvaluateMeta
    <3>1. phase' # "evaluated" \/ (phase = "evaluated" /\ log' = log)
      BY <2>2 DEF Next, vars, Load, GrantTo, Save, SaveCutShort, Abandon, Prune,
                  PruneCutShort, Discard
    <3> QED
      BY <3>1 DEF EvaluatedHolds
  <2> QED
    BY <2>1, <2>2
<1> QED
  BY <1>1, <1>2, TypeCorrect, SingleHolderAlways, PTL DEF Spec

\* Once the meta-achievement is evaluated, it belongs to the user with the
\* highest standing, if the thresholds are met: in every log, whatever was
\* granted, moved, pruned and lost before.
THEOREM FarmerLeadsAlways == Spec => []FarmerLeads
<1>1. TypeOK /\ OrderlyInv /\ RevokedBeforeRegrant /\ EvaluatedHolds => FarmerLeads
  <2> SUFFICES ASSUME TypeOK, OrderlyInv, RevokedBeforeRegrant, EvaluatedHolds
               PROVE  FarmerLeads
    OBVIOUS
  <2> DEFINE standing == [u \in Users |-> Standing(u)]
             earners  == {u \in Users : standing[u] > 0}
             most     == {u \in earners : \A v \in earners : standing[v] <= standing[u]}
             held     == Cardinality({i \in ActiveGrants(log) : log[i].ach # Farmer})
  <2> SUFFICES ASSUME NEW u \in most, phase = "evaluated",
                      Cardinality(earners) > FewContributors, held > FewGrants,
                      standing[u] > FewForLeader, \A v \in most : u <= v
               PROVE  \E i \in ActiveGrants(log) : IsFor(log[i], Farmer, u)
    BY DEF FarmerLeads
  <2>1. log \in Seq(Event) /\ Orderly(log) /\ Alternates(log)
    BY DEF TypeOK, OrderlyInv, RevokedBeforeRegrant
  <2>2. \A v \in Users : /\ standing[v] = CountOf(log, v) /\ CountOf(log, v) \in Nat
                         /\ standing[v] > 0 <=> v \in Contributors(log)
    BY <2>1, StandingIsCount
  <2>3. Contributors(log) \subseteq Users
    <3>1. \A i \in Counted(log) : i \in DOMAIN log
      BY DEF Counted, ActiveGrants
    <3>2. \A i \in DOMAIN log : log[i] \in Event
      BY <2>1, LenProperties, ElementOfSeq
    <3> QED
      BY <3>1, <3>2 DEF Contributors, Event
  <2>4. earners = Contributors(log)
    <3>1. \A v \in Users : v \in earners <=> v \in Contributors(log)
      <4>1. \A v \in Users : v \in earners <=> standing[v] > 0
        OBVIOUS
      <4>2. \A v \in Users : standing[v] > 0 <=> v \in Contributors(log)
        BY <2>2
      <4> HIDE DEF earners
      <4> QED
        BY <4>1, <4>2, Zenon
    <3>2. earners \subseteq Users
      OBVIOUS
    <3> HIDE DEF earners
    <3> QED
      BY <2>3, <3>1, <3>2
  <2>5. held = Cardinality(Counted(log))
    <3>1. {i \in ActiveGrants(log) : log[i].ach # Farmer} = Counted(log)
      BY DEF Counted, MetaAchievements
    <3> QED
      BY <3>1
  <2>6. u \in Users /\ u \in Contributors(log) /\ CountOf(log, u) = standing[u]
    BY <2>2, <2>4
  <2>7. ASSUME NEW v \in Contributors(log) \ {u}
        PROVE  \/ CountOf(log, v) < CountOf(log, u)
               \/ CountOf(log, v) = CountOf(log, u) /\ u < v
    <3>1. v \in Users /\ v \in earners /\ standing[v] = CountOf(log, v)
      BY <2>2, <2>3, <2>4
    <3>2. standing[v] <= standing[u]
      BY <3>1
    <3>3. CASE CountOf(log, v) = CountOf(log, u)
      <4>1. v \in most
        BY <2>6, <3>1, <3>3
      <4>2. u <= v /\ u # v /\ u \in Nat /\ v \in Nat
        BY <2>6, <3>1, <4>1, UserAssumption
      <4> QED
        BY <3>3, <4>2
    <3> QED
      BY <2>2, <2>6, <3>1, <3>2, <3>3
  <2>8. Farms(log, u)
    BY <2>4, <2>5, <2>6, <2>7 DEF Farms
  <2> HIDE DEF standing, earners, most, held
  <2> DEFINE own == {i \in Counted(log) : log[i].user = u}
  <2>9. PICK i \in own : \A j \in own : j <= i
    <3>1. Len(log) \in Nat
      BY <2>1, LenProperties
    <3>2. own \in SUBSET (1..Len(log))
      BY <2>1, StandingIsCount
    <3>3. own # {}
      BY <2>6 DEF Contributors
    <3> QED
      BY <3>1, <3>2, <3>3, LastExists
  <2> DEFINE g == [user |-> u, commit |-> log[i].commit]
  <2>10. IsLatestCounted(log, u, i)
    BY <2>9 DEF IsLatestCounted
  <2>11. g \in Grant
    <3>1. i \in DOMAIN log
      BY <2>9 DEF Counted, ActiveGrants
    <3>2. log[i] \in Event
      BY <2>1, <3>1, LenProperties, ElementOfSeq
    <3> QED
      BY <2>6, <3>2 DEF Grant, Event
  <2>12. g \in FarmerGrants(log)
    BY <2>8, <2>9, <2>10, <2>11 DEF FarmerGrants
  <2>13. IsGrantedTo(log, Farmer, u)
    BY <2>12 DEF EvaluatedHolds
  <2> QED
    BY <2>13 DEF IsGrantedTo, ActiveGrants, IsFor
<1> QED
  BY <1>1, TypeCorrect, OrderlyAlways, AlternatesAlways, EvaluatedHoldsAlways, PTL
=============================================================================
