-------------------------- MODULE AchievementEventsProofs --------------------------
(***************************************************************************)
(* Lemmas about achievement logs: what resolving a grant, pruning          *)
(* achievements and cutting a file short preserve.  The property that      *)
(* carries the argument is Alternates: two grants of a global achievement  *)
(* have a revocation of the first between them.  It says nothing of the    *)
(* end of the log, so every prefix of a log has it, and it speaks of one   *)
(* achievement at a time, so pruning whole achievements keeps it;          *)
(* SingleHolder itself has neither property, and follows from it.          *)
(***************************************************************************)
EXTENDS AchievementEvents, EnumerationProofs, SequenceTheorems

(***************************************************************************)
(* What a pruned log and a prefix of a log are.                            *)
(***************************************************************************)

\* Pruning lists the kept rows in order.
LEMMA PrunedProperties ==
  ASSUME NEW l \in Seq(Event), NEW as
  PROVE  LET kept == KeptRows(l, as)
             new  == Pruned(l, as)
         IN  /\ new \in Seq(Event)
             /\ \A k \in DOMAIN new :
                  NthOf(kept, k) \in kept /\ new[k] = l[NthOf(kept, k)]
             /\ \A i \in kept : \E k \in DOMAIN new : NthOf(kept, k) = i
             /\ \A k, m \in DOMAIN new :
                  k < m <=> NthOf(kept, k) < NthOf(kept, m)
             /\ DOMAIN new = 1..Len(new)
<1> DEFINE kept == KeptRows(l, as)
           new  == Pruned(l, as)
           Top  == 1..Cardinality(kept)
<1>1. Len(l) \in Nat /\ DOMAIN l = 1..Len(l) /\ \A i \in DOMAIN l : l[i] \in Event
  BY LenProperties, ElementOfSeq
<1>2. kept \in SUBSET (1..Len(l))
  BY <1>1 DEF KeptRows
<1> HIDE DEF kept
<1>3. /\ Cardinality(kept) \in Nat
      /\ \A i \in kept : RankIn(kept, i) \in Top
      /\ \A k \in Top : NthOf(kept, k) \in kept
      /\ \A i \in kept : NthOf(kept, RankIn(kept, i)) = i
      /\ \A k, m \in Top : k < m <=> NthOf(kept, k) < NthOf(kept, m)
  BY <1>1, <1>2, RankProperties, NthProperties
<1>4. new = [k \in Top |-> l[NthOf(kept, k)]]
  BY DEF Pruned, kept
<1> HIDE DEF new
<1>5. new \in [Top -> Event]
  BY <1>1, <1>2, <1>3, <1>4
<1>6. new \in Seq(Event) /\ DOMAIN new = Top
  BY <1>3, <1>5, IsASeq
<1>7. DOMAIN new = 1..Len(new)
  BY <1>6, LenProperties
<1>8. QED
  BY <1>3, <1>4, <1>6, <1>7 DEF kept, new

\* A log extended by one row, or by two.
LEMMA ExtendByOne ==
  ASSUME NEW l \in Seq(Event), NEW e \in Event
  PROVE  LET new == l \o << e >>
         IN  /\ new \in Seq(Event)
             /\ Len(l) \in Nat /\ Len(new) = Len(l) + 1
             /\ DOMAIN l = 1..Len(l) /\ DOMAIN new = 1..(Len(l) + 1)
             /\ \A i \in 1..Len(l) : new[i] = l[i]
             /\ new[Len(l) + 1] = e
<1>1. << e >> \in Seq(Event) /\ Len(<< e >>) = 1
  OBVIOUS
<1>2. QED
  BY <1>1, ConcatProperties, LenProperties

LEMMA ExtendByTwo ==
  ASSUME NEW l \in Seq(Event), NEW d \in Event, NEW e \in Event
  PROVE  LET new == l \o << d, e >>
         IN  /\ new \in Seq(Event)
             /\ Len(l) \in Nat /\ Len(new) = Len(l) + 2
             /\ DOMAIN l = 1..Len(l) /\ DOMAIN new = 1..(Len(l) + 2)
             /\ \A i \in 1..Len(l) : new[i] = l[i]
             /\ new[Len(l) + 1] = d /\ new[Len(l) + 2] = e
<1>1. << d, e >> \in Seq(Event) /\ Len(<< d, e >>) = 2
  OBVIOUS
<1>2. QED
  BY <1>1, ConcatProperties, LenProperties

\* The grant that record_revocation expects exists whenever resolve calls it.
LEMMA HolderProperties ==
  ASSUME NEW l \in Seq(Event), NEW a \in AllAchievements, HasHolder(l, a)
  PROVE  LET u == HolderUser(l, a)
         IN  /\ \E h \in DOMAIN l : IsHolder(l, a, h) /\ l[h].user = u
             /\ u \in Users
             /\ LatestGrant(l, a, u) \in DOMAIN l
             /\ Revocation(l, a, u) \in Event
             /\ IsRevoke(Revocation(l, a, u), a)
             /\ Revocation(l, a, u).user = u
<1> DEFINE u == HolderUser(l, a)
<1>1. PICK h \in Holders(l, a) : u = l[h].user
  BY DEF HasHolder, HolderUser
<1>2. h \in DOMAIN l /\ IsHolder(l, a, h)
  BY <1>1 DEF Holders
<1>3. \A i \in DOMAIN l : l[i] \in Event
  BY LenProperties, ElementOfSeq
<1>4. u \in Users
  BY <1>1, <1>2, <1>3 DEF Event
<1> HIDE DEF u
<1>5. /\ h \in DOMAIN l
      /\ IsGrant(l[h], a) /\ l[h].user = u
      /\ \A j \in DOMAIN l : j > h => ~(IsGrant(l[j], a) /\ l[j].user = u)
  BY <1>1, <1>2 DEF IsHolder
<1>6. LatestGrant(l, a, u) \in DOMAIN l
  BY <1>5 DEF LatestGrant
<1>7. Revocation(l, a, u) \in Event
  BY <1>3, <1>4, <1>6 DEF Revocation, Event
<1>8. IsRevoke(Revocation(l, a, u), a) /\ Revocation(l, a, u).user = u
  BY DEF Revocation, IsRevoke
<1>9. QED
  BY <1>1, <1>2, <1>4, <1>6, <1>7, <1>8 DEF u

-----------------------------------------------------------------------------
(***************************************************************************)
(* Alternates through every way a log changes.                             *)
(***************************************************************************)

\* Where nobody holds a global achievement, every grant of it was revoked: its
\* last grant, or there would be a holder, and the others by Alternates.
LEMMA NoHolderMeansRevoked ==
  ASSUME NEW l \in Seq(Event), NEW a \in GlobalOnes, Alternates(l),
         ~HasHolder(l, a), NEW i \in DOMAIN l, IsGrant(l[i], a)
  PROVE  \E k \in (i + 1)..Len(l) : IsRevoke(l[k], a) /\ l[k].user = l[i].user
<1> DEFINE G == {j \in DOMAIN l : IsGrant(l[j], a)}
           m == NthOf(G, Cardinality(G))
<1>1. Len(l) \in Nat /\ DOMAIN l = 1..Len(l)
  BY LenProperties
<1>2. G \in SUBSET (1..Len(l)) /\ i \in G
  BY <1>1
<1> HIDE DEF G
<1>3. /\ Cardinality(G) \in Nat
      /\ \A j \in G : RankIn(G, j) \in 1..Cardinality(G)
  BY <1>1, <1>2, RankProperties
<1>4. Cardinality(G) \in 1..Cardinality(G)
  BY <1>2, <1>3
<1>5. /\ m \in G
      /\ \A j \in G : NthOf(G, RankIn(G, j)) = j
      /\ \A p, q \in 1..Cardinality(G) : p < q <=> NthOf(G, p) < NthOf(G, q)
  BY <1>1, <1>2, <1>4, NthProperties
<1>6. \A j \in G : j = m \/ j < m
  <2> TAKE j \in G
  <2>1. RankIn(G, j) = Cardinality(G) \/ RankIn(G, j) < Cardinality(G)
    BY <1>3
  <2>2. QED
    BY <1>3, <1>4, <1>5, <2>1
<1> HIDE DEF m
<1>7. m \in DOMAIN l /\ IsGrant(l[m], a) /\ m \in 1..Len(l)
  BY <1>1, <1>5 DEF G
<1>8. \A j \in DOMAIN l : j > m => ~IsGrant(l[j], a)
  BY <1>1, <1>6, <1>7 DEF G
<1>9. ~NotRevokedAfter(l, m)
  BY <1>7, <1>8 DEF HasHolder, Holders, IsHolder
<1>10. PICK k \in DOMAIN l : k > m /\ IsRevoke(l[k], a) /\ l[k].user = l[m].user
  BY <1>7, <1>9 DEF NotRevokedAfter, IsGrant
<1>11. CASE i = m
  BY <1>1, <1>7, <1>10, <1>11
<1>12. CASE i < m
  <2>1. PICK j \in (i + 1)..(m - 1) : IsRevoke(l[j], a) /\ l[j].user = l[i].user
    BY <1>7, <1>12 DEF Alternates
  <2>2. j \in (i + 1)..Len(l)
    BY <1>1, <1>7, <2>1
  <2>3. QED
    BY <2>1, <2>2
<1>13. QED
  BY <1>2, <1>6, <1>11, <1>12

\* Resolving a grant appends events of the right type.
LEMMA ResolveTyped ==
  ASSUME NEW l \in Seq(Event), NEW a \in AllAchievements, NEW g \in Grant
  PROVE  Resolve(l, a, g) \in Seq(Event)
<1>1. GrantEvent(a, g) \in Event
  BY DEF GrantEvent, Grant, Event
<1>2. CASE Suppressed(l, a, g)
  <2>1. Resolve(l, a, g) = l \o << >>
    BY <1>2 DEF Resolve, Resolution
  <2>2. QED
    BY <2>1, ConcatEmptySeq
<1>3. CASE ~Suppressed(l, a, g) /\ Supersedes(l, a)
  <2>1. Revocation(l, a, HolderUser(l, a)) \in Event
    BY <1>3, HolderProperties DEF Supersedes
  <2>2. QED
    BY <1>1, <1>3, <2>1, ExtendByTwo DEF Resolve, Resolution
<1>4. CASE ~Suppressed(l, a, g) /\ ~Supersedes(l, a)
  BY <1>1, <1>4, ExtendByOne DEF Resolve, Resolution
<1>5. QED
  BY <1>2, <1>3, <1>4

\* Resolving a grant keeps Alternates.
LEMMA ResolveAlternates ==
  ASSUME NEW l \in Seq(Event), NEW a \in AllAchievements, NEW g \in Grant,
         Alternates(l)
  PROVE  Alternates(Resolve(l, a, g))
<1> DEFINE e == GrantEvent(a, g)
           n == Len(l)
<1>1. e \in Event /\ n \in Nat /\ DOMAIN l = 1..n
  BY LenProperties DEF GrantEvent, Grant, Event
<1>2. CASE Suppressed(l, a, g)
  <2>1. Resolve(l, a, g) = l \o << >>
    BY <1>2 DEF Resolve, Resolution
  <2>2. QED
    BY <2>1, ConcatEmptySeq
<1>3. CASE ~Suppressed(l, a, g) /\ ~Supersedes(l, a)
  <2> DEFINE new == l \o << e >>
  <2>1. Resolve(l, a, g) = new
    BY <1>3 DEF Resolve, Resolution
  <2>2. /\ DOMAIN new = 1..(n + 1)
        /\ \A i \in 1..n : new[i] = l[i]
        /\ new[n + 1] = e
    BY <1>1, ExtendByOne
  <2> HIDE DEF new
  <2> SUFFICES ASSUME NEW b \in GlobalOnes, NEW i \in 1..(n + 1), NEW j \in 1..(n + 1),
                      i < j, IsGrant(new[i], b), IsGrant(new[j], b)
               PROVE  \E k \in (i + 1)..(j - 1) :
                        IsRevoke(new[k], b) /\ new[k].user = new[i].user
    <3>1. SUFFICES Alternates(new)
      BY <2>1
    <3>2. \A b \in GlobalOnes : \A i, j \in DOMAIN new :
            i < j /\ IsGrant(new[i], b) /\ IsGrant(new[j], b) =>
              \E k \in (i + 1)..(j - 1) :
                IsRevoke(new[k], b) /\ new[k].user = new[i].user
      BY <2>2, ZenonT(60)
    <3>3. QED
      BY <3>2, Zenon DEF Alternates
  <2>3. i \in 1..n /\ new[i] = l[i]
    BY <1>1, <2>2
  <2>4. CASE j \in 1..n
    <3>1. PICK k \in (i + 1)..(j - 1) : IsRevoke(l[k], b) /\ l[k].user = l[i].user
      BY <1>1, <2>2, <2>3, <2>4 DEF Alternates
    <3>2. k \in 1..n
      BY <1>1, <2>4, <3>1
    <3>3. QED
      BY <2>2, <2>3, <3>1, <3>2
  <2>5. CASE j = n + 1
    <3>1. b = a
      BY <2>2, <2>5 DEF IsGrant, GrantEvent
    <3>2. ~HasHolder(l, b)
      BY <1>3, <3>1 DEF GlobalOnes, GlobalKinds, Suppressed, Supersedes
    <3>3. PICK k \in (i + 1)..n : IsRevoke(l[k], b) /\ l[k].user = l[i].user
      BY <1>1, <2>3, <3>2, NoHolderMeansRevoked
    <3>4. k \in 1..n /\ k \in (i + 1)..(j - 1)
      BY <1>1, <2>3, <2>5, <3>3
    <3>5. QED
      BY <2>2, <2>3, <3>3, <3>4
  <2>6. QED
    BY <1>1, <2>4, <2>5
<1>4. CASE ~Suppressed(l, a, g) /\ Supersedes(l, a)
  <2> DEFINE u == HolderUser(l, a)
             d == Revocation(l, a, u)
             new == l \o << d, e >>
  <2>1. Resolve(l, a, g) = new
    BY <1>4 DEF Resolve, Resolution
  <2>2. /\ \E h \in DOMAIN l : IsHolder(l, a, h) /\ l[h].user = u
        /\ d \in Event /\ IsRevoke(d, a) /\ d.user = u
    BY <1>4, HolderProperties DEF Supersedes
  <2> HIDE DEF u, d
  <2>3. /\ DOMAIN new = 1..(n + 2)
        /\ \A i \in 1..n : new[i] = l[i]
        /\ new[n + 1] = d /\ new[n + 2] = e
    BY <1>1, <2>2, ExtendByTwo
  <2> HIDE DEF new
  <2> SUFFICES ASSUME NEW b \in GlobalOnes, NEW i \in 1..(n + 2), NEW j \in 1..(n + 2),
                      i < j, IsGrant(new[i], b), IsGrant(new[j], b)
               PROVE  \E k \in (i + 1)..(j - 1) :
                        IsRevoke(new[k], b) /\ new[k].user = new[i].user
    <3>1. SUFFICES Alternates(new)
      BY <2>1
    <3>2. \A b \in GlobalOnes : \A i, j \in DOMAIN new :
            i < j /\ IsGrant(new[i], b) /\ IsGrant(new[j], b) =>
              \E k \in (i + 1)..(j - 1) :
                IsRevoke(new[k], b) /\ new[k].user = new[i].user
      BY <2>3, ZenonT(60)
    <3>3. QED
      BY <3>2, Zenon DEF Alternates
  <2>4. i # n + 1 /\ j # n + 1
    BY <2>2, <2>3 DEF IsGrant, IsRevoke
  <2>5. i \in 1..n /\ new[i] = l[i]
    BY <1>1, <2>3, <2>4
  <2>6. CASE j \in 1..n
    <3>1. PICK k \in (i + 1)..(j - 1) : IsRevoke(l[k], b) /\ l[k].user = l[i].user
      BY <1>1, <2>3, <2>5, <2>6 DEF Alternates
    <3>2. k \in 1..n
      BY <1>1, <2>6, <3>1
    <3>3. QED
      BY <2>3, <2>5, <3>1, <3>2
  <2>7. CASE j = n + 2
    <3>1. b = a
      BY <2>3, <2>7 DEF IsGrant, GrantEvent
    <3>2. PICK h \in 1..n : IsHolder(l, a, h) /\ l[h].user = u
      BY <1>1, <2>2
    <3>3. i = h \/ i < h
      BY <1>1, <2>5, <3>1, <3>2 DEF IsHolder
    <3>4. CASE i = h
      <4>1. n + 1 \in (i + 1)..(j - 1)
        BY <1>1, <2>5, <2>7
      <4>2. QED
        BY <2>2, <2>3, <2>5, <3>1, <3>2, <3>4, <4>1
    <3>5. CASE i < h
      <4>1. PICK k \in (i + 1)..(h - 1) : IsRevoke(l[k], b) /\ l[k].user = l[i].user
        BY <1>1, <2>5, <3>1, <3>2, <3>5 DEF Alternates, IsHolder
      <4>2. k \in 1..n /\ k \in (i + 1)..(j - 1)
        BY <1>1, <2>5, <2>7, <3>2, <4>1
      <4>3. QED
        BY <2>3, <2>5, <4>1, <4>2
    <3>6. QED
      BY <3>3, <3>4, <3>5
  <2>8. QED
    BY <1>1, <2>4, <2>6, <2>7
<1>5. QED
  BY <1>2, <1>3, <1>4

\* A prefix of a log has Alternates.
LEMMA PrefixAlternates ==
  ASSUME NEW l \in Seq(Event), Alternates(l), NEW n \in 0..Len(l)
  PROVE  SubSeq(l, 1, n) \in Seq(Event) /\ Alternates(SubSeq(l, 1, n))
<1> DEFINE new == SubSeq(l, 1, n)
<1>1. Len(l) \in Nat /\ DOMAIN l = 1..Len(l) /\ n \in Nat
  BY LenProperties
<1>2. /\ new \in Seq(Event)
      /\ DOMAIN new = 1..n
      /\ \A i \in 1..n : new[i] = l[i]
  BY <1>1, SubSeqProperties, LenProperties
<1> HIDE DEF new
<1>3. ASSUME NEW b \in GlobalOnes, NEW i \in DOMAIN new, NEW j \in DOMAIN new,
             i < j, IsGrant(new[i], b), IsGrant(new[j], b)
      PROVE  \E k \in (i + 1)..(j - 1) :
               IsRevoke(new[k], b) /\ new[k].user = new[i].user
  <2>1. i \in 1..n /\ j \in 1..n /\ i \in DOMAIN l /\ j \in DOMAIN l
    BY <1>1, <1>2
  <2>2. PICK k \in (i + 1)..(j - 1) : IsRevoke(l[k], b) /\ l[k].user = l[i].user
    BY <1>2, <1>3, <2>1 DEF Alternates
  <2>3. k \in 1..n
    BY <1>1, <2>1, <2>2
  <2>4. QED
    BY <1>2, <2>1, <2>2, <2>3
<1>4. \A b \in GlobalOnes : \A i, j \in DOMAIN new :
        i < j /\ IsGrant(new[i], b) /\ IsGrant(new[j], b) =>
          \E k \in (i + 1)..(j - 1) :
            IsRevoke(new[k], b) /\ new[k].user = new[i].user
  BY <1>3
<1>5. Alternates(new)
  BY <1>4, Zenon DEF Alternates
<1>6. QED
  BY <1>2, <1>5 DEF new

\* Pruning takes all the rows of an achievement or none, so the revocation
\* between two kept grants is kept.
LEMMA PruneAlternates ==
  ASSUME NEW l \in Seq(Event), Alternates(l), NEW as
  PROVE  Alternates(Pruned(l, as))
<1> DEFINE kept == KeptRows(l, as)
           new  == Pruned(l, as)
           Old(k) == NthOf(kept, k)
<1>1. Len(l) \in Nat /\ DOMAIN l = 1..Len(l)
  BY LenProperties
<1>2. /\ DOMAIN new = 1..Len(new) /\ Len(new) \in Nat
      /\ \A k \in DOMAIN new : Old(k) \in kept /\ new[k] = l[Old(k)]
      /\ \A i \in kept : \E k \in DOMAIN new : Old(k) = i
      /\ \A k, m \in DOMAIN new : k < m <=> Old(k) < Old(m)
  <2>1. /\ new \in Seq(Event)
        /\ DOMAIN new = 1..Len(new)
        /\ \A k \in DOMAIN new : Old(k) \in kept /\ new[k] = l[Old(k)]
        /\ \A i \in kept : \E k \in DOMAIN new : Old(k) = i
        /\ \A k, m \in DOMAIN new : k < m <=> Old(k) < Old(m)
    <3>1. /\ Pruned(l, as) \in Seq(Event)
          /\ \A k \in DOMAIN Pruned(l, as) :
               /\ NthOf(KeptRows(l, as), k) \in KeptRows(l, as)
               /\ Pruned(l, as)[k] = l[NthOf(KeptRows(l, as), k)]
          /\ \A i \in KeptRows(l, as) :
               \E k \in DOMAIN Pruned(l, as) : NthOf(KeptRows(l, as), k) = i
          /\ \A k, m \in DOMAIN Pruned(l, as) :
               k < m <=> NthOf(KeptRows(l, as), k) < NthOf(KeptRows(l, as), m)
          /\ DOMAIN Pruned(l, as) = 1..Len(Pruned(l, as))
      BY PrunedProperties, ZenonT(60)
    <3>2. QED
      BY <3>1
  <2> HIDE DEF new, kept, Old
  <2>2. Len(new) \in Nat
    BY <2>1, LenProperties
  <2>3. QED
    BY <2>1, <2>2
<1>3. /\ kept \in SUBSET DOMAIN l
      /\ \A i \in DOMAIN l, j \in kept : l[i].ach = l[j].ach => i \in kept
  BY DEF KeptRows
<1> HIDE DEF kept, new, Old
<1>4. ASSUME NEW b \in GlobalOnes, NEW i \in DOMAIN new, NEW j \in DOMAIN new,
             i < j, IsGrant(new[i], b), IsGrant(new[j], b)
      PROVE  \E k \in (i + 1)..(j - 1) :
               IsRevoke(new[k], b) /\ new[k].user = new[i].user
  <2>1. /\ Old(i) \in DOMAIN l /\ Old(j) \in DOMAIN l /\ Old(i) < Old(j)
        /\ IsGrant(l[Old(i)], b) /\ IsGrant(l[Old(j)], b)
    BY <1>2, <1>3, <1>4
  <2>2. PICK o \in (Old(i) + 1)..(Old(j) - 1) :
               IsRevoke(l[o], b) /\ l[o].user = l[Old(i)].user
    BY <2>1 DEF Alternates
  <2>3. o \in DOMAIN l /\ Old(i) < o /\ o < Old(j)
    BY <1>1, <2>1, <2>2
  <2>4. o \in kept
    BY <1>2, <1>3, <2>1, <2>2, <2>3 DEF IsGrant, IsRevoke
  <2>5. PICK k \in DOMAIN new : Old(k) = o
    BY <1>2, <2>4
  <2>6. i < k /\ k < j
    BY <1>2, <2>3, <2>5
  <2>7. k \in (i + 1)..(j - 1)
    BY <1>2, <2>6
  <2>8. QED
    BY <1>2, <2>2, <2>5, <2>7
<1>5. \A b \in GlobalOnes : \A i, j \in DOMAIN new :
        i < j /\ IsGrant(new[i], b) /\ IsGrant(new[j], b) =>
          \E k \in (i + 1)..(j - 1) :
            IsRevoke(new[k], b) /\ new[k].user = new[i].user
  BY <1>4
<1>6. Alternates(new)
  BY <1>5, Zenon DEF Alternates
<1>7. QED
  BY <1>6 DEF new

\* What Alternates is for.
LEMMA AlternatesSingleHolder ==
  ASSUME NEW l \in Seq(Event), Alternates(l)
  PROVE  SingleHolder(l)
<1> SUFFICES ASSUME NEW a \in GlobalOnes
             PROVE  LET active == {i \in ActiveGrants(l) : l[i].ach = a}
                    IN  active = Holders(l, a) /\ \A i, j \in active : i = j
  BY DEF SingleHolder
<1> DEFINE active == {i \in ActiveGrants(l) : l[i].ach = a}
<1>1. Len(l) \in Nat /\ DOMAIN l = 1..Len(l)
  BY LenProperties
<1>2. Holders(l, a) \subseteq active
  BY DEF Holders, IsHolder, ActiveGrants, IsGrant
<1>3. ASSUME NEW i \in active, NEW j \in DOMAIN l, j > i
      PROVE  ~IsGrant(l[j], a)
  <2> SUFFICES ASSUME IsGrant(l[j], a) PROVE FALSE
    OBVIOUS
  <2>1. i \in DOMAIN l /\ IsGrant(l[i], a) /\ NotRevokedAfter(l, i)
    BY DEF ActiveGrants, IsGrant
  <2>2. PICK k \in (i + 1)..(j - 1) : IsRevoke(l[k], a) /\ l[k].user = l[i].user
    BY <1>1, <1>3, <2>1 DEF Alternates
  <2>3. k \in DOMAIN l /\ k > i
    BY <1>1, <1>3, <2>1, <2>2
  <2>4. QED
    BY <2>1, <2>2, <2>3 DEF NotRevokedAfter, IsGrant
<1>4. active \subseteq Holders(l, a)
  BY <1>3 DEF Holders, IsHolder, ActiveGrants, IsGrant
<1>5. ASSUME NEW i \in active, NEW j \in active
      PROVE  i = j
  <2>1. i \in DOMAIN l /\ j \in DOMAIN l /\ IsGrant(l[i], a) /\ IsGrant(l[j], a)
    BY DEF ActiveGrants, IsGrant
  <2>2. ~(j > i) /\ ~(i > j)
    BY <1>3, <2>1
  <2>3. QED
    BY <1>1, <2>1, <2>2
<1>6. QED
  BY <1>2, <1>4, <1>5

-----------------------------------------------------------------------------
(***************************************************************************)
(* Interrupted writes.                                                     *)
(***************************************************************************)

\* A prefix of a log is a log.
LEMMA PrefixTyped ==
  ASSUME NEW l \in Seq(Event), NEW n \in 0..Len(l)
  PROVE  SubSeq(l, 1, n) \in Seq(Event)
<1>1. Len(l) \in Nat
  BY LenProperties
<1>2. QED
  BY <1>1, SubSeqProperties

\* An interrupted write leaves a well-typed file.
LEMMA CutShortTyped ==
  ASSUME NEW l \in Seq(Event)
  PROVE  CutShort(l) \subseteq Seq(Event) \cup {Unreadable}
BY PrefixTyped DEF CutShort

\* An interrupted write leaves a file that does not load, or has Alternates.
LEMMA CutShortAlternates ==
  ASSUME NEW l \in Seq(Event), Alternates(l), NEW f \in CutShort(l)
  PROVE  f # Unreadable => Alternates(f)
BY PrefixAlternates DEF CutShort
-----------------------------------------------------------------------------
(***************************************************************************)
(* Who holds an achievement, as is_granted_to sees it: what every way a    *)
(* log changes does to it.                                                 *)
(***************************************************************************)

\* Users are the only ones who hold anything.
LEMMA GrantedToUsers ==
  ASSUME NEW l \in Seq(Event), NEW a, NEW u, IsGrantedTo(l, a, u)
  PROVE  u \in Users
<1>1. \A i \in DOMAIN l : l[i] \in Event
  BY LenProperties, ElementOfSeq
<1> QED
  BY <1>1 DEF IsGrantedTo, IsFor, Event

\* The users active_grants names are the ones is_granted_to finds.
LEMMA ActiveMeansGranted ==
  ASSUME NEW l, NEW a
  PROVE  \A u : IsGrantedTo(l, a, u) <=>
                  u \in {l[i].user : i \in {k \in ActiveGrants(l) : l[k].ach = a}}
BY DEF IsGrantedTo, IsFor, ActiveGrants

\* One more grant: its user holds the achievement too.
LEMMA HoldersAfterGrant ==
  ASSUME NEW l \in Seq(Event), NEW e \in Event, e.event = "grant", NEW b, NEW v
  PROVE  IsGrantedTo(l \o << e >>, b, v) <=> IsFor(e, b, v) \/ IsGrantedTo(l, b, v)
<1> DEFINE n   == Len(l)
           new == l \o << e >>
<1>1. /\ n \in Nat /\ DOMAIN l = 1..n /\ DOMAIN new = 1..(n + 1)
      /\ \A i \in 1..n : new[i] = l[i]
      /\ new[n + 1] = e
  BY ExtendByOne
<1> HIDE DEF new, n
<1>2. ASSUME NEW i \in 1..n
      PROVE  NotRevokedAfter(new, i) <=> NotRevokedAfter(l, i)
  <2>1. ~IsRevoke(new[n + 1], new[i].ach)
    BY <1>1 DEF IsRevoke
  <2>2. \A j \in DOMAIN new : j = n + 1 \/ j \in DOMAIN l
    BY <1>1
  <2>3. \A j \in DOMAIN l : j \in DOMAIN new /\ new[j] = l[j]
    BY <1>1
  <2> QED
    BY <1>1, <1>2, <2>1, <2>2, <2>3 DEF NotRevokedAfter
<1>3. NotRevokedAfter(new, n + 1)
  BY <1>1 DEF NotRevokedAfter
<1>4. IsGrantedTo(new, b, v) <=> IsFor(e, b, v) \/ IsGrantedTo(l, b, v)
  <2>1. IsGrantedTo(l, b, v) => IsGrantedTo(new, b, v)
    BY <1>1, <1>2 DEF IsGrantedTo
  <2>2. IsFor(e, b, v) => IsGrantedTo(new, b, v)
    BY <1>1, <1>3 DEF IsGrantedTo
  <2>3. ASSUME IsGrantedTo(new, b, v) PROVE IsFor(e, b, v) \/ IsGrantedTo(l, b, v)
    <3>1. PICK i \in DOMAIN new : /\ IsFor(new[i], b, v) /\ new[i].event = "grant"
                                  /\ NotRevokedAfter(new, i)
      BY <2>3 DEF IsGrantedTo
    <3>2. i = n + 1 \/ i \in 1..n
      BY <1>1
    <3> QED
      BY <1>1, <1>2, <3>1, <3>2 DEF IsGrantedTo
  <2> QED
    BY <2>1, <2>2, <2>3
<1> QED
  BY <1>4 DEF new

\* One more revocation: its user no longer holds the achievement.
LEMMA HoldersAfterRevoke ==
  ASSUME NEW l \in Seq(Event), NEW e \in Event, e.event = "revoke", NEW b, NEW v
  PROVE  IsGrantedTo(l \o << e >>, b, v) <=> ~IsFor(e, b, v) /\ IsGrantedTo(l, b, v)
<1> DEFINE n   == Len(l)
           new == l \o << e >>
<1>1. /\ n \in Nat /\ DOMAIN l = 1..n /\ DOMAIN new = 1..(n + 1)
      /\ \A i \in 1..n : new[i] = l[i]
      /\ new[n + 1] = e
  BY ExtendByOne
<1> HIDE DEF new, n
<1>2. ASSUME NEW i \in 1..n
      PROVE  NotRevokedAfter(new, i) <=>
               NotRevokedAfter(l, i) /\ ~IsFor(e, l[i].ach, l[i].user)
  <2>1. /\ \A j \in DOMAIN new : j = n + 1 \/ j \in DOMAIN l
        /\ \A j \in DOMAIN l : j \in DOMAIN new /\ new[j] = l[j]
        /\ n + 1 \in DOMAIN new /\ n + 1 > i
    BY <1>1
  <2>2. IsFor(e, l[i].ach, l[i].user) <=>
          IsRevoke(new[n + 1], l[i].ach) /\ new[n + 1].user = l[i].user
    BY <1>1 DEF IsRevoke, IsFor
  <2> QED
    BY <1>1, <1>2, <2>1, <2>2 DEF NotRevokedAfter
<1>3. \A i \in DOMAIN new : new[i].event = "grant" => i \in 1..n
  BY <1>1
<1>4. IsGrantedTo(new, b, v) <=> ~IsFor(e, b, v) /\ IsGrantedTo(l, b, v)
  <2>1. IsGrantedTo(new, b, v) => ~IsFor(e, b, v) /\ IsGrantedTo(l, b, v)
    BY <1>1, <1>2, <1>3 DEF IsGrantedTo, IsFor
  <2>2. ~IsFor(e, b, v) /\ IsGrantedTo(l, b, v) => IsGrantedTo(new, b, v)
    BY <1>1, <1>2 DEF IsGrantedTo, IsFor
  <2> QED
    BY <2>1, <2>2
<1> QED
  BY <1>4 DEF new

\* Where an achievement has a single holder, current_holder finds whoever
\* is_granted_to does.
LEMMA HolderIsGranted ==
  ASSUME NEW l \in Seq(Event), SingleHolder(l), NEW a \in GlobalOnes
  PROVE  \A v : IsGrantedTo(l, a, v) <=> HasHolder(l, a) /\ v = HolderUser(l, a)
<1> DEFINE active == {i \in ActiveGrants(l) : l[i].ach = a}
<1>1. active = Holders(l, a) /\ \A i, j \in active : i = j
  BY DEF SingleHolder
<1>2. \A v : IsGrantedTo(l, a, v) <=> \E i \in active : l[i].user = v
  BY ActiveMeansGranted
<1> HIDE DEF active
<1> QED
  BY <1>1, <1>2 DEF HasHolder, HolderUser

\* Resolving a grant touches its achievement alone.  A per-user achievement goes
\* to one more user, a permanent global one to its first, a revocable one passes
\* to the user granted to.
LEMMA ResolveHolders ==
  ASSUME NEW l \in Seq(Event), SingleHolder(l), NEW a \in AllAchievements, NEW g \in Grant
  PROVE  LET new == Resolve(l, a, g)
         IN  /\ \A b, v : b # a => (IsGrantedTo(new, b, v) <=> IsGrantedTo(l, b, v))
             /\ Kind(a) \notin GlobalKinds =>
                  \A v : IsGrantedTo(new, a, v) <=> v = g.user \/ IsGrantedTo(l, a, v)
             /\ Kind(a) = "Global" =>
                  IF HasHolder(l, a) THEN new = l
                  ELSE \A v : IsGrantedTo(new, a, v) <=> v = g.user
             /\ Kind(a) = "GlobalRevocable" =>
                  \A v : IsGrantedTo(new, a, v) <=> v = g.user
<1> DEFINE e   == GrantEvent(a, g)
           new == Resolve(l, a, g)
<1>1. e \in Event /\ e.event = "grant" /\ \A b, v : IsFor(e, b, v) <=> b = a /\ v = g.user
  BY DEF GrantEvent, Grant, Event, IsFor
<1>2. a \in GlobalOnes <=> Kind(a) \in GlobalKinds
  BY DEF GlobalOnes
<1>3. a \in GlobalOnes =>
        \A v : IsGrantedTo(l, a, v) <=> HasHolder(l, a) /\ v = HolderUser(l, a)
  BY HolderIsGranted
<1>4. CASE Suppressed(l, a, g)
  <2>1. new = l
    <3>1. new = l \o << >>
      BY <1>4 DEF Resolve, Resolution
    <3> QED
      BY <3>1, ConcatEmptySeq
  <2> HIDE DEF new
  <2>2. Kind(a) \notin GlobalKinds => IsGrantedTo(l, a, g.user)
    BY <1>4 DEF Suppressed, GlobalKinds
  <2>3. Kind(a) = "GlobalRevocable" => HasHolder(l, a) /\ HolderUser(l, a) = g.user
    BY <1>4 DEF Suppressed
  <2>4. Kind(a) = "Global" => HasHolder(l, a)
    BY <1>4 DEF Suppressed
  <2>5. Kind(a) = "GlobalRevocable" => Kind(a) \in GlobalKinds
    BY DEF GlobalKinds
  <2>6. /\ \A b, v : b # a => (IsGrantedTo(new, b, v) <=> IsGrantedTo(l, b, v))
        /\ Kind(a) \notin GlobalKinds =>
             \A v : IsGrantedTo(new, a, v) <=> v = g.user \/ IsGrantedTo(l, a, v)
        /\ Kind(a) = "Global" =>
             IF HasHolder(l, a) THEN new = l
             ELSE \A v : IsGrantedTo(new, a, v) <=> v = g.user
        /\ Kind(a) = "GlobalRevocable" =>
             \A v : IsGrantedTo(new, a, v) <=> v = g.user
    BY <1>2, <1>3, <2>1, <2>2, <2>3, <2>4, <2>5
  <2> QED
    BY <2>6 DEF new
<1>5. CASE ~Suppressed(l, a, g) /\ ~Supersedes(l, a)
  <2>1. new = l \o << e >>
    BY <1>5 DEF Resolve, Resolution
  <2>2. \A b, v : IsGrantedTo(new, b, v) <=> (b = a /\ v = g.user) \/ IsGrantedTo(l, b, v)
    <3> HIDE DEF e, new
    <3> QED
      BY <1>1, <2>1, HoldersAfterGrant
  <2>3. Kind(a) \in GlobalKinds => ~HasHolder(l, a)
    BY <1>5 DEF Suppressed, Supersedes, GlobalKinds
  <2>4. /\ Kind(a) = "Global" => Kind(a) \in GlobalKinds
        /\ Kind(a) = "GlobalRevocable" => Kind(a) \in GlobalKinds
    BY DEF GlobalKinds
  <2> HIDE DEF new
  <2>5. /\ \A b, v : b # a => (IsGrantedTo(new, b, v) <=> IsGrantedTo(l, b, v))
        /\ Kind(a) \notin GlobalKinds =>
             \A v : IsGrantedTo(new, a, v) <=> v = g.user \/ IsGrantedTo(l, a, v)
        /\ Kind(a) = "Global" =>
             IF HasHolder(l, a) THEN new = l
             ELSE \A v : IsGrantedTo(new, a, v) <=> v = g.user
        /\ Kind(a) = "GlobalRevocable" =>
             \A v : IsGrantedTo(new, a, v) <=> v = g.user
    BY <1>2, <1>3, <2>2, <2>3, <2>4
  <2> QED
    BY <2>5 DEF new
<1>6. CASE ~Suppressed(l, a, g) /\ Supersedes(l, a)
  <2> DEFINE d == Revocation(l, a, HolderUser(l, a))
             m == l \o << d >>
  <2>1. Kind(a) = "GlobalRevocable" /\ HasHolder(l, a) /\ a \in GlobalOnes
    BY <1>2, <1>6 DEF Supersedes, GlobalKinds
  <2>2. /\ d \in Event /\ d.event = "revoke"
        /\ \A b, v : IsFor(d, b, v) <=> b = a /\ v = HolderUser(l, a)
    BY <2>1, HolderProperties DEF IsRevoke, IsFor
  <2>3. new = l \o << d, e >>
    BY <1>6 DEF Resolve, Resolution
  <2> HIDE DEF d, e, new
  <2>4. new = m \o << e >>
    <3>1. l \o << d, e >> = m \o << e >>
      BY <1>1, <2>2
    <3> QED
      BY <2>3, <3>1
  <2>5. m \in Seq(Event)
    BY <2>2, ExtendByOne
  <2>6. \A b, v : IsGrantedTo(m, b, v) <=>
                    ~(b = a /\ v = HolderUser(l, a)) /\ IsGrantedTo(l, b, v)
    BY <2>2, HoldersAfterRevoke
  <2> HIDE DEF m
  <2>7. \A b, v : IsGrantedTo(new, b, v) <=> (b = a /\ v = g.user) \/ IsGrantedTo(m, b, v)
    BY <1>1, <2>4, <2>5, HoldersAfterGrant
  <2>8. \A v : IsGrantedTo(l, a, v) <=> v = HolderUser(l, a)
    BY <1>3, <2>1
  <2>9. Kind(a) # "Global" /\ Kind(a) \in GlobalKinds
    BY <2>1 DEF GlobalKinds
  <2>10. /\ \A b, v : b # a => (IsGrantedTo(new, b, v) <=> IsGrantedTo(l, b, v))
         /\ Kind(a) \notin GlobalKinds =>
              \A v : IsGrantedTo(new, a, v) <=> v = g.user \/ IsGrantedTo(l, a, v)
         /\ Kind(a) = "Global" =>
              IF HasHolder(l, a) THEN new = l
              ELSE \A v : IsGrantedTo(new, a, v) <=> v = g.user
         /\ Kind(a) = "GlobalRevocable" =>
              \A v : IsGrantedTo(new, a, v) <=> v = g.user
    BY <2>6, <2>7, <2>8, <2>9
  <2> QED
    BY <2>10 DEF new
<1> QED
  BY <1>4, <1>5, <1>6

\* Pruning takes the given achievements and the meta-achievements from everyone,
\* and no other from anyone.
LEMMA PruneHolders ==
  ASSUME NEW l \in Seq(Event), NEW as
  PROVE  \A b, v : IsGrantedTo(Pruned(l, as), b, v) <=>
                     b \notin as \cup MetaAchievements /\ IsGrantedTo(l, b, v)
<1> DEFINE kept == KeptRows(l, as)
           new  == Pruned(l, as)
           Old(k) == NthOf(kept, k)
<1>1. /\ \A k \in DOMAIN new : Old(k) \in kept /\ new[k] = l[Old(k)]
      /\ \A i \in kept : \E k \in DOMAIN new : Old(k) = i
      /\ \A k, m \in DOMAIN new : k < m <=> Old(k) < Old(m)
      /\ \A k \in DOMAIN new : k \in Int
  <2>1. /\ Pruned(l, as) \in Seq(Event)
        /\ \A k \in DOMAIN Pruned(l, as) :
             /\ NthOf(KeptRows(l, as), k) \in KeptRows(l, as)
             /\ Pruned(l, as)[k] = l[NthOf(KeptRows(l, as), k)]
        /\ \A i \in KeptRows(l, as) :
             \E k \in DOMAIN Pruned(l, as) : NthOf(KeptRows(l, as), k) = i
        /\ \A k, m \in DOMAIN Pruned(l, as) :
             k < m <=> NthOf(KeptRows(l, as), k) < NthOf(KeptRows(l, as), m)
        /\ DOMAIN Pruned(l, as) = 1..Len(Pruned(l, as))
    BY PrunedProperties, ZenonT(60)
  <2>2. \A k \in DOMAIN Pruned(l, as) : k \in Int
    BY <2>1, LenProperties
  <2> QED
    BY <2>1, <2>2
<1>2. DOMAIN l = 1..Len(l) /\ Len(l) \in Nat
  BY LenProperties
<1>3. kept = {i \in DOMAIN l : l[i].ach \notin as \cup MetaAchievements}
  BY DEF KeptRows
<1> HIDE DEF kept, new, Old
<1>4. \A k, m \in DOMAIN new : k > m <=> Old(k) > Old(m)
  <2> SUFFICES ASSUME NEW k \in DOMAIN new, NEW m \in DOMAIN new
               PROVE  k > m <=> Old(k) > Old(m)
    OBVIOUS
  <2>1. Old(k) \in Nat /\ Old(m) \in Nat /\ k \in Int /\ m \in Int
    <3>1. \A i \in kept : i \in Nat
      BY <1>2, <1>3
    <3>2. Old(k) \in kept /\ Old(m) \in kept
      BY <1>1
    <3> QED
      BY <1>1, <3>1, <3>2
  <2>2. m < k <=> Old(m) < Old(k)
    BY <1>1
  <2> QED
    BY <2>1, <2>2
<1>5. ASSUME NEW k \in DOMAIN new
      PROVE  NotRevokedAfter(new, k) <=> NotRevokedAfter(l, Old(k))
  <2>1. new[k] = l[Old(k)] /\ Old(k) \in DOMAIN l
        /\ l[Old(k)].ach \notin as \cup MetaAchievements
    BY <1>1, <1>3
  <2>2. ASSUME ~NotRevokedAfter(new, k) PROVE ~NotRevokedAfter(l, Old(k))
    <3>1. PICK m \in DOMAIN new : /\ m > k /\ IsRevoke(new[m], new[k].ach)
                                  /\ new[m].user = new[k].user
      BY <2>2 DEF NotRevokedAfter
    <3>2. Old(m) \in DOMAIN l /\ Old(m) > Old(k) /\ new[m] = l[Old(m)]
      BY <1>1, <1>3, <1>4, <3>1
    <3> QED
      BY <2>1, <3>1, <3>2 DEF NotRevokedAfter
  <2>3. ASSUME ~NotRevokedAfter(l, Old(k)) PROVE ~NotRevokedAfter(new, k)
    <3>1. PICK j \in DOMAIN l : /\ j > Old(k) /\ IsRevoke(l[j], l[Old(k)].ach)
                                /\ l[j].user = l[Old(k)].user
      BY <2>3 DEF NotRevokedAfter
    <3>2. j \in kept
      BY <1>3, <2>1, <3>1 DEF IsRevoke
    <3>3. PICK m \in DOMAIN new : Old(m) = j
      BY <1>1, <3>2
    <3>4. m > k /\ new[m] = l[j]
      BY <1>1, <1>4, <3>1, <3>3
    <3> QED
      BY <2>1, <3>1, <3>4 DEF NotRevokedAfter
  <2> QED
    BY <2>2, <2>3
<1>6. ASSUME NEW b, NEW v
      PROVE  IsGrantedTo(new, b, v) <=>
               b \notin as \cup MetaAchievements /\ IsGrantedTo(l, b, v)
  <2>1. ASSUME IsGrantedTo(new, b, v)
        PROVE  b \notin as \cup MetaAchievements /\ IsGrantedTo(l, b, v)
    <3>1. PICK k \in DOMAIN new : /\ IsFor(new[k], b, v) /\ new[k].event = "grant"
                                  /\ NotRevokedAfter(new, k)
      BY <2>1 DEF IsGrantedTo
    <3>2. Old(k) \in kept /\ new[k] = l[Old(k)] /\ NotRevokedAfter(l, Old(k))
      BY <1>1, <1>5, <3>1
    <3> QED
      BY <1>3, <3>1, <3>2 DEF IsGrantedTo, IsFor
  <2>2. ASSUME b \notin as \cup MetaAchievements, IsGrantedTo(l, b, v)
        PROVE  IsGrantedTo(new, b, v)
    <3>1. PICK i \in DOMAIN l : /\ IsFor(l[i], b, v) /\ l[i].event = "grant"
                                /\ NotRevokedAfter(l, i)
      BY <2>2 DEF IsGrantedTo
    <3>2. i \in kept
      BY <1>3, <2>2, <3>1 DEF IsFor
    <3>3. PICK k \in DOMAIN new : Old(k) = i
      BY <1>1, <3>2
    <3>4. new[k] = l[i] /\ NotRevokedAfter(new, k)
      BY <1>1, <1>5, <3>1, <3>3
    <3> QED
      BY <3>1, <3>4 DEF IsGrantedTo
  <2> QED
    BY <2>1, <2>2
<1> QED
  BY <1>6 DEF new
-----------------------------------------------------------------------------
(***************************************************************************)
(* The meta-achievement.                                                   *)
(***************************************************************************)

\* What a user is counted for is a number.
LEMMA CountOfTyped ==
  ASSUME NEW l \in Seq(Event), NEW u
  PROVE  CountOf(l, u) \in Nat
<1> DEFINE S == {i \in Counted(l) : l[i].user = u}
<1>1. 1 \in Int /\ Len(l) \in Int /\ DOMAIN l = 1..Len(l)
  BY LenProperties
<1>2. S \subseteq 1..Len(l)
  BY <1>1 DEF Counted, ActiveGrants
<1> HIDE DEF S
<1>3. IsFiniteSet(S)
  BY <1>1, <1>2, FS_Interval, FS_Subset
<1>4. Cardinality(S) \in Nat
  BY <1>3, FS_CardinalityType
<1> QED
  BY <1>4 DEF S, CountOf

\* One user at most leads: ties go to the first.
LEMMA FarmerIsOne ==
  ASSUME NEW l \in Seq(Event), NEW u, NEW v, Farms(l, u), Farms(l, v)
  PROVE  u = v
<1>1. u \in Contributors(l) /\ v \in Contributors(l)
  BY DEF Farms
<1>2. \A w \in Contributors(l) : w \in Nat
  <2>1. \A i \in Counted(l) : i \in DOMAIN l
    BY DEF Counted, ActiveGrants
  <2>2. \A i \in DOMAIN l : l[i] \in Event
    BY LenProperties, ElementOfSeq
  <2> QED
    BY <2>1, <2>2, UserAssumption DEF Contributors, Event
<1>3. CountOf(l, u) \in Nat /\ CountOf(l, v) \in Nat
  BY CountOfTyped
<1>4. SUFFICES ASSUME u # v PROVE FALSE
  OBVIOUS
<1>5. CountOf(l, v) < CountOf(l, u) \/ (CountOf(l, v) = CountOf(l, u) /\ u < v)
  BY <1>1, <1>4 DEF Farms
<1>6. CountOf(l, u) < CountOf(l, v) \/ (CountOf(l, u) = CountOf(l, v) /\ v < u)
  BY <1>1, <1>4 DEF Farms
<1> QED
  BY <1>1, <1>2, <1>3, <1>5, <1>6

\* One more row of the meta-achievement leaves the counted grants alone.
LEMMA MetaRowCountsNothing ==
  ASSUME NEW l \in Seq(Event), NEW e \in Event, e.ach = Farmer
  PROVE  /\ Counted(l \o << e >>) = Counted(l)
         /\ \A i \in Counted(l) : (l \o << e >>)[i] = l[i]
<1> DEFINE n   == Len(l)
           new == l \o << e >>
<1>1. /\ n \in Nat /\ DOMAIN l = 1..n /\ DOMAIN new = 1..(n + 1)
      /\ \A i \in 1..n : new[i] = l[i]
      /\ new[n + 1] = e
  BY ExtendByOne
<1> HIDE DEF n, new
<1>2. ASSUME NEW i \in 1..n, l[i].ach # Farmer
      PROVE  NotRevokedAfter(new, i) <=> NotRevokedAfter(l, i)
  <2>1. \A j \in 1..(n + 1) : j \in 1..n \/ j = n + 1
    BY <1>1
  <2>2. ~IsRevoke(new[n + 1], new[i].ach)
    BY <1>1, <1>2 DEF IsRevoke
  <2>3. \A j \in 1..n : j \in 1..(n + 1)
    BY <1>1
  <2> QED
    BY <1>1, <1>2, <2>1, <2>2, <2>3 DEF NotRevokedAfter
<1>3. \A i : i \in Counted(new) <=> i \in Counted(l)
  <2>1. \A i \in 1..(n + 1) : new[i].ach # Farmer => i \in 1..n
    BY <1>1
  <2>2. \A i \in 1..n : i \in 1..(n + 1)
    BY <1>1
  <2> QED
    BY <1>1, <1>2, <2>1, <2>2 DEF Counted, ActiveGrants, MetaAchievements
<1>4. \A i \in Counted(l) : i \in 1..n
  BY <1>1 DEF Counted, ActiveGrants
<1> QED
  BY <1>1, <1>3, <1>4 DEF new

\* So the same user leads, for the same commit, with the same count.
LEMMA SameCountedSameFarmer ==
  ASSUME NEW l, NEW m, Counted(m) = Counted(l), \A i \in Counted(l) : m[i] = l[i]
  PROVE  FarmerGrants(m) = FarmerGrants(l)
<1>1. Contributors(m) = Contributors(l)
  BY DEF Contributors
<1>2. ASSUME NEW u PROVE CountOf(m, u) = CountOf(l, u)
  <2>1. {i \in Counted(m) : m[i].user = u} = {i \in Counted(l) : l[i].user = u}
    OBVIOUS
  <2> QED
    BY <2>1 DEF CountOf
<1>3. \A u : Farms(m, u) <=> Farms(l, u)
  BY <1>1, <1>2 DEF Farms
<1>4. \A u, i : IsLatestCounted(m, u, i) <=> IsLatestCounted(l, u, i)
  BY DEF IsLatestCounted
<1> QED
  BY <1>3, <1>4 DEF FarmerGrants, IsLatestCounted

\* Granting, moving or keeping the meta-achievement does not change who leads.
LEMMA FarmerGrantsStay ==
  ASSUME NEW l \in Seq(Event), NEW g \in Grant
  PROVE  FarmerGrants(Resolve(l, Farmer, g)) = FarmerGrants(l)
<1> DEFINE e == GrantEvent(Farmer, g)
           u == HolderUser(l, Farmer)
           d == Revocation(l, Farmer, u)
<1>1. Farmer \in AllAchievements /\ e \in Event /\ e.ach = Farmer
  BY DEF AllAchievements, MetaAchievements, GrantEvent, Grant, Event
<1>2. CASE Suppressed(l, Farmer, g)
  <2>1. Resolve(l, Farmer, g) = l
    BY <1>2 DEF Resolve, Resolution
  <2> QED
    BY <2>1
<1>3. CASE ~Suppressed(l, Farmer, g) /\ ~Supersedes(l, Farmer)
  <2>1. Resolve(l, Farmer, g) = l \o << e >>
    BY <1>3 DEF Resolve, Resolution
  <2> HIDE DEF e
  <2> QED
    BY <1>1, <2>1, MetaRowCountsNothing, SameCountedSameFarmer, ZenonT(60)
<1>4. CASE ~Suppressed(l, Farmer, g) /\ Supersedes(l, Farmer)
  <2>1. d \in Event /\ d.ach = Farmer
    BY <1>1, <1>4, HolderProperties DEF Supersedes, IsRevoke
  <2>2. Resolve(l, Farmer, g) = l \o << d, e >>
    BY <1>4 DEF Resolve, Resolution
  <2> HIDE DEF d, e
  <2>3. l \o << d, e >> = (l \o << d >>) \o << e >> /\ l \o << d >> \in Seq(Event)
    BY <1>1, <2>1
  <2>4. FarmerGrants(l \o << d >>) = FarmerGrants(l)
    BY <2>1, MetaRowCountsNothing, SameCountedSameFarmer
  <2>5. FarmerGrants((l \o << d >>) \o << e >>) = FarmerGrants(l \o << d >>)
    BY <1>1, <2>3, MetaRowCountsNothing, SameCountedSameFarmer
  <2> QED
    BY <2>2, <2>3, <2>4, <2>5
<1> QED
  BY <1>2, <1>3, <1>4

\* Once evaluated, the meta-achievement is with the user evaluate() named: evaluating
\* the log again appends nothing.
LEMMA FarmerSettles ==
  ASSUME NEW l \in Seq(Event), SingleHolder(l), NEW g \in FarmerGrants(l),
         SingleHolder(Resolve(l, Farmer, g))
  PROVE  LET new == Resolve(l, Farmer, g)
         IN  \A h \in FarmerGrants(new) : /\ h.user = g.user
                                          /\ Suppressed(new, Farmer, h)
<1> DEFINE new == Resolve(l, Farmer, g)
<1>1. g \in Grant /\ Farmer \in AllAchievements /\ Kind(Farmer) = "GlobalRevocable"
  BY DEF FarmerGrants, AllAchievements, MetaAchievements, Kind
<1>2. new \in Seq(Event) /\ FarmerGrants(new) = FarmerGrants(l)
  BY <1>1, ResolveTyped, FarmerGrantsStay
<1>3. IsGrantedTo(new, Farmer, g.user)
  BY <1>1, ResolveHolders
<1> HIDE DEF new
<1>4. HasHolder(new, Farmer) /\ g.user = HolderUser(new, Farmer)
  <2>1. Farmer \in GlobalOnes
    BY <1>1 DEF GlobalOnes, GlobalKinds
  <2> QED
    BY <1>2, <1>3, <2>1, HolderIsGranted DEF new
<1>5. ASSUME NEW h \in FarmerGrants(new) PROVE h.user = g.user
  BY <1>2, <1>5, FarmerIsOne DEF FarmerGrants
<1>6. \A h \in FarmerGrants(new) : Suppressed(new, Farmer, h)
  BY <1>1, <1>4, <1>5 DEF Suppressed
<1> QED
  BY <1>5, <1>6 DEF new
=============================================================================
