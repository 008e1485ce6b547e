--------------------------- MODULE ObserverEngineProofs ---------------------------
(***************************************************************************)
(* Theorems about the observer engine, for every history, tree, registry   *)
(* and number of failures: observers report what is true of a commit, and  *)
(* their reports come in the order of the registry.                        *)
(***************************************************************************)
EXTENDS ObserverEngine, EnumerationProofs, SequenceTheorems

-----------------------------------------------------------------------------
(***************************************************************************)
(* The invariant.                                                          *)
(***************************************************************************)
Adds(ch) == ch.kind = "Addition" /\ ch.entry \in CiFiles

Differs(ch) ==
  \/ ch.kind # "Modification"
  \/ ch.entry \in Submodules
  \/ ch.entry \in Files /\ Essence[ch.old] # Essence[ch.new]

\* What a diff observer that stands before change t remembers.  One that has
\* cancelled stands behind the last change: it has learned no less than all.
Learned(chs, o, s, t) ==
  LET seen == {i \in DOMAIN chs : i < t} IN
  /\ o = "CiConfig" => (s.found <=> \E i \in seen : Adds(chs[i]))
  /\ o = "EmptyCommit" => ~s.other /\ (s.found <=> seen # {})
  /\ o = "WhitespaceOnly" => /\ s.found <=> seen # {}
                             /\ s.other <=> \E i \in seen : Differs(chs[i])

IsRight(o) == result[o] <=> Holds(o, commit, BaseTree(commit))

\* The changes are those of the commit, the messages those of its observers.
ChangesFit ==
  changes = <<>> \/ (commit \in Commits /\ changes = ChangesBetween(BaseTree(commit), Tree[commit]))

MessageShape ==
  phase = "message" =>
    /\ commit \in Commits /\ changes = <<>>
    /\ data = <<CommitStart(commit)>>
    /\ \A o \in Observers : turn[o] \in IF o \in active THEN {0, 1} ELSE {Finished}

DiffShape ==
  phase = "diff" =>
    /\ commit \in Commits /\ ~IsMerge(commit)
    /\ changes = ChangesBetween(BaseTree(commit), Tree[commit])
    /\ data = <<CommitStart(commit)>> \o Collected(MessageObservers, result)
    /\ \A o \in Observers :
         turn[o] = Finished \/ (o \in Interested(active) /\ turn[o] \in 1 .. Len(changes) + 1)

ReportShape ==
  Reported =>
    /\ commit \in Commits
    /\ \E some \in SUBSET DiffObservers :
         /\ Interested(active) \subseteq some
         /\ data = <<CommitStart(commit)>> \o Collected(MessageObservers, result)
                     \o Collected(some, result) \o <<CommitComplete>>

\* What the observers that did not fail remember and have found.
MessageKnown ==
  phase = "message" =>
    \A o \in active \ spoiled : turn[o] = 1 =>
      /\ o \in MessageObservers => IsRight(o)
      /\ o = "EmptyCommit" => memory[o].other = IsMerge(commit)

DiffKnown ==
  phase = "diff" =>
    \A o \in active \ spoiled :
      /\ turn[o] = Finished => IsRight(o)
      /\ turn[o] # Finished => Learned(changes, o, memory[o], turn[o])

ReportKnown == Reported => \A o \in active \ spoiled : IsRight(o)

EngineInv ==
  /\ TypeOK /\ ChangesFit
  /\ MessageShape /\ DiffShape /\ ReportShape
  /\ MessageKnown /\ DiffKnown /\ ReportKnown

-----------------------------------------------------------------------------
(***************************************************************************)
(* The changes of a commit.                                                *)
(***************************************************************************)

\* Every entry that differs has its change, and there are no others.
LEMMA ChangesListed ==
  ASSUME NEW old, NEW new
  PROVE  LET chs    == ChangesBetween(old, new)
             differ == {e \in Entries : Content(old, e) # Content(new, e)}
         IN  /\ Len(chs) \in Nat /\ DOMAIN chs = 1..Len(chs)
             /\ \A i \in DOMAIN chs : \E e \in differ : chs[i] = Change(old, new, e)
             /\ \A e \in differ : \E i \in DOMAIN chs : chs[i] = Change(old, new, e)
<1> DEFINE chs    == ChangesBetween(old, new)
           differ == {e \in Entries : Content(old, e) # Content(new, e)}
           Nth(i) == Change(old, new, NthOf(differ, i))
<1>1. IsFiniteSet(Entries) /\ Entries \in SUBSET Int
  <2>1. IsFiniteSet({Folder[f] : f \in Files})
    <3> DEFINE all == {Folder[f] : f \in Files}
    <3>1. [f \in Files |-> Folder[f]] \in Surjection(Files, all)
      BY DEF Surjection
    <3> HIDE DEF all
    <3>2. IsFiniteSet(all)
      BY <3>1, TreeAssumption, FS_Surjection
    <3> QED
      BY <3>2 DEF all
  <2>2. IsFiniteSet(Folders)
    BY <2>1, FS_Subset DEF Folders
  <2>3. IsFiniteSet(Entries)
    BY <2>2, TreeAssumption, FS_Union DEF Entries
  <2>4. Entries \in SUBSET Int
    BY TreeAssumption DEF Entries, Folders
  <2> QED
    BY <2>3, <2>4
<1>2. differ \in SUBSET Int /\ IsFiniteSet(differ)
  <2>1. differ \subseteq Entries
    OBVIOUS
  <2> HIDE DEF differ
  <2> QED
    BY <1>1, <2>1, FS_Subset
<1>3. chs = [i \in 1..Cardinality(differ) |-> Nth(i)]
  BY DEF ChangesBetween
<1> HIDE DEF chs, differ
<1>4. /\ Cardinality(differ) \in Nat
      /\ \A e \in differ : RankIn(differ, e) \in 1..Cardinality(differ)
  BY <1>2, RankInFinite
<1>5. /\ \A k \in 1..Cardinality(differ) : NthOf(differ, k) \in differ
      /\ \A e \in differ : NthOf(differ, RankIn(differ, e)) = e
  BY <1>2, NthOfFinite
<1>6. DOMAIN chs = 1..Cardinality(differ) /\ \A i \in DOMAIN chs : chs[i] = Nth(i)
  BY <1>3
<1>7. Len(chs) \in Nat /\ DOMAIN chs = 1..Len(chs)
  <2> DEFINE made == {Nth(i) : i \in 1..Cardinality(differ)}
  <2>1. chs \in [1..Cardinality(differ) -> made]
    BY <1>3
  <2> HIDE DEF made
  <2>2. chs \in Seq(made)
    BY <1>4, <2>1, IsASeq
  <2> QED
    BY <2>2, LenProperties
<1>8. \A i \in DOMAIN chs : \E e \in differ : chs[i] = Change(old, new, e)
  BY <1>5, <1>6
<1>9. \A e \in differ : \E i \in DOMAIN chs : chs[i] = Change(old, new, e)
  BY <1>4, <1>5, <1>6
<1> QED
  BY <1>7, <1>8, <1>9 DEF chs, differ

\* A folder differs only if one of its files does.
LEMMA FolderDiffersByFile ==
  ASSUME NEW old, NEW new, NEW e, e \notin Files, Content(old, e) # Content(new, e)
  PROVE  \E f \in Files : Folder[f] = e /\ old[f] # new[f]
<1> SUFFICES ASSUME \A f \in Files : Folder[f] = e => old[f] = new[f]
             PROVE  Content(old, e) = Content(new, e)
  OBVIOUS
<1> DEFINE Inside(tree) == {f \in Files : Folder[f] = e /\ tree[f] # Absent}
<1>1. Inside(old) = Inside(new)
  OBVIOUS
<1>2. [f \in Inside(old) |-> old[f]] = [f \in Inside(new) |-> new[f]]
  BY <1>1
<1> QED
  BY <1>1, <1>2 DEF Content

\* A folder with a file in it is something.
LEMMA FolderThere ==
  ASSUME NEW tree \in [Files -> DOMAIN Essence \cup {Absent}],
         NEW f \in Files, tree[f] # Absent
  PROVE  Content(tree, Folder[f]) # Absent
<1> DEFINE inside == {g \in Files : Folder[g] = Folder[f] /\ tree[g] # Absent}
<1>1. Folder[f] \notin Files
  BY TreeAssumption
<1>2. f \in inside /\ inside \in SUBSET Files
  OBVIOUS
<1>3. [g \in inside |-> tree[g]] \in [inside -> DOMAIN Essence]
  OBVIOUS
<1>4. [g \in inside |-> tree[g]] # Absent
  <2> HIDE DEF inside
  <2> QED
    BY <1>2, <1>3, TreeAssumption
<1>5. Content(tree, Folder[f]) = [g \in inside |-> tree[g]]
  BY <1>1, <1>2 DEF Content
<1> QED
  BY <1>4, <1>5

\* What a diff observer finds in the changes of a commit is what holds of it.
LEMMA ChangesTell ==
  ASSUME NEW c \in Commits, ~IsMerge(c),
         NEW base \in [Files -> DOMAIN Essence \cup {Absent}],
         NEW chs, chs = ChangesBetween(base, Tree[c])
  PROVE  /\ Holds("CiConfig", c, base) <=> \E i \in DOMAIN chs : Adds(chs[i])
         /\ Holds("EmptyCommit", c, base) <=> DOMAIN chs = {}
         /\ Holds("WhitespaceOnly", c, base) <=>
              DOMAIN chs # {} /\ \A i \in DOMAIN chs : ~Differs(chs[i])
<1> DEFINE new     == Tree[c]
           differ  == {e \in Entries : Content(base, e) # Content(new, e)}
           touched == {f \in Files : base[f] # new[f]}
<1>1. new \in [Files -> DOMAIN Essence \cup {Absent}]
  BY TreeAssumption
<1>2. /\ \A i \in DOMAIN chs : \E e \in differ : chs[i] = Change(base, new, e)
      /\ \A e \in differ : \E i \in DOMAIN chs : chs[i] = Change(base, new, e)
  BY ChangesListed
<1>3. \A f \in Files : Content(base, f) = base[f] /\ Content(new, f) = new[f]
  BY DEF Content
<1>4. touched \subseteq differ
  BY <1>3 DEF Entries
<1>5. \A e \in differ : e \in Files => e \in touched
  BY <1>3
<1>6. \A e \in differ : e \notin Files => \E f \in touched : Folder[f] = e
  BY FolderDiffersByFile
<1>7. CiFiles \subseteq Files /\ Submodules \subseteq Files
  BY TreeAssumption
<1>8. \A e \in differ : LET ch == Change(base, new, e) IN
        /\ ch.entry = e /\ ch.old = Content(base, e) /\ ch.new = Content(new, e)
        /\ ch.kind = "Addition" <=> Content(base, e) = Absent
        /\ ch.kind = "Modification" <=> Content(base, e) # Absent /\ Content(new, e) # Absent
  <2> SUFFICES ASSUME NEW e \in differ
               PROVE  LET ch == Change(base, new, e) IN
                 /\ ch.entry = e /\ ch.old = Content(base, e) /\ ch.new = Content(new, e)
                 /\ ch.kind = "Addition" <=> Content(base, e) = Absent
                 /\ ch.kind = "Modification" <=>
                      Content(base, e) # Absent /\ Content(new, e) # Absent
    OBVIOUS
  <2> DEFINE ch == Change(base, new, e)
  <2>1. ch.entry = e /\ ch.old = Content(base, e) /\ ch.new = Content(new, e)
    BY DEF Change
  <2>2. ch.kind = CASE Content(base, e) = Absent -> "Addition"
                    [] Content(new, e) = Absent -> "Deletion"
                    [] OTHER -> "Modification"
    BY DEF Change
  <2> HIDE DEF ch
  <2>3. ch.kind = "Addition" <=> Content(base, e) = Absent
    <3>1. Content(base, e) # Content(new, e)
      OBVIOUS
    <3> QED
      BY <2>2, <3>1
  <2>4. ch.kind = "Modification" <=> Content(base, e) # Absent /\ Content(new, e) # Absent
    BY <2>2
  <2> QED
    BY <2>1, <2>3, <2>4, Zenon DEF ch
<1> HIDE DEF new
<1>9. Holds("CiConfig", c, base) <=> \E i \in DOMAIN chs : Adds(chs[i])
  <2>1. \A e \in differ : Adds(Change(base, new, e)) <=>
          e \in CiFiles /\ base[e] = Absent /\ new[e] # Absent
    BY <1>3, <1>7, <1>8 DEF Adds
  <2>2. \A f \in CiFiles : base[f] = Absent /\ new[f] # Absent => f \in differ
    BY <1>4, <1>7
  <2>3. (\E f \in CiFiles : base[f] = Absent /\ new[f] # Absent)
          <=> \E e \in differ : Adds(Change(base, new, e))
    <3> HIDE DEF differ
    <3> QED
      BY <2>1, <2>2
  <2>4. (\E e \in differ : Adds(Change(base, new, e))) <=> \E i \in DOMAIN chs : Adds(chs[i])
    <3> HIDE DEF differ
    <3> QED
      BY <1>2, Zenon
  <2>5. Holds("CiConfig", c, base) <=> \E f \in CiFiles : base[f] = Absent /\ new[f] # Absent
    BY DEF Holds, new
  <2> QED
    BY <2>3, <2>4, <2>5
<1>10. touched = {} <=> DOMAIN chs = {}
  <2>1. touched = {} <=> differ = {}
    BY <1>4, <1>5, <1>6
  <2> HIDE DEF differ, touched
  <2> QED
    BY <1>2, <2>1
<1>11. Holds("EmptyCommit", c, base) <=> DOMAIN chs = {}
  BY <1>10 DEF Holds, new
<1>12. Holds("WhitespaceOnly", c, base) <=>
         DOMAIN chs # {} /\ \A i \in DOMAIN chs : ~Differs(chs[i])
  <2> DEFINE Indented(f) == /\ f \notin Submodules
                            /\ base[f] # Absent /\ new[f] # Absent
                            /\ Essence[base[f]] = Essence[new[f]]
  <2>1. Holds("WhitespaceOnly", c, base) <=> touched # {} /\ \A f \in touched : Indented(f)
    BY DEF Holds, new
  <2>2. \A e \in differ : e \in Files => (~Differs(Change(base, new, e)) <=> Indented(e))
    BY <1>3, <1>8 DEF Differs
  <2>3. ASSUME \A f \in touched : Indented(f), NEW e \in differ, e \notin Files
        PROVE  ~Differs(Change(base, new, e))
    <3>1. PICK f \in touched : Folder[f] = e
      BY <1>6, <2>3
    <3>2. f \in Files /\ base[f] # Absent /\ new[f] # Absent
      BY <2>3, <3>1
    <3>3. Content(base, e) # Absent /\ Content(new, e) # Absent
      BY <1>1, <3>1, <3>2, FolderThere
    <3> QED
      BY <1>7, <1>8, <2>3, <3>3 DEF Differs
  <2> HIDE DEF Indented
  <2>4. (\A f \in touched : Indented(f)) <=> \A e \in differ : ~Differs(Change(base, new, e))
    <3>1. touched \subseteq Files
      OBVIOUS
    <3> HIDE DEF differ, touched
    <3> QED
      BY <1>4, <1>5, <2>2, <2>3, <3>1
  <2>5. (\A e \in differ : ~Differs(Change(base, new, e)))
          <=> \A i \in DOMAIN chs : ~Differs(chs[i])
    <3> HIDE DEF differ
    <3> QED
      BY <1>2, Zenon
  <2> QED
    BY <1>10, <2>1, <2>4, <2>5
<1> QED
  BY <1>9, <1>11, <1>12

-----------------------------------------------------------------------------
(***************************************************************************)
(* The messages of a commit.                                               *)
(***************************************************************************)
Message ==
  {CommitStart(c) : c \in Commits} \cup {Observation(o) : o \in Observers} \cup {CommitComplete}

LEMMA RegistryFacts ==
  /\ Len(Registered) \in Nat /\ DOMAIN Registered = 1..Len(Registered)
  /\ \A i \in DOMAIN Registered : Registered[i] \in Observers /\ Place(Registered[i]) = i
<1>1. Len(Registered) \in Nat /\ DOMAIN Registered = 1..Len(Registered)
  BY RegistryAssumption, LenProperties
<1>2. ASSUME NEW i \in DOMAIN Registered
      PROVE  Registered[i] \in Observers /\ Place(Registered[i]) = i
  BY RegistryAssumption DEF Observers, Place
<1> QED
  BY <1>1, <1>2

\* Collected has one observation of each observer that made one, in the order of
\* the registry.
LEMMA CollectedProperties ==
  ASSUME NEW S, NEW res
  PROVE  LET seen == Collected(S, res)
         IN  /\ seen \in Seq(Message)
             /\ \A k \in DOMAIN seen : seen[k].what \in S
             /\ \A o \in Observers :
                  (\E k \in DOMAIN seen : seen[k] = Observation(o)) <=> o \in S /\ res[o]
             /\ \A k, m \in DOMAIN seen : k < m => Place(seen[k].what) < Place(seen[m].what)
<1> DEFINE made == Reporting(S, res)
           Nth(k) == NthOf(made, k)
           seen == Collected(S, res)
           Top  == 1..Cardinality(made)
<1>1. \A i \in DOMAIN Registered : i \in made <=> Registered[i] \in S /\ res[Registered[i]]
  BY Zenon DEF Reporting
<1>2. Len(Registered) \in Nat /\ made \in SUBSET (1..Len(Registered))
  BY RegistryFacts DEF Reporting
<1>3. seen = [k \in Top |-> Observation(Registered[Nth(k)])]
  BY Zenon DEF Collected
<1> HIDE DEF made, seen
<1>4. Cardinality(made) \in Nat /\ \A i \in made : RankIn(made, i) \in Top
  BY <1>2, RankProperties
<1>5. /\ \A k \in Top : Nth(k) \in made
      /\ \A i \in made : NthOf(made, RankIn(made, i)) = i
      /\ \A k, m \in Top : k < m <=> Nth(k) < Nth(m)
  BY <1>2, NthProperties
<1>6. DOMAIN seen = Top /\ \A k \in Top : seen[k] = Observation(Registered[Nth(k)])
  BY <1>3
<1>7. seen \in Seq(Message)
  <2>1. seen \in [Top -> Message]
    BY <1>2, <1>3, <1>5, RegistryFacts DEF Message
  <2> QED
    BY <1>4, <2>1, IsASeq
<1>8. \A k \in Top : /\ Nth(k) \in DOMAIN Registered
                     /\ seen[k].what = Registered[Nth(k)]
                     /\ Place(seen[k].what) = Nth(k)
  <2> SUFFICES ASSUME NEW k \in Top
               PROVE  /\ Nth(k) \in DOMAIN Registered
                      /\ seen[k].what = Registered[Nth(k)]
                      /\ Place(seen[k].what) = Nth(k)
    OBVIOUS
  <2>1. Nth(k) \in DOMAIN Registered
    BY <1>2, <1>5, RegistryFacts
  <2>2. seen[k].what = Registered[Nth(k)]
    BY <1>6 DEF Observation
  <2> HIDE DEF Nth
  <2>3. Place(seen[k].what) = Nth(k)
    BY <2>1, <2>2, RegistryFacts
  <2> QED
    BY <2>1, <2>2, <2>3
<1>9. \A k \in Top : seen[k].what \in S
  BY <1>1, <1>5, <1>8
<1>10. ASSUME NEW o \in Observers
       PROVE  (\E k \in Top : seen[k] = Observation(o)) <=> o \in S /\ res[o]
  <2>1. PICK i \in DOMAIN Registered : o = Registered[i]
    BY DEF Observers
  <2>2. ASSUME o \in S /\ res[o] PROVE \E k \in Top : seen[k] = Observation(o)
    <3>1. i \in made
      BY <1>1, <2>1, <2>2
    <3> QED
      BY <1>4, <1>5, <1>6, <2>1, <3>1
  <2>3. ASSUME NEW k \in Top, seen[k] = Observation(o) PROVE o \in S /\ res[o]
    <3>1. o = Registered[Nth(k)]
      BY <1>8, <2>3 DEF Observation
    <3> QED
      BY <1>1, <1>5, <1>8, <3>1, Zenon
  <2> QED
    BY <2>2, <2>3
<1>11. \A k, m \in Top : k < m => Place(seen[k].what) < Place(seen[m].what)
  BY <1>5, <1>8
<1> QED
  BY <1>6, <1>7, <1>9, <1>10, <1>11 DEF seen

\* What is collected depends on the results of those it is collected from.
LEMMA CollectedAlike ==
  ASSUME NEW S, NEW res, NEW other, \A o \in S : res[o] = other[o]
  PROVE  Collected(S, res) = Collected(S, other)
<1>1. Reporting(S, res) = Reporting(S, other)
  BY DEF Reporting
<1> QED
  BY <1>1 DEF Collected

LEMMA NothingCollected ==
  ASSUME NEW res
  PROVE  Collected({}, res) = << >>
<1>1. Reporting({}, res) = {}
  BY DEF Reporting
<1>2. Cardinality(Reporting({}, res)) = 0
  BY <1>1, FS_EmptySet
<1> QED
  BY <1>2 DEF Collected

\* The places of a list made of a start, two parts and an end.
LEMMA FourParts ==
  ASSUME NEW T, NEW s \in T, NEW e \in T, NEW a \in Seq(T), NEW b \in Seq(T),
         NEW d, d = <<s>> \o a \o b \o <<e>>
  PROVE  /\ d \in Seq(T) /\ Len(d) = Len(a) + Len(b) + 2
         /\ d[1] = s /\ d[Len(d)] = e
         /\ \A i \in 1..Len(a) : d[i + 1] = a[i]
         /\ \A i \in 1..Len(b) : d[Len(a) + i + 1] = b[i]
<1> DEFINE first == <<s>>
           last  == <<e>>
           u == first \o a
           v == u \o b
<1>1. /\ first \in Seq(T) /\ Len(first) = 1 /\ first[1] = s
      /\ last \in Seq(T) /\ Len(last) = 1 /\ last[1] = e
  OBVIOUS
<1>2. Len(a) \in Nat /\ Len(b) \in Nat
  BY LenProperties
<1> HIDE DEF first, last
<1>3. /\ u \in Seq(T) /\ Len(u) = 1 + Len(a)
      /\ \A i \in 1..(1 + Len(a)) : u[i] = IF i <= 1 THEN first[i] ELSE a[i - 1]
  <2>1. /\ u \in Seq(T) /\ Len(u) = Len(first) + Len(a)
        /\ \A i \in 1..(Len(first) + Len(a)) :
             u[i] = IF i <= Len(first) THEN first[i] ELSE a[i - Len(first)]
    BY <1>1, ConcatProperties
  <2> HIDE DEF u
  <2> QED
    BY <1>1, <2>1
<1> HIDE DEF u
<1>4. /\ v \in Seq(T) /\ Len(v) = 1 + Len(a) + Len(b)
      /\ \A i \in 1..(1 + Len(a) + Len(b)) :
           v[i] = IF i <= 1 + Len(a) THEN u[i] ELSE b[i - (1 + Len(a))]
  <2>1. /\ v \in Seq(T) /\ Len(v) = Len(u) + Len(b)
        /\ \A i \in 1..(Len(u) + Len(b)) :
             v[i] = IF i <= Len(u) THEN u[i] ELSE b[i - Len(u)]
    BY <1>3, ConcatProperties
  <2> HIDE DEF v
  <2> QED
    BY <1>3, <2>1
<1> HIDE DEF v
<1>5. /\ d \in Seq(T) /\ Len(d) = 2 + Len(a) + Len(b)
      /\ \A i \in 1..(2 + Len(a) + Len(b)) :
           d[i] = IF i <= 1 + Len(a) + Len(b) THEN v[i] ELSE last[i - (1 + Len(a) + Len(b))]
  <2>1. d = v \o last
    BY DEF first, last, u, v
  <2>2. /\ d \in Seq(T) /\ Len(d) = Len(v) + Len(last)
        /\ \A i \in 1..(Len(v) + Len(last)) :
             d[i] = IF i <= Len(v) THEN v[i] ELSE last[i - Len(v)]
    BY <1>1, <1>4, <2>1, ConcatProperties, SMTT(40)
  <2>3. (1 + Len(a) + Len(b)) + 1 = 2 + Len(a) + Len(b)
    BY <1>2
  <2> QED
    BY <1>1, <1>4, <2>2, <2>3
<1>6. d[1] = s
  BY <1>1, <1>2, <1>3, <1>4, <1>5
<1>7. d[Len(d)] = e
  <2>1. (2 + Len(a) + Len(b)) - (1 + Len(a) + Len(b)) = 1
    BY <1>2
  <2> QED
    BY <1>1, <1>2, <1>5, <2>1
<1>8. ASSUME NEW i \in 1..Len(a) PROVE d[i + 1] = a[i]
  BY <1>2, <1>3, <1>4, <1>5
<1>9. ASSUME NEW i \in 1..Len(b) PROVE d[Len(a) + i + 1] = b[i]
  BY <1>2, <1>3, <1>4, <1>5
<1> QED
  BY <1>2, <1>5, <1>6, <1>7, <1>8, <1>9

-----------------------------------------------------------------------------
(***************************************************************************)
(* What an observer does with a commit.                                    *)
(***************************************************************************)
Flags == [found : BOOLEAN, other : BOOLEAN]

LEMMA BaseTreeTyped ==
  ASSUME NEW c \in Commits
  PROVE  /\ BaseTree(c) \in [Files -> DOMAIN Essence \cup {Absent}]
         /\ BaseTree(c) = IF Cut(c) \/ Parent(c) = Absent THEN EmptyTree ELSE Tree[Parent(c)]
<1>1. EmptyTree \in [Files -> DOMAIN Essence \cup {Absent}]
  BY DEF EmptyTree
<1>2. Parent(c) # Absent => Parent(c) \in Commits
  <2>1. Parents[c] \in Seq(Commits)
    BY HistoryAssumption
  <2>2. Parents[c] # <<>> => 1 \in 1..Len(Parents[c])
    BY <2>1, EmptySeq
  <2>3. Parents[c] # <<>> => Parents[c][1] \in Commits
    BY <2>1, <2>2, ElementOfSeq
  <2> QED
    BY <2>3 DEF Parent
<1> QED
  BY <1>1, <1>2, TreeAssumption DEF BaseTree, Cut

\* on_diff_start, on_diff_change and on_diff_end keep to the fields.
LEMMA FlagsTyped ==
  ASSUME NEW o \in DiffObservers, NEW s \in Flags
  PROVE  /\ Started(o, s) \in Flags
         /\ \A c \in Commits : Noted(o, s, c) \in Flags
         /\ Concluded(o, s) \in BOOLEAN
         /\ \A ch : OnChange(o, s, ch).s \in Flags
<1>1. Started(o, s) \in Flags
  BY DEF Flags, Started, Fresh
<1>2. ASSUME NEW c \in Commits PROVE Noted(o, s, c) \in Flags
  <2>1. IsMerge(c) \in BOOLEAN
    BY DEF IsMerge
  <2> QED
    BY <2>1 DEF Flags, Noted
<1>3. Concluded(o, s) \in BOOLEAN
  BY DEF Flags, Concluded, DiffObservers
<1>4. ASSUME NEW ch PROVE OnChange(o, s, ch).s \in Flags
  <2>1. CASE o = "CiConfig"
    BY <2>1 DEF Flags, OnChange, CiConfigChange
  <2>2. CASE o = "EmptyCommit"
    BY <2>2 DEF Flags, OnChange, EmptyCommitChange
  <2>3. CASE o = "WhitespaceOnly"
    BY <2>3 DEF Flags, OnChange, WhitespaceOnlyChange
  <2> QED
    BY <2>1, <2>2, <2>3 DEF DiffObservers
<1> QED
  BY <1>1, <1>2, <1>3, <1>4

\* Of a merge no diff observer reports anything, as it should.
LEMMA MergesAreSilent ==
  ASSUME NEW o \in DiffObservers, NEW s \in Flags, NEW c \in Commits, NEW base,
         IsMerge(c), o = "EmptyCommit" => s.other = IsMerge(c)
  PROVE  ~Concluded(o, Started(o, s)) /\ ~Holds(o, c, base)
<1>1. ~Concluded(o, Started(o, s))
  BY DEF Flags, Started, Concluded, Fresh, DiffObservers
<1>2. ~Holds(o, c, base)
  BY DEF Holds, DiffObservers
<1> QED
  BY <1>1, <1>2

LEMMA ChangesAreList ==
  ASSUME ChangesFit
  PROVE  Len(changes) \in Nat /\ DOMAIN changes = 1..Len(changes)
<1>1. CASE changes = <<>>
  BY <1>1
<1>2. CASE changes = ChangesBetween(BaseTree(commit), Tree[commit])
  BY <1>2, ChangesListed
<1> QED
  BY <1>1, <1>2 DEF ChangesFit

\* Before the first change nothing is learned.
LEMMA StartLearned ==
  ASSUME NEW chs, Len(chs) \in Nat, DOMAIN chs = 1..Len(chs), NEW o \in DiffObservers,
         NEW s \in Flags, o = "EmptyCommit" => s.other = FALSE
  PROVE  Learned(chs, o, Started(o, s), 1)
<1>1. {i \in DOMAIN chs : i < 1} = {}
  OBVIOUS
<1>2. Started(o, s).found = FALSE /\ Started(o, s).other = FALSE
  BY DEF Started, Fresh, Flags
<1> QED
  BY <1>1, <1>2 DEF Learned

\* A turn of the loop teaches an observer the change it looks at, and one that
\* cancels has nothing to learn from the others.
LEMMA TurnLearns ==
  ASSUME ChangesFit, NEW o \in DiffObservers, NEW s \in Flags,
         NEW t \in DOMAIN changes, Learned(changes, o, s, t)
  PROVE  LET step == OnChange(o, s, changes[t])
         IN  Learned(changes, o, step.s, IF step.stop THEN Len(changes) + 1 ELSE t + 1)
<1>1. Len(changes) \in Nat /\ DOMAIN changes = 1..Len(changes)
  BY ChangesAreList
<1> DEFINE ch      == changes[t]
           step    == OnChange(o, s, ch)
           Seen(n) == {i \in DOMAIN changes : i < n}
           next    == IF step.stop THEN Len(changes) + 1 ELSE t + 1
<1>2. /\ t \in Seen(t + 1) /\ t \in Seen(Len(changes) + 1)
      /\ Seen(t + 1) = Seen(t) \cup {t}
      /\ Seen(t) \subseteq Seen(Len(changes) + 1)
  BY <1>1
<1> HIDE DEF Seen
<1>3. CASE o = "CiConfig"
  <2>1. s.found <=> \E i \in Seen(t) : Adds(changes[i])
    BY <1>3 DEF Learned, Seen
  <2>2. step = CiConfigChange(s, ch)
    BY <1>3 DEF OnChange
  <2>3. step.s.found <=> \E i \in Seen(next) : Adds(changes[i])
    <3>1. CASE s.found
      BY <1>2, <2>1, <2>2, <3>1 DEF CiConfigChange
    <3>2. CASE ~s.found /\ Adds(ch)
      <4>1. step.stop = TRUE /\ step.s.found = TRUE
        BY <2>2, <3>2 DEF CiConfigChange, Adds, Flags
      <4> QED
        BY <1>2, <3>2, <4>1
    <3>3. CASE ~s.found /\ ~Adds(ch)
      <4>1. step.stop = FALSE /\ step.s = s
        BY <2>2, <3>3 DEF CiConfigChange, Adds, Flags
      <4> QED
        BY <1>2, <2>1, <3>3, <4>1
    <3> QED
      BY <3>1, <3>2, <3>3
  <2> HIDE DEF step, next
  <2> QED
    BY <1>3, <2>3 DEF Learned, Seen, step, next
<1>4. CASE o = "EmptyCommit"
  <2>1. s.other = FALSE
    BY <1>4 DEF Learned, Flags
  <2>2. step = EmptyCommitChange(s, ch)
    BY <1>4 DEF OnChange
  <2>3. step.stop = TRUE /\ step.s.found = TRUE /\ step.s.other = FALSE
    BY <2>1, <2>2 DEF EmptyCommitChange, Flags
  <2>4. Seen(next) # {}
    BY <1>2, <2>3
  <2> HIDE DEF step, next
  <2> QED
    BY <1>4, <2>3, <2>4 DEF Learned, Seen, step, next
<1>5. CASE o = "WhitespaceOnly"
  <2>1. s.other <=> \E i \in Seen(t) : Differs(changes[i])
    BY <1>5 DEF Learned, Seen
  <2>2. step = WhitespaceOnlyChange(s, ch)
    BY <1>5 DEF OnChange
  <2>3. /\ step.s.found = TRUE
        /\ step.stop <=> Differs(ch)
        /\ step.s.other <=> s.other \/ Differs(ch)
    <3>1. step = [s |-> [found |-> TRUE, other |-> s.other \/ Differs(ch)],
                  stop |-> Differs(ch)]
      BY <2>2, Zenon DEF WhitespaceOnlyChange, Differs
    <3>2. \A a, b, c : LET r == [s |-> [found |-> a, other |-> b], stop |-> c]
                      IN  r.s.found = a /\ r.s.other = b /\ r.stop = c
      OBVIOUS
    <3> HIDE DEF step
    <3> QED
      BY <3>1, <3>2, Zenon
  <2>4. step.s.other <=> \E i \in Seen(next) : Differs(changes[i])
    <3>1. CASE Differs(ch)
      BY <1>2, <2>3, <3>1
    <3>2. CASE ~Differs(ch)
      <4>1. next = t + 1
        BY <2>3, <3>2
      <4> HIDE DEF step, next
      <4> QED
        BY <1>2, <2>1, <2>3, <3>2, <4>1
    <3> QED
      BY <3>1, <3>2
  <2>5. Seen(next) # {}
    BY <1>2
  <2> HIDE DEF step, next
  <2> QED
    BY <1>5, <2>3, <2>4, <2>5 DEF Learned, Seen, step, next
<1> QED
  BY <1>3, <1>4, <1>5 DEF DiffObservers

\* Whoever has learned all there is concludes what holds of the commit.
LEMMA AllLearned ==
  ASSUME commit \in Commits, ~IsMerge(commit),
         changes = ChangesBetween(BaseTree(commit), Tree[commit]),
         NEW o \in DiffObservers, NEW s \in Flags, Learned(changes, o, s, Len(changes) + 1)
  PROVE  Concluded(o, s) <=> Holds(o, commit, BaseTree(commit))
<1>1. Len(changes) \in Nat /\ DOMAIN changes = 1..Len(changes)
  BY ChangesListed
<1>2. {i \in DOMAIN changes : i < Len(changes) + 1} = DOMAIN changes
  BY <1>1
<1>3. BaseTree(commit) \in [Files -> DOMAIN Essence \cup {Absent}]
  BY BaseTreeTyped
<1>4. CASE o = "CiConfig"
  <2>1. s.found <=> \E i \in DOMAIN changes : Adds(changes[i])
    BY <1>2, <1>4 DEF Learned
  <2>2. Holds(o, commit, BaseTree(commit)) <=> \E i \in DOMAIN changes : Adds(changes[i])
    BY <1>3, <1>4, ChangesTell
  <2>3. Concluded(o, s) <=> s.found
    BY <1>4 DEF Concluded
  <2> QED
    BY <2>1, <2>2, <2>3
<1>5. CASE o = "EmptyCommit"
  <2>1. ~s.other /\ (s.found <=> DOMAIN changes # {})
    BY <1>2, <1>5 DEF Learned
  <2>2. Holds(o, commit, BaseTree(commit)) <=> DOMAIN changes = {}
    BY <1>3, <1>5, ChangesTell
  <2>3. Concluded(o, s) <=> ~s.other /\ ~s.found
    BY <1>5 DEF Concluded
  <2> QED
    BY <2>1, <2>2, <2>3
<1>6. CASE o = "WhitespaceOnly"
  <2>1. /\ s.found <=> DOMAIN changes # {}
        /\ s.other <=> \E i \in DOMAIN changes : Differs(changes[i])
    BY <1>2, <1>6 DEF Learned
  <2>2. Holds(o, commit, BaseTree(commit)) <=>
          DOMAIN changes # {} /\ \A i \in DOMAIN changes : ~Differs(changes[i])
    BY <1>3, <1>6, ChangesTell
  <2>3. Concluded(o, s) <=> s.found /\ ~s.other
    BY <1>6 DEF Concluded
  <2> QED
    BY <2>1, <2>2, <2>3
<1> QED
  BY <1>4, <1>5, <1>6 DEF DiffObservers

-----------------------------------------------------------------------------
(***************************************************************************)
(* Every step keeps the invariant.                                         *)
(***************************************************************************)
LEMMA StartsRight == Init => EngineInv
<1> SUFFICES ASSUME Init PROVE EngineInv
  OBVIOUS
<1>1. phase = "idle" /\ data = <<>> /\ changes = <<>>
  BY DEF Init
<1>2. TypeOK
  <2>1. Fresh \in Flags /\ Len(changes) + 1 = 1
    BY <1>1 DEF Fresh, Flags
  <2>2. memory \in [DiffObservers -> Flags]
    BY <2>1 DEF Init
  <2>3. turn \in [Observers -> {Finished} \cup 0 .. Len(changes) + 1]
    BY DEF Init
  <2>4. faults \in 0..MaxFaults
    BY BoundAssumption DEF Init
  <2> QED
    BY <2>2, <2>3, <2>4 DEF Init, TypeOK, Flags
<1> QED
  BY <1>1, <1>2 DEF EngineInv, ChangesFit, MessageShape, DiffShape, ReportShape, Reported,
                    MessageKnown, DiffKnown, ReportKnown

LEMMA RetiringKeeps ==
  ASSUME EngineInv, NEW needed \in SUBSET active, RetireAllExcept(needed)
  PROVE  EngineInv'
<1>1. /\ phase = "idle" /\ phase' = "idle" /\ active' \subseteq active
      /\ UNCHANGED <<missing, commit, changes, memory, turn, result, data, done, spoiled, faults>>
  BY DEF RetireAllExcept
<1>2. TypeOK' /\ ChangesFit'
  BY <1>1 DEF EngineInv, TypeOK, ChangesFit, BaseTree
<1>3. MessageShape' /\ DiffShape' /\ MessageKnown' /\ DiffKnown'
  BY <1>1 DEF MessageShape, DiffShape, MessageKnown, DiffKnown
<1>4. ReportShape'
  <2>1. Interested(active') \subseteq Interested(active)
    BY <1>1 DEF Interested
  <2> QED
    BY <1>1, <2>1 DEF EngineInv, ReportShape, Reported
<1>5. ReportKnown'
  BY <1>1 DEF EngineInv, ReportKnown, Reported, IsRight, BaseTree
<1> QED
  BY <1>2, <1>3, <1>4, <1>5 DEF EngineInv

LEMMA BeginKeeps ==
  ASSUME EngineInv, NEW c \in Commits, Begin(c)
  PROVE  EngineInv'
<1>1. /\ phase' = "message" /\ commit' = c /\ data' = <<CommitStart(c)>> /\ changes' = <<>>
      /\ turn' = [o \in Observers |-> IF o \in active THEN 0 ELSE Finished]
      /\ result' = [o \in Observers |-> FALSE]
      /\ UNCHANGED <<active, missing, memory, faults>>
  BY DEF Begin, Repository
<1>2. TypeOK'
  <2>1. turn' \in [Observers -> {Finished} \cup 0 .. Len(changes') + 1]
    BY <1>1
  <2> QED
    BY <1>1, <2>1 DEF EngineInv, TypeOK, Begin
<1>3. MessageShape'
  <2>1. \A o \in Observers : turn'[o] \in IF o \in active' THEN {0, 1} ELSE {Finished}
    BY <1>1
  <2> QED
    BY <1>1, <2>1 DEF MessageShape
<1>4. ChangesFit' /\ DiffShape' /\ ReportShape' /\ DiffKnown' /\ ReportKnown'
  BY <1>1 DEF ChangesFit, DiffShape, ReportShape, DiffKnown, ReportKnown, Reported
<1>5. MessageKnown'
  <2>1. \A o \in active : turn'[o] = 0
    BY <1>1 DEF EngineInv, TypeOK
  <2> QED
    BY <1>1, <2>1 DEF MessageKnown
<1> QED
  BY <1>2, <1>3, <1>4, <1>5 DEF EngineInv

LEMMA TakingATurn ==
  ASSUME EngineInv, NEW o \in Observers, phase = "message", phase' = "message", turn[o] = 0,
         turn' = [turn EXCEPT ![o] = 1], UNCHANGED <<active, missing, commit, changes, data>>
  PROVE  /\ ChangesFit' /\ MessageShape' /\ DiffShape' /\ ReportShape'
         /\ DiffKnown' /\ ReportKnown'
<1>1. MessageShape'
  <2>1. \A p \in Observers : turn'[p] \in IF p \in active THEN {0, 1} ELSE {Finished}
    BY DEF EngineInv, MessageShape, TypeOK, Finished
  <2> QED
    BY <2>1 DEF EngineInv, MessageShape
<1>2. ChangesFit'
  BY DEF EngineInv, ChangesFit, BaseTree
<1>3. DiffShape' /\ ReportShape' /\ DiffKnown' /\ ReportKnown'
  BY DEF DiffShape, ReportShape, DiffKnown, ReportKnown, Reported
<1> QED
  BY <1>1, <1>2, <1>3

LEMMA OnCommitKeeps ==
  ASSUME EngineInv, NEW o \in Observers, OnCommit(o)
  PROVE  EngineInv'
<1>1. /\ phase = "message" /\ phase' = "message" /\ turn[o] = 0
      /\ turn' = [turn EXCEPT ![o] = 1]
      /\ UNCHANGED <<active, missing, commit, changes, data, done, spoiled, faults>>
  BY DEF OnCommit, Repository
<1>2. CASE o \in DiffObservers
  <2>1. memory' = [memory EXCEPT ![o] = Noted(o, @, commit)] /\ result' = result
    BY <1>2 DEF OnCommit
  <2>2. commit \in Commits /\ memory[o] \in Flags /\ memory \in [DiffObservers -> Flags]
    BY <1>1, <1>2 DEF EngineInv, MessageShape, TypeOK, Flags
  <2>3. memory' \in [DiffObservers -> Flags]
    BY <1>2, <2>1, <2>2, FlagsTyped
  <2>4. memory'[o] = Noted(o, memory[o], commit)
        /\ \A p \in DiffObservers \ {o} : memory'[p] = memory[p]
    BY <1>2, <2>1, <2>2
  <2>5. o = "EmptyCommit" => memory'[o].other = IsMerge(commit)
    BY <2>2, <2>4 DEF Noted, Flags
  <2>6. TypeOK'
    <3>1. turn' \in [Observers -> {Finished} \cup 0 .. Len(changes') + 1]
      BY <1>1 DEF EngineInv, TypeOK, MessageShape
    <3> QED
      BY <1>1, <2>1, <2>3, <3>1 DEF EngineInv, TypeOK, Flags
  <2>7. MessageKnown'
    <3> SUFFICES ASSUME NEW p \in active \ spoiled, turn'[p] = 1
                 PROVE  /\ p \in MessageObservers => IsRight(p)'
                        /\ p = "EmptyCommit" => memory'[p].other = IsMerge(commit)
      BY <1>1 DEF MessageKnown
    <3>1. p \in Observers
      BY DEF EngineInv, TypeOK
    <3>2. CASE p = o
      BY <1>2, <2>5, <3>2 DEF MessageObservers
    <3>3. CASE p # o
      <4>1. turn[p] = 1
        BY <1>1, <3>1, <3>3 DEF EngineInv, TypeOK
      <4>2. /\ p \in MessageObservers => IsRight(p)
            /\ p = "EmptyCommit" => memory[p].other = IsMerge(commit)
        BY <1>1, <4>1 DEF EngineInv, MessageKnown
      <4>3. IsRight(p)' <=> IsRight(p)
        BY <1>1, <2>1 DEF IsRight, BaseTree
      <4>4. p = "EmptyCommit" => memory'[p] = memory[p]
        BY <2>4, <3>3 DEF DiffObservers
      <4> QED
        BY <4>2, <4>3, <4>4
    <3> QED
      BY <3>2, <3>3
  <2> QED
    BY <1>1, <2>6, <2>7, TakingATurn DEF EngineInv
<1>3. CASE o \notin DiffObservers
  <2>1. memory' = memory /\ result' = [result EXCEPT ![o] = commit \in Remarkable[o]]
    BY <1>3 DEF OnCommit
  <2>2. TypeOK'
    <3>1. turn' \in [Observers -> {Finished} \cup 0 .. Len(changes') + 1]
      BY <1>1 DEF EngineInv, TypeOK, MessageShape
    <3>2. result' \in [Observers -> BOOLEAN]
      BY <2>1 DEF EngineInv, TypeOK
    <3> QED
      BY <1>1, <2>1, <3>1, <3>2 DEF EngineInv, TypeOK
  <2>3. MessageKnown'
    <3> SUFFICES ASSUME NEW p \in active \ spoiled, turn'[p] = 1
                 PROVE  /\ p \in MessageObservers => IsRight(p)'
                        /\ p = "EmptyCommit" => memory'[p].other = IsMerge(commit)
      BY <1>1 DEF MessageKnown
    <3>1. p \in Observers
      BY DEF EngineInv, TypeOK
    <3>2. CASE p = o
      <4>1. result'[o] <=> commit \in Remarkable[o]
        BY <2>1 DEF EngineInv, TypeOK
      <4>2. Holds(o, commit, BaseTree(commit)) <=> commit \in Remarkable[o]
        BY <1>3 DEF Holds, DiffObservers
      <4>3. BaseTree(commit)' = BaseTree(commit)
        BY <1>1 DEF BaseTree
      <4> QED
        BY <1>1, <1>3, <3>2, <4>1, <4>2, <4>3 DEF IsRight, DiffObservers
    <3>3. CASE p # o
      <4>1. turn[p] = 1
        BY <1>1, <3>1, <3>3 DEF EngineInv, TypeOK
      <4>2. /\ p \in MessageObservers => IsRight(p)
            /\ p = "EmptyCommit" => memory[p].other = IsMerge(commit)
        BY <1>1, <4>1 DEF EngineInv, MessageKnown
      <4>3. result'[p] = result[p]
        BY <2>1, <3>1, <3>3 DEF EngineInv, TypeOK
      <4>4. IsRight(p)' <=> IsRight(p)
        BY <1>1, <4>3 DEF IsRight, BaseTree
      <4> QED
        BY <2>1, <4>2, <4>4
    <3> QED
      BY <3>2, <3>3
  <2> QED
    BY <1>1, <2>2, <2>3, TakingATurn DEF EngineInv
<1> QED
  BY <1>2, <1>3

LEMMA OnCommitFailsKeeps ==
  ASSUME EngineInv, NEW o \in Observers, OnCommitFails(o)
  PROVE  EngineInv'
<1>1. /\ phase = "message" /\ phase' = "message" /\ turn[o] = 0
      /\ turn' = [turn EXCEPT ![o] = 1]
      /\ spoiled' = spoiled \cup {o}
      /\ UNCHANGED <<active, missing, commit, changes, memory, result, data, done>>
  BY DEF OnCommitFails, Repository
<1>2. TypeOK'
  <2>1. turn' \in [Observers -> {Finished} \cup 0 .. Len(changes') + 1]
    BY <1>1 DEF EngineInv, TypeOK, MessageShape
  <2>2. faults' \in 0..MaxFaults
    BY BoundAssumption DEF EngineInv, TypeOK, OnCommitFails
  <2> QED
    BY <1>1, <2>1, <2>2 DEF EngineInv, TypeOK
<1>3. MessageKnown'
  <2> SUFFICES ASSUME NEW p \in active \ spoiled, p # o, turn'[p] = 1
               PROVE  /\ p \in MessageObservers => IsRight(p)'
                      /\ p = "EmptyCommit" => memory'[p].other = IsMerge(commit)
    BY <1>1 DEF MessageKnown
  <2>1. turn[p] = 1
    BY <1>1 DEF EngineInv, TypeOK
  <2>2. IsRight(p)' <=> IsRight(p)
    BY <1>1 DEF IsRight, BaseTree
  <2> QED
    BY <1>1, <2>1, <2>2 DEF EngineInv, MessageKnown
<1> QED
  BY <1>1, <1>2, <1>3, TakingATurn DEF EngineInv

\* Who has not failed knows, once all have seen the commit, what it needs to know.
LEMMA MessagesDone ==
  ASSUME EngineInv, AfterMessages, NEW o \in active \ spoiled
  PROVE  /\ o \in Observers /\ commit \in Commits /\ changes = <<>>
         /\ o \in MessageObservers => IsRight(o)
         /\ o = "EmptyCommit" => memory[o].other = IsMerge(commit)
         /\ o \in DiffObservers => memory[o] \in Flags
<1>1. phase = "message" /\ turn[o] = 1 /\ o \in Observers
  BY DEF AfterMessages, EngineInv, TypeOK
<1>2. memory \in [DiffObservers -> Flags]
  BY DEF EngineInv, TypeOK, Flags
<1> QED
  BY <1>1, <1>2 DEF EngineInv, MessageShape, MessageKnown

\* No diff observer is left: the commit is complete.
LEMMA NoDiffKeeps ==
  ASSUME EngineInv, AfterMessages, Interested(active) = {}
  PROVE  EngineInv'
<1>1. /\ phase' = "idle" /\ turn' = [o \in Observers |-> Finished]
      /\ data' = data \o Collected(MessageObservers, result) \o <<CommitComplete>>
      /\ UNCHANGED <<active, missing, commit, changes, memory, result, done, spoiled, faults>>
  <2>1. active \cap DiffObservers = {}
    BY DEF Interested
  <2>2. [o \in Observers |-> IF o \in active \cap DiffObservers THEN 1 ELSE Finished]
          = [o \in Observers |-> Finished]
    BY <2>1
  <2> QED
    BY <2>2 DEF AfterMessages, Complete, Repository
<1>2. commit \in Commits /\ data = <<CommitStart(commit)>>
  BY DEF EngineInv, MessageShape, AfterMessages
<1>3. TypeOK' /\ ChangesFit' /\ MessageShape' /\ DiffShape' /\ MessageKnown' /\ DiffKnown'
  BY <1>1 DEF EngineInv, TypeOK, ChangesFit, BaseTree, MessageShape, DiffShape, MessageKnown,
              DiffKnown
<1>4. ReportShape'
  <2> DEFINE seen == Collected(MessageObservers, result)
             most == <<CommitStart(commit)>> \o seen
  <2>1. seen \in Seq(Message) /\ <<CommitStart(commit)>> \in Seq(Message)
    BY <1>2, CollectedProperties DEF Message
  <2>2. most \in Seq(Message)
    BY <2>1, ConcatProperties
  <2>3. most \o Collected({}, result) = most
    BY <2>2, NothingCollected, ConcatEmptySeq
  <2>4. data' = most \o Collected({}, result) \o <<CommitComplete>>
    BY <1>1, <1>2, <2>3
  <2> QED
    BY <1>1, <1>2, <2>4 DEF ReportShape
<1>5. ReportKnown'
  <2> SUFFICES ASSUME NEW o \in active \ spoiled PROVE IsRight(o)'
    BY <1>1 DEF ReportKnown
  <2>1. o \in MessageObservers
    BY MessagesDone DEF MessageObservers, Interested
  <2>2. IsRight(o)
    BY <2>1, MessagesDone
  <2> QED
    BY <1>1, <2>2 DEF IsRight, BaseTree
<1> QED
  BY <1>3, <1>4, <1>5 DEF EngineInv

\* A merge is complete without a diff.
LEMMA MergeKeeps ==
  ASSUME EngineInv, AfterMessages, Interested(active) # {}, IsMerge(commit)
  PROVE  EngineInv'
<1> DEFINE ready == [o \in DiffObservers |->
                       IF o \in active THEN Started(o, memory[o]) ELSE memory[o]]
           some == Interested(active)
<1>1. /\ phase' = "idle" /\ turn' = [o \in Observers |-> Finished]
      /\ memory' = ready
      /\ result' = [o \in Observers |-> IF o \in some THEN Concluded(o, ready[o]) ELSE result[o]]
      /\ data' = data \o (Collected(MessageObservers, result) \o Collected(some, result'))
                      \o <<CommitComplete>>
      /\ UNCHANGED <<active, missing, commit, changes, done, spoiled, faults>>
  BY DEF AfterMessages, Complete, Repository
<1>2. commit \in Commits /\ data = <<CommitStart(commit)>>
  BY DEF EngineInv, MessageShape, AfterMessages
<1>3. memory \in [DiffObservers -> Flags] /\ result \in [Observers -> BOOLEAN]
  BY DEF EngineInv, TypeOK, Flags
<1>4. ready \in [DiffObservers -> Flags]
  BY <1>3, FlagsTyped
<1>5. some \subseteq DiffObservers /\ some \subseteq active
  BY DEF Interested
<1> HIDE DEF some
<1>6. \A o \in some : ready[o] = Started(o, memory[o])
  BY <1>5
<1> HIDE DEF ready
<1>7. result' \in [Observers -> BOOLEAN]
  <2>1. \A o \in some : Concluded(o, ready[o]) \in BOOLEAN
    BY <1>4, <1>5, FlagsTyped
  <2> QED
    BY <1>1, <1>3, <2>1
<1>8. \A o \in MessageObservers : o \in Observers /\ result'[o] = result[o]
  BY <1>1, <1>5 DEF MessageObservers
<1>9. TypeOK'
  BY <1>1, <1>4, <1>7 DEF EngineInv, TypeOK, Flags
<1>10. ChangesFit' /\ MessageShape' /\ DiffShape' /\ MessageKnown' /\ DiffKnown'
  BY <1>1 DEF EngineInv, ChangesFit, BaseTree, MessageShape, DiffShape, MessageKnown, DiffKnown
<1>11. ReportShape'
  <2> DEFINE seen == Collected(MessageObservers, result')
             diff == Collected(some, result')
             start == <<CommitStart(commit)>>
  <2>1. Collected(MessageObservers, result) = seen
    BY <1>8, CollectedAlike
  <2>2. seen \in Seq(Message) /\ diff \in Seq(Message) /\ start \in Seq(Message)
    BY <1>2, CollectedProperties DEF Message
  <2>3. data' = start \o (seen \o diff) \o <<CommitComplete>>
    BY <1>1, <1>2, <2>1
  <2>4. start \o (seen \o diff) = (start \o seen) \o diff
    BY <2>2, ConcatAssociative
  <2> HIDE DEF seen, diff, start
  <2>5. data' = start \o seen \o diff \o <<CommitComplete>>
    BY <2>3, <2>4
  <2>6. Interested(active)' = some
    BY <1>1 DEF some, Interested
  <2> QED
    BY <1>1, <1>2, <1>5, <2>5, <2>6 DEF ReportShape, seen, diff, start
<1>12. ReportKnown'
  <2> SUFFICES ASSUME NEW o \in active \ spoiled PROVE IsRight(o)'
    BY <1>1 DEF ReportKnown
  <2>1. BaseTree(commit)' = BaseTree(commit)
    BY <1>1 DEF BaseTree
  <2>2. CASE o \in MessageObservers
    BY <1>1, <1>8, <2>1, <2>2, MessagesDone DEF IsRight
  <2>3. CASE o \in DiffObservers
    <3>1. o \in some /\ o \in Observers
      BY <2>3, MessagesDone DEF some, Interested
    <3>2. result'[o] = Concluded(o, Started(o, memory[o]))
      BY <1>1, <1>6, <3>1
    <3>3. ~Concluded(o, Started(o, memory[o])) /\ ~Holds(o, commit, BaseTree(commit))
      BY <1>2, <2>3, MessagesDone, MergesAreSilent
    <3> QED
      BY <1>1, <2>1, <3>2, <3>3 DEF IsRight
  <2> QED
    BY <2>2, <2>3, MessagesDone DEF MessageObservers
<1> QED
  BY <1>9, <1>10, <1>11, <1>12 DEF EngineInv

\* The diff begins.
LEMMA DiffStartKeeps ==
  ASSUME EngineInv, AfterMessages, Interested(active) # {}, ~IsMerge(commit)
  PROVE  EngineInv'
<1> DEFINE ready == [o \in DiffObservers |->
                       IF o \in active THEN Started(o, memory[o]) ELSE memory[o]]
           chs == ChangesBetween(BaseTree(commit), Tree[commit])
<1>1. /\ phase' = "diff" /\ memory' = ready /\ changes' = chs
      /\ turn' = [o \in Observers |-> IF o \in active \cap DiffObservers THEN 1 ELSE Finished]
      /\ data' = data \o Collected(MessageObservers, result)
      /\ UNCHANGED <<active, missing, commit, result, done, spoiled, faults>>
  BY DEF AfterMessages, Complete, Repository
<1>2. commit \in Commits /\ data = <<CommitStart(commit)>>
  BY DEF EngineInv, MessageShape, AfterMessages
<1>3. memory \in [DiffObservers -> Flags]
  BY DEF EngineInv, TypeOK, Flags
<1>4. ready \in [DiffObservers -> Flags]
  BY <1>3, FlagsTyped
<1>5. \A o \in active \cap DiffObservers : ready[o] = Started(o, memory[o])
  OBVIOUS
<1>6. Len(chs) \in Nat
  BY ChangesListed
<1>7. ChangesFit'
  BY <1>1, <1>2 DEF ChangesFit, BaseTree
<1> HIDE DEF ready, chs
<1>8. TypeOK'
  <2>1. turn' \in [Observers -> {Finished} \cup 0 .. Len(changes') + 1]
    BY <1>1, <1>6
  <2> QED
    BY <1>1, <1>4, <2>1 DEF EngineInv, TypeOK, Flags
<1>9. DiffShape'
  <2>1. \A o \in Observers :
          turn'[o] = Finished \/ (o \in Interested(active') /\ turn'[o] \in 1 .. Len(changes') + 1)
    BY <1>1, <1>6 DEF Interested
  <2>2. changes' = ChangesBetween(BaseTree(commit), Tree[commit])' /\ ~IsMerge(commit')
    BY <1>1 DEF BaseTree, chs
  <2> QED
    BY <1>1, <1>2, <2>1, <2>2 DEF DiffShape
<1>10. DiffKnown'
  <2> SUFFICES ASSUME NEW o \in active \ spoiled
               PROVE  /\ turn'[o] = Finished => IsRight(o)'
                      /\ turn'[o] # Finished => Learned(changes', o, memory'[o], turn'[o])
    BY <1>1 DEF DiffKnown
  <2>1. CASE o \in MessageObservers
    <3>1. IsRight(o) /\ o \in Observers /\ o \notin DiffObservers
      BY <2>1, MessagesDone DEF MessageObservers
    <3>2. turn'[o] = Finished
      BY <1>1, <3>1
    <3> QED
      BY <1>1, <3>1, <3>2 DEF IsRight, BaseTree
  <2>2. CASE o \in DiffObservers
    <3>1. turn'[o] = 1 /\ memory'[o] = Started(o, memory[o])
      BY <1>1, <1>5, <2>2, MessagesDone
    <3>2. memory[o] \in Flags /\ (o = "EmptyCommit" => memory[o].other = FALSE)
      BY <2>2, MessagesDone
    <3>3. Len(chs) \in Nat /\ DOMAIN chs = 1..Len(chs)
      BY ChangesListed DEF chs
    <3>4. Learned(chs, o, Started(o, memory[o]), 1)
      BY <2>2, <3>2, <3>3, StartLearned
    <3> QED
      BY <1>1, <3>1, <3>4 DEF Finished
  <2> QED
    BY <2>1, <2>2, MessagesDone DEF MessageObservers
<1> QED
  BY <1>1, <1>7, <1>8, <1>9, <1>10 DEF EngineInv, MessageShape, ReportShape, MessageKnown,
                                      ReportKnown, Reported

\* One observer makes a step in the diff: what the others know is not touched.
LEMMA DiffTurnKeeps ==
  ASSUME EngineInv, phase = "diff", phase' = "diff",
         NEW o \in Interested(active), NEW n \in {Finished} \cup 1..(Len(changes) + 1),
         NEW s \in Flags, NEW r \in BOOLEAN,
         memory' = [memory EXCEPT ![o] = s],
         turn' = [turn EXCEPT ![o] = n],
         result' = [result EXCEPT ![o] = r],
         UNCHANGED <<active, missing, commit, changes, data, done>>,
         spoiled' \in {spoiled, spoiled \cup {o}}, faults' \in 0..MaxFaults,
         o \notin spoiled' =>
           /\ n = Finished => (r <=> Holds(o, commit, BaseTree(commit)))
           /\ n # Finished => Learned(changes, o, s, n)
  PROVE  EngineInv'
<1>1. /\ TypeOK /\ memory \in [DiffObservers -> Flags]
      /\ o \in Observers /\ o \in DiffObservers /\ o \in active
  BY DEF EngineInv, TypeOK, Flags, Interested
<1>2. /\ memory' \in [DiffObservers -> Flags] /\ memory'[o] = s
      /\ \A p \in DiffObservers \ {o} : memory'[p] = memory[p]
  BY <1>1
<1>3. /\ turn' \in [Observers -> {Finished} \cup 0..(Len(changes) + 1)] /\ turn'[o] = n
      /\ \A p \in Observers \ {o} : turn'[p] = turn[p]
  <2>1. Len(changes) \in Nat
    BY ChangesAreList DEF EngineInv
  <2>2. turn \in [Observers -> {Finished} \cup 0..(Len(changes) + 1)]
    BY <1>1 DEF TypeOK
  <2>3. n \in {Finished} \cup 0..(Len(changes) + 1)
    BY <2>1
  <2> QED
    BY <1>1, <2>2, <2>3
<1>4. /\ result' \in [Observers -> BOOLEAN] /\ result'[o] = r
      /\ \A p \in Observers \ {o} : result'[p] = result[p]
  BY <1>1 DEF TypeOK
<1>5. TypeOK'
  BY <1>1, <1>2, <1>3, <1>4 DEF TypeOK, Flags
<1>6. BaseTree(commit)' = BaseTree(commit) /\ Interested(active)' = Interested(active)
  BY DEF BaseTree, Interested
<1>7. ChangesFit'
  BY <1>6 DEF EngineInv, ChangesFit
<1>8. DiffShape'
  <2>1. /\ commit \in Commits /\ ~IsMerge(commit)
        /\ changes = ChangesBetween(BaseTree(commit), Tree[commit])
        /\ data = <<CommitStart(commit)>> \o Collected(MessageObservers, result)
        /\ \A p \in Observers :
             turn[p] = Finished \/ (p \in Interested(active) /\ turn[p] \in 1 .. Len(changes) + 1)
    BY DEF EngineInv, DiffShape
  <2>2. \A p \in MessageObservers : result[p] = result'[p]
    BY <1>1, <1>4 DEF MessageObservers
  <2>3. Collected(MessageObservers, result') = Collected(MessageObservers, result)
    BY <2>2, CollectedAlike
  <2>4. \A p \in Observers :
          turn'[p] = Finished \/ (p \in Interested(active) /\ turn'[p] \in 1 .. Len(changes) + 1)
    BY <1>3, <2>1
  <2> QED
    BY <1>6, <2>1, <2>3, <2>4 DEF DiffShape
<1>9. DiffKnown'
  <2> SUFFICES ASSUME NEW p \in active \ spoiled'
               PROVE  /\ turn'[p] = Finished => IsRight(p)'
                      /\ turn'[p] # Finished => Learned(changes', p, memory'[p], turn'[p])
    BY DEF DiffKnown
  <2>1. p \in Observers /\ p \in active \ spoiled
    BY <1>1 DEF TypeOK
  <2>2. CASE p = o
    BY <1>2, <1>3, <1>4, <1>6, <2>2 DEF IsRight
  <2>3. CASE p # o
    <3>1. /\ turn[p] = Finished => IsRight(p)
          /\ turn[p] # Finished => Learned(changes, p, memory[p], turn[p])
      BY <2>1 DEF EngineInv, DiffKnown
    <3>2. turn[p] # Finished => p \in DiffObservers
      BY <2>1 DEF EngineInv, DiffShape, Interested
    <3>3. IsRight(p)' <=> IsRight(p)
      BY <1>4, <1>6, <2>1, <2>3 DEF IsRight
    <3> QED
      BY <1>2, <1>3, <2>1, <2>3, <3>1, <3>2, <3>3
  <2> QED
    BY <2>2, <2>3
<1> QED
  BY <1>5, <1>7, <1>8, <1>9 DEF EngineInv, MessageShape, ReportShape, MessageKnown,
                                ReportKnown, Reported

LEMMA OnDiffChangeKeeps ==
  ASSUME EngineInv, NEW o \in Observers, OnDiffChange(o)
  PROVE  EngineInv'
<1> DEFINE step == OnChange(o, memory[o], changes[turn[o]])
           n == IF step.stop THEN Len(changes) + 1 ELSE turn[o] + 1
<1>1. /\ phase = "diff" /\ phase' = "diff" /\ turn[o] \in DOMAIN changes
      /\ memory' = [memory EXCEPT ![o] = step.s]
      /\ turn' = [turn EXCEPT ![o] = n]
      /\ UNCHANGED <<active, missing, commit, changes, result, data, done, spoiled, faults>>
  BY DEF OnDiffChange, Repository
<1>2. ChangesFit /\ Len(changes) \in Nat /\ DOMAIN changes = 1..Len(changes)
  BY ChangesAreList DEF EngineInv
<1>3. turn[o] # Finished /\ turn[o] \in 1..Len(changes)
  BY <1>1, <1>2 DEF Finished
<1>4. o \in Interested(active) /\ o \in DiffObservers /\ o \in active
  BY <1>1, <1>3 DEF EngineInv, DiffShape, Interested
<1>5. memory[o] \in Flags /\ result \in [Observers -> BOOLEAN] /\ faults \in 0..MaxFaults
  BY <1>4 DEF EngineInv, TypeOK, Flags
<1>6. step.s \in Flags
  BY <1>4, <1>5, FlagsTyped
<1>7. o \notin spoiled => Learned(changes, o, step.s, n)
  <2> SUFFICES ASSUME o \notin spoiled PROVE Learned(changes, o, step.s, n)
    OBVIOUS
  <2>1. Learned(changes, o, memory[o], turn[o])
    BY <1>1, <1>3, <1>4 DEF EngineInv, DiffKnown
  <2> QED
    BY <1>1, <1>2, <1>4, <1>5, <2>1, TurnLearns
<1> HIDE DEF step
<1>8. n \in 1..(Len(changes) + 1) /\ n # Finished
  BY <1>2, <1>3 DEF Finished
<1>9. result' = [result EXCEPT ![o] = result[o]] /\ result[o] \in BOOLEAN
  BY <1>1, <1>5
<1> HIDE DEF n
<1> QED
  BY <1>1, <1>4, <1>5, <1>6, <1>7, <1>8, <1>9, DiffTurnKeeps

LEMMA OnDiffChangeFailsKeeps ==
  ASSUME EngineInv, OnDiffChangeFails
  PROVE  EngineInv'
<1> DEFINE o == "WhitespaceOnly"
           s == [memory[o] EXCEPT !.found = TRUE]
<1>1. /\ phase = "diff" /\ phase' = "diff" /\ o \in active
      /\ memory' = [memory EXCEPT ![o] = s]
      /\ turn' = [turn EXCEPT ![o] = Len(changes) + 1]
      /\ spoiled' = spoiled \cup {o}
      /\ faults < MaxFaults /\ faults' = faults + 1
      /\ UNCHANGED <<active, missing, commit, changes, result, data, done>>
  <2>1. memory \in [DiffObservers -> Flags] /\ o \in DiffObservers
    BY DEF EngineInv, TypeOK, Flags, DiffObservers
  <2>2. [memory EXCEPT ![o].found = TRUE] = [memory EXCEPT ![o] = s]
    BY <2>1
  <2> QED
    BY <2>2 DEF OnDiffChangeFails, Repository
<1>2. o \in Interested(active) /\ o \in Observers /\ o \in DiffObservers
  BY <1>1 DEF EngineInv, TypeOK, Interested, DiffObservers
<1>3. memory[o] \in Flags /\ result \in [Observers -> BOOLEAN] /\ faults \in 0..MaxFaults
  BY <1>2 DEF EngineInv, TypeOK, Flags
<1>4. s \in Flags
  BY <1>3 DEF Flags
<1>5. faults' \in 0..MaxFaults
  BY <1>1, <1>3, BoundAssumption
<1>6. Len(changes) + 1 \in 1..(Len(changes) + 1)
  BY ChangesAreList DEF EngineInv
<1>7. result' = [result EXCEPT ![o] = result[o]] /\ result[o] \in BOOLEAN
  BY <1>1, <1>2, <1>3
<1> HIDE DEF o, s
<1> QED
  BY <1>1, <1>2, <1>4, <1>5, <1>6, <1>7, DiffTurnKeeps

LEMMA OnDiffEndKeeps ==
  ASSUME EngineInv, NEW o \in Observers, OnDiffEnd(o)
  PROVE  EngineInv'
<1> DEFINE r == Concluded(o, memory[o])
<1>1. /\ phase = "diff" /\ phase' = "diff" /\ turn[o] = Len(changes) + 1
      /\ result' = [result EXCEPT ![o] = r]
      /\ turn' = [turn EXCEPT ![o] = Finished]
      /\ UNCHANGED <<active, missing, commit, changes, memory, data, done, spoiled, faults>>
  BY DEF OnDiffEnd, Repository
<1>2. Len(changes) \in Nat /\ turn[o] # Finished
  BY <1>1, ChangesAreList DEF EngineInv, Finished
<1>3. o \in Interested(active) /\ o \in DiffObservers /\ o \in active
  BY <1>1, <1>2 DEF EngineInv, DiffShape, Interested
<1>4. /\ memory \in [DiffObservers -> Flags] /\ memory[o] \in Flags
      /\ faults \in 0..MaxFaults
  BY <1>3 DEF EngineInv, TypeOK, Flags
<1>5. r \in BOOLEAN
  BY <1>3, <1>4, FlagsTyped
<1>6. o \notin spoiled => (r <=> Holds(o, commit, BaseTree(commit)))
  <2> SUFFICES ASSUME o \notin spoiled PROVE r <=> Holds(o, commit, BaseTree(commit))
    OBVIOUS
  <2>1. Learned(changes, o, memory[o], Len(changes) + 1)
    BY <1>1, <1>2, <1>3 DEF EngineInv, DiffKnown
  <2>2. /\ commit \in Commits /\ ~IsMerge(commit)
        /\ changes = ChangesBetween(BaseTree(commit), Tree[commit])
    BY <1>1 DEF EngineInv, DiffShape
  <2> QED
    BY <1>3, <1>4, <2>1, <2>2, AllLearned
<1>7. memory' = [memory EXCEPT ![o] = memory[o]]
  BY <1>1, <1>3, <1>4
<1> HIDE DEF r
<1> QED
  BY <1>1, <1>3, <1>4, <1>5, <1>6, <1>7, DiffTurnKeeps

LEMMA AfterDiffKeeps ==
  ASSUME EngineInv, AfterDiff
  PROVE  EngineInv'
<1>1. /\ phase = "diff" /\ phase' = "idle" /\ \A o \in active : turn[o] = Finished
      /\ data' = data \o Collected(Interested(active), result) \o <<CommitComplete>>
      /\ UNCHANGED <<active, missing, commit, changes, memory, turn, result, done, spoiled, faults>>
  BY DEF AfterDiff, Complete, Repository
<1>2. commit \in Commits /\ data = <<CommitStart(commit)>> \o Collected(MessageObservers, result)
  BY <1>1 DEF EngineInv, DiffShape
<1>3. TypeOK' /\ ChangesFit' /\ MessageShape' /\ DiffShape' /\ MessageKnown' /\ DiffKnown'
  BY <1>1 DEF EngineInv, TypeOK, ChangesFit, BaseTree, MessageShape, DiffShape, MessageKnown,
              DiffKnown
<1>4. ReportShape'
  <2>1. Interested(active)' = Interested(active) /\ Interested(active) \in SUBSET DiffObservers
    BY <1>1 DEF Interested
  <2> QED
    BY <1>1, <1>2, <2>1 DEF ReportShape
<1>5. ReportKnown'
  <2> SUFFICES ASSUME NEW o \in active \ spoiled PROVE IsRight(o)'
    BY <1>1 DEF ReportKnown
  <2>1. IsRight(o)
    BY <1>1 DEF EngineInv, DiffKnown
  <2> QED
    BY <1>1, <2>1 DEF IsRight, BaseTree
<1> QED
  BY <1>3, <1>4, <1>5 DEF EngineInv

LEMMA AbortKeeps ==
  ASSUME EngineInv, Abort
  PROVE  EngineInv'
<1>1. /\ phase' = "aborted" /\ data' = <<>>
      /\ UNCHANGED <<active, missing, commit, changes, memory, turn, result, done, spoiled, faults>>
  BY DEF Abort, Repository
<1> QED
  BY <1>1 DEF EngineInv, TypeOK, ChangesFit, BaseTree, MessageShape, DiffShape, ReportShape,
              Reported, MessageKnown, DiffKnown, ReportKnown

\* Whatever the observers do, and in whatever order, the invariant holds.
LEMMA EngineInvariant == Spec => []EngineInv
<1>1. EngineInv /\ [Next]_vars => EngineInv'
  <2> SUFFICES ASSUME EngineInv, [Next]_vars PROVE EngineInv'
    OBVIOUS
  <2>1. ASSUME NEW o \in Observers, OnCommit(o) PROVE EngineInv'
    BY <2>1, OnCommitKeeps
  <2>2. ASSUME NEW o \in Observers, OnCommitFails(o) PROVE EngineInv'
    BY <2>2, OnCommitFailsKeeps
  <2>3. ASSUME NEW o \in Observers, OnDiffChange(o) PROVE EngineInv'
    BY <2>3, OnDiffChangeKeeps
  <2>4. ASSUME NEW o \in Observers, OnDiffEnd(o) PROVE EngineInv'
    BY <2>4, OnDiffEndKeeps
  <2>5. CASE OnDiffChangeFails
    BY <2>5, OnDiffChangeFailsKeeps
  <2>6. CASE AfterMessages
    <3>1. CASE Interested(active) = {}
      BY <2>6, <3>1, NoDiffKeeps
    <3>2. CASE Interested(active) # {} /\ IsMerge(commit)
      BY <2>6, <3>2, MergeKeeps
    <3>3. CASE Interested(active) # {} /\ ~IsMerge(commit)
      BY <2>6, <3>3, DiffStartKeeps
    <3> QED
      BY <3>1, <3>2, <3>3
  <2>7. CASE AfterDiff
    BY <2>7, AfterDiffKeeps
  <2>8. CASE Abort
    BY <2>8, AbortKeeps
  <2>9. ASSUME NEW c \in Commits, Begin(c) PROVE EngineInv'
    BY <2>9, BeginKeeps
  <2>10. ASSUME NEW needed \in SUBSET active, RetireAllExcept(needed) PROVE EngineInv'
    BY <2>10, RetiringKeeps
  <2>11. CASE UNCHANGED vars
    BY <2>11 DEF vars, EngineInv, TypeOK, ChangesFit, BaseTree, MessageShape, DiffShape,
                 ReportShape, Reported, MessageKnown, DiffKnown, ReportKnown, IsRight
  <2> QED
    BY <2>1, <2>2, <2>3, <2>4, <2>5, <2>6, <2>7, <2>8, <2>9, <2>10, <2>11
       DEF Next, Engine, Observe
<1> QED
  BY <1>1, StartsRight, PTL DEF Spec

-----------------------------------------------------------------------------
(***************************************************************************)
(* What follows.                                                           *)
(***************************************************************************)

\* In the messages of a commit stands exactly what was found.
LEMMA SaysWhatWasFound ==
  ASSUME EngineInv, Reported, NEW o \in active
  PROVE  Says(o) <=> result[o]
<1>1. /\ commit \in Commits
      /\ \E some \in SUBSET DiffObservers :
           /\ Interested(active) \subseteq some
           /\ data = <<CommitStart(commit)>> \o Collected(MessageObservers, result)
                       \o Collected(some, result) \o <<CommitComplete>>
  BY DEF EngineInv, ReportShape
<1>2. PICK some \in SUBSET DiffObservers :
        /\ Interested(active) \subseteq some
        /\ data = <<CommitStart(commit)>> \o Collected(MessageObservers, result)
                    \o Collected(some, result) \o <<CommitComplete>>
  BY <1>1
<1> DEFINE a == Collected(MessageObservers, result)
           b == Collected(some, result)
<1>3. o \in Observers /\ (o \in MessageObservers \/ o \in some)
  BY <1>2 DEF EngineInv, TypeOK, MessageObservers, Interested
<1>4. /\ a \in Seq(Message) /\ b \in Seq(Message)
      /\ (\E k \in DOMAIN a : a[k] = Observation(o)) <=> o \in MessageObservers /\ result[o]
      /\ (\E k \in DOMAIN b : b[k] = Observation(o)) <=> o \in some /\ result[o]
  BY <1>3, CollectedProperties
<1>5. CommitStart(commit) \in Message /\ CommitComplete \in Message
  BY <1>1 DEF Message
<1>6. /\ data = <<CommitStart(commit)>> \o a \o b \o <<CommitComplete>>
      /\ Len(a) \in Nat /\ DOMAIN a = 1..Len(a) /\ Len(b) \in Nat /\ DOMAIN b = 1..Len(b)
  BY <1>2, <1>4, LenProperties
<1> HIDE DEF a, b
<1>7. /\ data \in Seq(Message) /\ Len(data) = Len(a) + Len(b) + 2
      /\ data[1] = CommitStart(commit) /\ data[Len(data)] = CommitComplete
      /\ \A i \in 1..Len(a) : data[i + 1] = a[i]
      /\ \A i \in 1..Len(b) : data[Len(a) + i + 1] = b[i]
  BY <1>4, <1>5, <1>6, FourParts
<1>8. DOMAIN data = 1..Len(data)
  BY <1>7, LenProperties
<1>9. CommitStart(commit) # Observation(o) /\ CommitComplete # Observation(o)
  BY DEF CommitStart, CommitComplete, Observation
<1>10. ASSUME Says(o) PROVE result[o]
  <2>1. PICK i \in 1..Len(data) : data[i] = Observation(o)
    BY <1>8, <1>10 DEF Says
  <2>2. i # 1 /\ i # Len(data)
    BY <1>7, <1>9, <2>1
  <2>3. i - 1 \in 1..Len(a) \/ i - 1 - Len(a) \in 1..Len(b)
    <3>1. Len(data) = Len(a) + Len(b) + 2
      BY <1>7
    <3> QED
      BY <1>6, <2>2, <3>1
  <2>4. CASE i - 1 \in 1..Len(a)
    <3>1. data[(i - 1) + 1] = a[i - 1] /\ (i - 1) + 1 = i
      BY <1>7, <2>1, <2>4
    <3> QED
      BY <1>4, <1>6, <2>1, <2>4, <3>1
  <2>5. CASE i - 1 - Len(a) \in 1..Len(b)
    <3>1. data[Len(a) + (i - 1 - Len(a)) + 1] = b[i - 1 - Len(a)]
      BY <1>7, <2>5
    <3>2. Len(a) + (i - 1 - Len(a)) + 1 = i
      BY <1>6, <2>1
    <3> QED
      BY <1>4, <1>6, <2>1, <2>5, <3>1, <3>2
  <2> QED
    BY <2>3, <2>4, <2>5
<1>11. ASSUME result[o] PROVE Says(o)
  <2>1. CASE o \in MessageObservers
    <3>1. PICK k \in 1..Len(a) : a[k] = Observation(o)
      BY <1>4, <1>6, <1>11, <2>1
    <3>2. k + 1 \in DOMAIN data
      BY <1>6, <1>7, <1>8
    <3> QED
      BY <1>7, <3>1, <3>2 DEF Says
  <2>2. CASE o \in some
    <3>1. PICK k \in 1..Len(b) : b[k] = Observation(o)
      BY <1>4, <1>6, <1>11, <2>2
    <3>2. Len(a) + k + 1 \in DOMAIN data
      BY <1>6, <1>7, <1>8
    <3> QED
      BY <1>7, <3>1, <3>2 DEF Says
  <2> QED
    BY <1>3, <2>1, <2>2
<1> QED
  BY <1>10, <1>11

\* The type invariant of the engine.
THEOREM EngineTypeCorrect == Spec => []TypeOK
<1>1. EngineInv => TypeOK
  BY DEF EngineInv
<1> QED
  BY <1>1, EngineInvariant, PTL

\* At every commit whose parent is there, each observer that did not fail at it
\* reports exactly what is true of the commit and its parent: nothing an earlier
\* commit, a cancellation or a failure of another observer has left behind shows.
THEOREM FactsAreRightAlways == Spec => []FactsAreRight
<1>1. EngineInv => FactsAreRight
  <2> SUFFICES ASSUME EngineInv, Reported, ~Cut(commit), NEW o \in active \ spoiled
               PROVE  Says(o) <=> Holds(o, commit, IF Parent(commit) = Absent THEN EmptyTree
                                                   ELSE Tree[Parent(commit)])
    BY DEF FactsAreRight
  <2>1. commit \in Commits /\ IsRight(o)
    BY DEF EngineInv, ReportShape, ReportKnown
  <2>2. BaseTree(commit) = IF Parent(commit) = Absent THEN EmptyTree ELSE Tree[Parent(commit)]
    BY <2>1, BaseTreeTyped
  <2>3. Says(o) <=> result[o]
    BY SaysWhatWasFound
  <2> QED
    BY <2>1, <2>2, <2>3 DEF IsRight
<1> QED
  BY <1>1, EngineInvariant, PTL

\* A commit at the boundary of a shallow clone, whose parent is missing, is
\* reported like a first commit with the same tree.
THEOREM BoundaryAlways == Spec => []BoundaryLooksLikeARoot
<1>1. EngineInv => BoundaryLooksLikeARoot
  <2> SUFFICES ASSUME EngineInv, Reported, Cut(commit), NEW o \in active \ spoiled
               PROVE  Says(o) <=> Holds(o, commit, EmptyTree)
    BY DEF BoundaryLooksLikeARoot
  <2>1. commit \in Commits /\ IsRight(o)
    BY DEF EngineInv, ReportShape, ReportKnown
  <2>2. BaseTree(commit) = EmptyTree
    BY <2>1, BaseTreeTyped
  <2>3. Says(o) <=> result[o]
    BY SaysWhatWasFound
  <2> QED
    BY <2>1, <2>2, <2>3 DEF IsRight
<1> QED
  BY <1>1, EngineInvariant, PTL

\* The observations of a commit come after its start and before its end, those of
\* messages before those of diffs, each in the order of the registry and none
\* twice: for any order of the threads, any failures and any retirements.
THEOREM DeterministicOrderAlways == Spec => []DeterministicOrder
<1>1. EngineInv => DeterministicOrder
  <2> SUFFICES ASSUME EngineInv, Reported PROVE DeterministicOrder
    BY DEF DeterministicOrder
  <2>1. commit \in Commits
    BY DEF EngineInv, ReportShape
  <2>2. PICK some \in SUBSET DiffObservers :
          data = <<CommitStart(commit)>> \o Collected(MessageObservers, result)
                   \o Collected(some, result) \o <<CommitComplete>>
    BY DEF EngineInv, ReportShape
  <2> DEFINE a == Collected(MessageObservers, result)
             b == Collected(some, result)
             said == SubSeq(data, 2, Len(data) - 1)
             Diff(i) == said[i].what \in DiffObservers
             At(i)   == Place(said[i].what)
  <2>3. /\ a \in Seq(Message) /\ \A k \in DOMAIN a : a[k].what \in MessageObservers
        /\ \A k, m \in DOMAIN a : k < m => Place(a[k].what) < Place(a[m].what)
    BY CollectedProperties
  <2>4. /\ b \in Seq(Message) /\ \A k \in DOMAIN b : b[k].what \in some
        /\ \A k, m \in DOMAIN b : k < m => Place(b[k].what) < Place(b[m].what)
    BY CollectedProperties
  <2>5. CommitStart(commit) \in Message /\ CommitComplete \in Message
    BY <2>1 DEF Message
  <2>6. /\ data = <<CommitStart(commit)>> \o a \o b \o <<CommitComplete>>
        /\ Len(a) \in Nat /\ DOMAIN a = 1..Len(a) /\ Len(b) \in Nat /\ DOMAIN b = 1..Len(b)
    BY <2>2, <2>3, <2>4, LenProperties
  <2> HIDE DEF a, b
  <2>7. /\ data \in Seq(Message) /\ Len(data) = Len(a) + Len(b) + 2
        /\ data[1] = CommitStart(commit) /\ data[Len(data)] = CommitComplete
        /\ \A i \in 1..Len(a) : data[i + 1] = a[i]
        /\ \A i \in 1..Len(b) : data[Len(a) + i + 1] = b[i]
    BY <2>3, <2>4, <2>5, <2>6, FourParts
  <2>8. /\ DOMAIN said = 1..(Len(a) + Len(b))
        /\ \A i \in 1..(Len(a) + Len(b)) : said[i] = data[i + 1]
    <3>1. \A i \in 2..(Len(data) - 1) : data[i] \in Message
      BY <2>6, <2>7, ElementOfSeq
    <3>2. 2 \in Int /\ Len(data) - 1 \in Int
      BY <2>6, <2>7
    <3>3. /\ said \in Seq(Message)
          /\ Len(said) = IF 2 <= Len(data) - 1 THEN Len(data) - 1 - 2 + 1 ELSE 0
          /\ \A i \in 1..(Len(data) - 1 - 2 + 1) : said[i] = data[2 + i - 1]
      BY <3>1, <3>2, SubSeqProperties
    <3> HIDE DEF said
    <3>4. Len(said) = Len(a) + Len(b) /\ Len(data) - 1 - 2 + 1 = Len(a) + Len(b)
      BY <2>6, <2>7, <3>3
    <3>5. \A i \in 1..(Len(a) + Len(b)) : 2 + i - 1 = i + 1
      BY <2>6
    <3> QED
      BY <3>3, <3>4, <3>5, LenProperties
  <2> HIDE DEF said
  <2>9. \A i \in 1..Len(a) : said[i] = a[i] /\ ~Diff(i)
    <3>1. \A i \in 1..Len(a) : i \in 1..(Len(a) + Len(b))
      BY <2>6
    <3> QED
      BY <2>3, <2>6, <2>7, <2>8, <3>1 DEF MessageObservers
  <2>10. \A i \in 1..(Len(a) + Len(b)) : i > Len(a) =>
           /\ i - Len(a) \in DOMAIN b /\ said[i] = b[i - Len(a)] /\ Diff(i)
    <3> SUFFICES ASSUME NEW i \in 1..(Len(a) + Len(b)), i > Len(a)
                 PROVE  i - Len(a) \in DOMAIN b /\ said[i] = b[i - Len(a)] /\ Diff(i)
      OBVIOUS
    <3>1. i - Len(a) \in 1..Len(b) /\ Len(a) + (i - Len(a)) + 1 = i + 1
      BY <2>6
    <3>2. said[i] = b[i - Len(a)]
      BY <2>7, <2>8, <3>1
    <3> QED
      BY <2>2, <2>4, <2>6, <3>1, <3>2
  <2>11. ASSUME NEW i \in DOMAIN said, NEW j \in DOMAIN said, i < j
         PROVE  \/ ~Diff(i) /\ Diff(j)
                \/ (Diff(i) <=> Diff(j)) /\ At(i) < At(j)
    <3>1. CASE j <= Len(a)
      <4>1. i \in 1..Len(a) /\ j \in 1..Len(a)
        BY <2>6, <2>8, <2>11, <3>1
      <4>2. /\ said[i] = a[i] /\ said[j] = a[j] /\ ~Diff(i) /\ ~Diff(j)
            /\ Place(a[i].what) < Place(a[j].what)
        BY <2>3, <2>6, <2>9, <2>11, <4>1
      <4> QED
        BY <4>2
    <3>2. CASE i <= Len(a) /\ j > Len(a)
      BY <2>6, <2>8, <2>9, <2>10, <3>2
    <3>3. CASE i > Len(a)
      <4>1. j > Len(a) /\ i - Len(a) < j - Len(a)
        BY <2>6, <2>8, <2>11, <3>3
      <4>2. /\ i - Len(a) \in DOMAIN b /\ said[i] = b[i - Len(a)] /\ Diff(i)
            /\ j - Len(a) \in DOMAIN b /\ said[j] = b[j - Len(a)] /\ Diff(j)
        BY <2>8, <2>10, <3>3, <4>1
      <4>3. Place(b[i - Len(a)].what) < Place(b[j - Len(a)].what)
        BY <2>4, <4>1, <4>2
      <4> QED
        BY <4>2, <4>3
    <3> QED
      BY <2>6, <2>8, <2>11, <3>1, <3>2, <3>3
  <2>12. Head(data) = CommitStart(commit)
    BY <2>7
  <2>13. \A x, y : <<x, y>>[1] = x /\ <<x, y>>[2] = y
    OBVIOUS
  <2> HIDE DEF Diff, At
  <2> DEFINE Rank(i) == <<Diff(i), At(i)>>
  <2>14. ASSUME NEW i \in DOMAIN said, NEW j \in DOMAIN said, i < j
         PROVE  \/ ~Rank(i)[1] /\ Rank(j)[1]
                \/ Rank(i)[1] = Rank(j)[1] /\ Rank(i)[2] < Rank(j)[2]
    <3>1. /\ Rank(i)[1] = Diff(i) /\ Rank(j)[1] = Diff(j)
          /\ Rank(i)[2] = At(i) /\ Rank(j)[2] = At(j)
      BY <2>13, Zenon
    <3> HIDE DEF Rank
    <3>2. Diff(i) \in BOOLEAN /\ Diff(j) \in BOOLEAN
      BY DEF Diff
    <3>3. (Diff(i) <=> Diff(j)) => Diff(i) = Diff(j)
      <4>1. \A x, y \in BOOLEAN : (x <=> y) => x = y
        OBVIOUS
      <4> QED
        BY <3>2, <4>1, Zenon
    <3> QED
      BY <2>11, <2>14, <3>1, <3>3, Zenon
  <2> QED
    BY <2>7, <2>12, <2>14, Zenon DEF DeterministicOrder, said, Rank, Diff, At
<1> QED
  BY <1>1, EngineInvariant, PTL
=============================================================================
