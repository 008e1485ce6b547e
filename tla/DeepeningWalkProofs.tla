--------------------------- MODULE DeepeningWalkProofs ---------------------------
(***************************************************************************)
(* Theorems about DeepeningWalk, for every history, any depth, any number  *)
(* of rewrites and faults: a walk over a clone that is deepened under way  *)
(* returns no commit twice and misses none, and the clone's references     *)
(* can be walked.                                                          *)
(*                                                                         *)
(* The graph operators come first.  They are defined by recursion; what    *)
(* the proofs use is that Visible is the least set that holds the start    *)
(* and is closed under parents off the cut, and that one step more of      *)
(* Within adds the parents.                                                *)
(***************************************************************************)
EXTENDS DeepeningWalk, EnumerationProofs

Histories == {h \in Seq(SUBSET Nat) : \A c \in DOMAIN h : h[c] \subseteq 1 .. (c - 1)}

Closed(h, T, cut) == \A d \in T \ cut : h[d] \subseteq T

LEMMA HistoryTyped ==
  ASSUME NEW h \in Histories
  PROVE  /\ DOMAIN h \in SUBSET Nat
         /\ \A c \in DOMAIN h : /\ c \in Nat
                                /\ h[c] \in SUBSET (DOMAIN h)
                                /\ \A p \in h[c] : p < c
<1>1. DOMAIN h = 1 .. Len(h) /\ Len(h) \in Nat
  BY DEF Histories
<1>2. \A c \in DOMAIN h : h[c] \subseteq 1 .. (c - 1)
  BY DEF Histories
<1> QED
  BY <1>1, <1>2

(* The least set closed from c satisfies the recursive equation.           *)
LEMMA ReachExists ==
  ASSUME NEW h \in Histories, NEW cut
  PROVE  \E f : f = [c \in DOMAIN h |->
                      {c} \cup (IF c \in cut THEN {} ELSE UNION {f[p] : p \in h[c]})]
<1> DEFINE From(c) == {T \in SUBSET DOMAIN h : c \in T /\ Closed(h, T, cut)}
           g == [c \in DOMAIN h |-> {d \in DOMAIN h : \A T \in From(c) : d \in T}]
           More(c) == {c} \cup (IF c \in cut THEN {} ELSE UNION {g[p] : p \in h[c]})
<1>1. \A c \in DOMAIN h : h[c] \in SUBSET (DOMAIN h)
  BY HistoryTyped
<1>2. ASSUME NEW c \in DOMAIN h PROVE Closed(h, g[c], cut) /\ c \in g[c]
  BY <1>1 DEF Closed
<1>3. ASSUME NEW c \in DOMAIN h PROVE More(c) \subseteq g[c]
  <2>1. ASSUME NEW p \in h[c], c \notin cut, NEW d \in g[p] PROVE d \in g[c]
    <3>1. p \in DOMAIN h
      BY <1>1
    <3>2. \A T \in From(c) : T \in From(p)
      BY <1>1, <2>1 DEF Closed
    <3> QED
      BY <2>1, <3>1, <3>2
  <2>2. c \in g[c]
    BY <1>2
  <2> HIDE DEF g
  <2> QED
    BY <2>1, <2>2
<1>4. ASSUME NEW c \in DOMAIN h PROVE g[c] \subseteq More(c)
  <2>1. More(c) \in SUBSET DOMAIN h
    <3>1. \A p \in h[c] : p \in DOMAIN h /\ g[p] \in SUBSET DOMAIN h
      BY <1>1
    <3> HIDE DEF g
    <3> QED
      BY <3>1
  <2>2. Closed(h, More(c), cut)
    <3> SUFFICES ASSUME NEW d \in More(c), d \notin cut, NEW q \in h[d]
                 PROVE  q \in More(c)
      BY DEF Closed
    <3>1. CASE d = c
      <4>1. q \in g[q]
        BY <1>1, <1>2, <3>1
      <4> HIDE DEF g
      <4> QED
        BY <3>1, <4>1
    <3>2. CASE d # c
      <4> HIDE DEF g
      <4>1. c \notin cut
        BY <3>2
      <4>2. PICK p \in h[c] : d \in g[p]
        BY <3>2, <4>1
      <4>3. Closed(h, g[p], cut)
        BY <1>1, <1>2
      <4>4. q \in g[p]
        BY <4>2, <4>3 DEF Closed
      <4> QED
        BY <4>1, <4>2, <4>4
    <3> QED
      BY <3>1, <3>2
  <2>3. c \in More(c)
    OBVIOUS
  <2>4. More(c) \in From(c)
    BY <2>1, <2>2, <2>3
  <2> QED
    BY <2>4
<1>5. \A c \in DOMAIN h : g[c] = More(c)
  BY <1>3, <1>4
<1>6. g = [c \in DOMAIN h |-> g[c]]
  OBVIOUS
<1> HIDE DEF g
<1>7. g = [c \in DOMAIN h |-> More(c)]
  BY <1>5, <1>6
<1> QED
  BY <1>7

(* What can be walked to: the start, and the parents of everything in it   *)
(* that is not cut; and nothing that a set with these two properties need  *)
(* not hold.                                                               *)
LEMMA VisibleIsLeast ==
  ASSUME NEW h \in Histories, NEW cut, NEW S \in SUBSET DOMAIN h
  PROVE  /\ S \subseteq Visible(h, S, cut)
         /\ Visible(h, S, cut) \in SUBSET DOMAIN h
         /\ Closed(h, Visible(h, S, cut), cut)
         /\ \A T : S \subseteq T /\ Closed(h, T, cut) => Visible(h, S, cut) \subseteq T
<1> DEFINE reach == CHOOSE f : f = [c \in DOMAIN h |->
                      {c} \cup (IF c \in cut THEN {} ELSE UNION {f[p] : p \in h[c]})]
           Least(c) == /\ c \in reach[c]
                       /\ reach[c] \in SUBSET DOMAIN h
                       /\ Closed(h, reach[c], cut)
                       /\ \A T : c \in T /\ Closed(h, T, cut) => reach[c] \subseteq T
           bad == {c \in DOMAIN h : ~Least(c)}
<1>1. reach = [c \in DOMAIN h |->
                 {c} \cup (IF c \in cut THEN {} ELSE UNION {reach[p] : p \in h[c]})]
  BY ReachExists
<1>2. Visible(h, S, cut) = UNION {reach[c] : c \in S}
  BY DEF Visible
<1> HIDE DEF reach
<1>3. ASSUME NEW c \in DOMAIN h, \A p \in h[c] : Least(p) PROVE Least(c)
  <2>1. h[c] \in SUBSET DOMAIN h
    BY HistoryTyped
  <2>2. reach[c] = {c} \cup (IF c \in cut THEN {} ELSE UNION {reach[p] : p \in h[c]})
    BY <1>1
  <2>3. c \in reach[c] /\ reach[c] \in SUBSET DOMAIN h
    BY <1>3, <2>1, <2>2
  <2>4. Closed(h, reach[c], cut)
    <3> SUFFICES ASSUME NEW d \in reach[c], d \notin cut, NEW q \in h[d]
                 PROVE  q \in reach[c]
      BY DEF Closed
    <3>1. CASE d = c
      BY <1>3, <2>2, <3>1
    <3>2. CASE d # c
      <4>1. PICK p \in h[c] : d \in reach[p] /\ c \notin cut
        BY <2>2, <3>2
      <4>2. q \in reach[p]
        BY <1>3, <4>1 DEF Closed
      <4> QED
        BY <2>2, <4>1, <4>2
    <3> QED
      BY <3>1, <3>2
  <2>5. ASSUME NEW T, c \in T, Closed(h, T, cut) PROVE reach[c] \subseteq T
    <3>1. ASSUME c \notin cut, NEW p \in h[c] PROVE reach[p] \subseteq T
      <4>1. p \in T
        BY <2>5, <3>1 DEF Closed
      <4> QED
        BY <1>3, <2>5, <4>1
    <3> QED
      BY <2>2, <2>5, <3>1
  <2> QED
    BY <2>3, <2>4, <2>5
<1>4. bad = {}
  <2> SUFFICES ASSUME bad # {} PROVE FALSE
    OBVIOUS
  <2>1. bad \in SUBSET Nat
    BY HistoryTyped
  <2>2. PICK c \in bad : \A d \in bad : c <= d
    <3> HIDE DEF bad
    <3> QED
      BY <2>1, LeastExists
  <2>3. \A p \in h[c] : p \in DOMAIN h /\ p \in Nat /\ c \in Nat /\ p < c
    BY HistoryTyped
  <2>4. \A p \in h[c] : p \notin bad
    <3> HIDE DEF bad
    <3> QED
      BY <2>2, <2>3
  <2>5. \A p \in h[c] : Least(p)
    BY <2>3, <2>4
  <2>6. c \in DOMAIN h
    OBVIOUS
  <2> HIDE DEF Least
  <2>7. Least(c)
    BY <1>3, <2>5, <2>6
  <2> QED
    BY <2>7
<1>5. \A c \in S : Least(c)
  BY <1>4
<1>6. S \subseteq Visible(h, S, cut) /\ Visible(h, S, cut) \in SUBSET DOMAIN h
  BY <1>2, <1>5
<1>7. Closed(h, Visible(h, S, cut), cut)
  <2> SUFFICES ASSUME NEW d \in Visible(h, S, cut), d \notin cut
               PROVE  h[d] \subseteq Visible(h, S, cut)
    BY DEF Closed
  <2>1. PICK c \in S : d \in reach[c]
    BY <1>2
  <2>2. h[d] \subseteq reach[c]
    BY <1>5, <2>1 DEF Closed
  <2> QED
    BY <1>2, <2>1, <2>2
<1>8. ASSUME NEW T, S \subseteq T, Closed(h, T, cut) PROVE Visible(h, S, cut) \subseteq T
  <2>1. \A c \in S : reach[c] \subseteq T
    BY <1>5, <1>8
  <2> QED
    BY <1>2, <2>1
<1> QED
  BY <1>6, <1>7, <1>8

(* The least family that spreads from S satisfies the recursive equation.    *)
LEMMA WithinExists ==
  ASSUME NEW h \in Histories, NEW S \in SUBSET DOMAIN h
  PROVE  \E f : f = [k \in Nat |->
                      IF k = 0 THEN S ELSE f[k - 1] \cup ParentsOf(h, f[k - 1])]
<1> DEFINE Spread == {T \in [Nat -> SUBSET DOMAIN h] :
                        /\ S \subseteq T[0]
                        /\ \A k \in Nat : T[k] \cup ParentsOf(h, T[k]) \subseteq T[k + 1]}
           g == [k \in Nat |-> {d \in DOMAIN h : \A T \in Spread : d \in T[k]}]
           Step(k) == IF k = 0 THEN S ELSE g[k - 1] \cup ParentsOf(h, g[k - 1])
<1>1. \A T \in SUBSET DOMAIN h : ParentsOf(h, T) \in SUBSET DOMAIN h
  BY HistoryTyped DEF ParentsOf
<1>2. g \in [Nat -> SUBSET DOMAIN h]
  OBVIOUS
<1>3. ASSUME NEW k \in Nat PROVE Step(k) \in SUBSET DOMAIN h
  BY <1>1, <1>2, <1>3
<1>4. ASSUME NEW k \in Nat PROVE Step(k) \subseteq g[k]
  <2>1. ASSUME NEW d \in Step(k), NEW T \in Spread PROVE d \in T[k]
    <3>1. CASE k = 0
      BY <2>1, <3>1
    <3>2. CASE k # 0
      <4>1. k - 1 \in Nat /\ (k - 1) + 1 = k
        BY <3>2
      <4>2. g[k - 1] \subseteq T[k - 1]
        BY <4>1
      <4>3. T[k - 1] \cup ParentsOf(h, T[k - 1]) \subseteq T[k]
        BY <4>1
      <4>4. ParentsOf(h, g[k - 1]) \subseteq ParentsOf(h, T[k - 1])
        BY <4>2, ZenonT(60) DEF ParentsOf
      <4> QED
        BY <2>1, <3>2, <4>2, <4>3, <4>4
    <3> QED
      BY <3>1, <3>2
  <2>2. \A d \in Step(k) : d \in DOMAIN h
    BY <1>3
  <2> HIDE DEF Step, Spread
  <2> QED
    BY <2>1, <2>2
<1>5. ASSUME NEW k \in Nat PROVE g[k] \subseteq Step(k)
  <2> DEFINE T == [g EXCEPT ![k] = Step(k)]
  <2>1. T \in [Nat -> SUBSET DOMAIN h] /\ T[k] = Step(k)
        /\ \A m \in Nat : m # k => T[m] = g[m]
    BY <1>2, <1>3
  <2>2. S \subseteq T[0]
    <3>1. S \subseteq g[0]
      BY <1>4
    <3> HIDE DEF T, g
    <3> QED
      BY <2>1, <3>1
  <2>3. \A m \in Nat : g[m] \cup ParentsOf(h, g[m]) \subseteq Step(m + 1)
    OBVIOUS
  <2>4. ASSUME NEW m \in Nat PROVE T[m] \cup ParentsOf(h, T[m]) \subseteq T[m + 1]
    <3>1. T[m] \subseteq g[m]
      <4> HIDE DEF g, Step, T
      <4> QED
        BY <1>4, <2>1
    <3>2. ParentsOf(h, T[m]) \subseteq ParentsOf(h, g[m])
      <4> HIDE DEF g, T
      <4> QED
        BY <3>1 DEF ParentsOf
    <3>3. Step(m + 1) \subseteq T[m + 1]
      <4> HIDE DEF g, Step, T
      <4> QED
        BY <1>4, <2>1
    <3> HIDE DEF g, Step, T
    <3> QED
      BY <2>3, <3>1, <3>2, <3>3
  <2>5. T \in Spread
    <3> HIDE DEF T, g
    <3> QED
      BY <2>1, <2>2, <2>4
  <2>6. \A d \in g[k] : d \in T[k]
    <3> HIDE DEF T, Spread
    <3> QED
      BY <2>5
  <2> HIDE DEF T, g, Step
  <2> QED
    BY <2>1, <2>6
<1>6. \A k \in Nat : g[k] = Step(k)
  BY <1>4, <1>5
<1>7. g = [k \in Nat |-> g[k]]
  OBVIOUS
<1> HIDE DEF g
<1>8. g = [k \in Nat |-> Step(k)]
  BY <1>6, <1>7
<1> QED
  BY <1>8

(* One step more adds the parents.                                         *)
LEMMA WithinGrows ==
  ASSUME NEW h \in Histories, NEW S \in SUBSET DOMAIN h
  PROVE  /\ Within(h, S, 0) = S
         /\ \A n \in Nat : Within(h, S, n + 1) =
                             Within(h, S, n) \cup ParentsOf(h, Within(h, S, n))
<1> DEFINE near == CHOOSE f : f = [k \in Nat |->
                     IF k = 0 THEN S ELSE f[k - 1] \cup ParentsOf(h, f[k - 1])]
<1>1. near = [k \in Nat |->
                IF k = 0 THEN S ELSE near[k - 1] \cup ParentsOf(h, near[k - 1])]
  BY WithinExists
<1>2. \A n : Within(h, S, n) = near[n]
  BY DEF Within
<1> HIDE DEF near
<1>3. near[0] = S
  BY <1>1
<1>4. ASSUME NEW n \in Nat
      PROVE  near[n + 1] = near[n] \cup ParentsOf(h, near[n])
  <2>1. n + 1 \in Nat /\ n + 1 # 0 /\ (n + 1) - 1 = n
    OBVIOUS
  <2> QED
    BY <1>1, <2>1
<1> QED
  BY <1>2, <1>3, <1>4

LEMMA WithinTyped ==
  ASSUME NEW h \in Histories, NEW S \in SUBSET DOMAIN h
  PROVE  \A n \in Nat : Within(h, S, n) \in SUBSET DOMAIN h
<1> DEFINE bad == {n \in Nat : Within(h, S, n) \notin SUBSET DOMAIN h}
<1> SUFFICES ASSUME bad # {} PROVE FALSE
  OBVIOUS
<1>1. PICK n \in bad : \A m \in bad : n <= m
  <2>1. bad \in SUBSET Nat
    OBVIOUS
  <2> HIDE DEF bad
  <2> QED
    BY <2>1, LeastExists
<1>2. n # 0
  BY WithinGrows
<1>3. n - 1 \in Nat /\ (n - 1) + 1 = n
  BY <1>2
<1>4. Within(h, S, n - 1) \in SUBSET DOMAIN h
  <2>1. n - 1 \notin bad
    <3> HIDE DEF bad
    <3> QED
      BY <1>1, <1>3
  <2> QED
    BY <1>3, <2>1
<1>5. ParentsOf(h, Within(h, S, n - 1)) \in SUBSET DOMAIN h
  BY <1>4, HistoryTyped DEF ParentsOf
<1>6. Within(h, S, n) = Within(h, S, n - 1) \cup ParentsOf(h, Within(h, S, n - 1))
  <2>1. Within(h, S, (n - 1) + 1) = Within(h, S, n - 1) \cup ParentsOf(h, Within(h, S, n - 1))
    BY <1>3, WithinGrows
  <2> QED
    BY <1>3, <2>1
<1> QED
  BY <1>4, <1>5, <1>6

(* A clone cut at n steps can be walked down to where it is cut.           *)
LEMMA WithinClosed ==
  ASSUME NEW h \in Histories, NEW S \in SUBSET DOMAIN h, NEW n \in Nat
  PROVE  Closed(h, Within(h, S, n), Farthest(h, S, n)) /\ S \subseteq Within(h, S, n)
<1>1. CASE n = 0
  BY <1>1, WithinGrows DEF Farthest, Closed
<1>2. CASE n # 0
  <2>1. n - 1 \in Nat /\ (n - 1) + 1 = n
    BY <1>2
  <2>2. Within(h, S, n) = Within(h, S, n - 1) \cup ParentsOf(h, Within(h, S, n - 1))
    <3>1. Within(h, S, (n - 1) + 1)
            = Within(h, S, n - 1) \cup ParentsOf(h, Within(h, S, n - 1))
      BY <2>1, WithinGrows
    <3> QED
      BY <2>1, <3>1
  <2>3. Farthest(h, S, n) = Within(h, S, n) \ Within(h, S, n - 1)
    BY <1>2 DEF Farthest
  <2>4. Closed(h, Within(h, S, n), Farthest(h, S, n))
    BY <2>2, <2>3 DEF Closed, ParentsOf
  <2>5. S \subseteq Within(h, S, n)
    <3> DEFINE bad == {m \in Nat : ~(S \subseteq Within(h, S, m))}
    <3> SUFFICES ASSUME bad # {} PROVE FALSE
      OBVIOUS
    <3>1. PICK m \in bad : \A k \in bad : m <= k
      <4>1. bad \in SUBSET Nat
        OBVIOUS
      <4> HIDE DEF bad
      <4> QED
        BY <4>1, LeastExists
    <3>2. m # 0
      BY WithinGrows
    <3>3. m - 1 \in Nat /\ (m - 1) + 1 = m
      BY <3>2
    <3>4. m - 1 \notin bad
      <4> HIDE DEF bad
      <4> QED
        BY <3>1, <3>3
    <3>5. S \subseteq Within(h, S, m - 1)
      BY <3>3, <3>4
    <3>6. Within(h, S, m - 1) \subseteq Within(h, S, (m - 1) + 1)
      BY <3>3, WithinGrows
    <3> QED
      BY <3>3, <3>5, <3>6
  <2> QED
    BY <2>4, <2>5
<1> QED
  BY <1>1, <1>2

LEMMA VisibleFrom ==
  ASSUME NEW h \in Histories, NEW cut, NEW S \in SUBSET DOMAIN h, NEW T,
         S \subseteq T, Closed(h, T, cut)
  PROVE  Visible(h, S, cut) \subseteq T
  BY VisibleIsLeast

LEMMA AncIsLeast ==
  ASSUME NEW h \in Histories, NEW S \in SUBSET DOMAIN h
  PROVE  /\ S \subseteq Anc(h, S)
         /\ Anc(h, S) \in SUBSET DOMAIN h
         /\ \A c \in Anc(h, S) : h[c] \subseteq Anc(h, S)
         /\ \A T : S \subseteq T /\ (\A c \in T : h[c] \subseteq T) => Anc(h, S) \subseteq T
<1>1. Anc(h, S) = Visible(h, S, {})
  BY DEF Anc
<1>2. \A T : Closed(h, T, {}) <=> \A c \in T : h[c] \subseteq T
  BY DEF Closed
<1> QED
  BY <1>1, <1>2, VisibleIsLeast

(* What can be walked to in a cut history can be walked to in the whole.   *)
LEMMA VisibleInAnc ==
  ASSUME NEW h \in Histories, NEW cut, NEW S \in SUBSET DOMAIN h,
         NEW R \in SUBSET DOMAIN h, S \subseteq Anc(h, R)
  PROVE  Visible(h, S, cut) \subseteq Anc(h, R)
<1>1. Closed(h, Anc(h, R), cut)
  BY AncIsLeast DEF Closed
<1> QED
  BY <1>1, VisibleFrom

-----------------------------------------------------------------------------
(***************************************************************************)
(* The invariant.  Clones are well-formed while a walk needs one; what was *)
(* returned is known and what is buffered is new; what the walk has found, *)
(* returned or buffered, is closed under parents down to the boundary, and *)
(* once the walk is over past the boundary, as far as head reaches.        *)
(***************************************************************************)
Clones == [present : SUBSET Commits, shallow : SUBSET Commits,
           refs : [Branches -> Commits \cup {NONE}]]

WalkTyped ==
  /\ setup \in Setups
  /\ remote \in [Branches -> Commits]
  /\ clone = NONE \/ clone \in Clones
  /\ phase \in {"idle", "fetched", "walk", "end"}
  /\ phase \in {"fetched", "walk"} => clone \in Clones
  /\ phase = "fetched" => LocalTip(clone) \in Commits
  /\ phase \in {"walk", "end"} => head \in Commits
  /\ commits \in Seq(Commits) /\ yielded \in Seq(Commits)
  /\ strays \subseteq Commits

InRange(s) == {s[k] : k \in DOMAIN s}
Distinct(s) == \A i, j \in DOMAIN s : s[i] = s[j] => i = j

NoneTwice ==
  /\ seen = InRange(yielded) /\ Distinct(yielded)
  /\ Distinct(commits) /\ seen \cap InRange(commits) = {}

Found == seen \cup InRange(commits)

WalksOn ==
  phase \in {"walk", "end"} =>
    /\ head \in Found
    /\ Found \subseteq Anc(history, {head} \cup strays)
    /\ phase = "walk" => Closed(history, Found, clone.shallow)
    /\ done => parted \/ \A c \in Found \cap Anc(history, {head}) : history[c] \subseteq Found
    /\ phase = "end" => stopped \/ (done /\ commits = << >>)

Followed == {"main", "dev"}

Resolves(cl) ==
  \A b \in Followed :
    cl.refs[b] # NONE => Visible(history, {cl.refs[b]}, cl.shallow) \subseteq cl.present

Fetching == phase \in {"fetched", "walk"}

RefsSound == clone # NONE \/ Fetching => Resolves(clone)

WalkInv == WalkTyped /\ NoneTwice /\ WalksOn /\ RefsSound

LEMMA SetupGiven ==
  ASSUME setup \in Setups
  PROVE  /\ history \in Histories /\ Commits = DOMAIN history /\ 1 \in Commits
         /\ Commits = 1 .. Len(history) /\ Len(history) \in Nat
         /\ depth \in Nat /\ depth - 1 \in Nat /\ (depth - 1) + 1 = depth
<1>1. /\ history \in Seq(SUBSET Nat) /\ history # << >>
      /\ \A c \in DOMAIN history : history[c] \subseteq 1 .. (c - 1)
      /\ depth \in Nat \ {0}
  BY SetupAssumption DEF history, depth
<1>2. Commits = DOMAIN history /\ DOMAIN history = 1 .. Len(history) /\ Len(history) \in Nat
  BY <1>1 DEF Commits, history
<1>3. Len(history) # 0
  BY <1>1
<1>4. 1 \in Commits
  BY <1>2, <1>3
<1> QED
  BY <1>1, <1>2, <1>4 DEF Histories

LEMMA WantsTyped ==
  ASSUME setup \in Setups, remote \in [Branches -> Commits]
  PROVE  /\ Wants \in SUBSET DOMAIN history
         /\ remote["main"] \in Wants
         /\ tracked = "dev" => remote["dev"] \in Wants
  BY SetupGiven DEF Wants, Branches

LEMMA CollectedWalk ==
  ASSUME setup \in Setups, NEW cl, NEW start \in SUBSET Commits, NEW exclude
  PROVE  LET w == CollectWalk(cl, start, exclude)
         IN  /\ w \in Seq(Commits) /\ Distinct(w)
             /\ InRange(w) = Visible(history, start, cl.shallow) \ exclude
<1> DEFINE S == Visible(history, start, cl.shallow) \ exclude
           n == Cardinality(S)
           w == [k \in 1 .. n |-> NthOf(S, n + 1 - k)]
<1>1. CollectWalk(cl, start, exclude) = w
  BY DEF CollectWalk
<1>2. S \in SUBSET Commits /\ S \in SUBSET (1 .. Len(history)) /\ Len(history) \in Nat
  BY SetupGiven, VisibleIsLeast
<1> HIDE DEF S
<1>3. n \in Nat
  BY <1>2, RankProperties
<1>4. \A k \in 1 .. n : NthOf(S, k) \in S
  BY <1>2, NthProperties
<1>5. \A i \in S : RankIn(S, i) \in 1 .. n /\ NthOf(S, RankIn(S, i)) = i
  BY <1>2, NthProperties, RankProperties
<1>6. \A k, m \in 1 .. n : NthOf(S, k) = NthOf(S, m) => k = m
  <2>1. \A k, m \in 1 .. n : RankIn(S, NthOf(S, k)) = k
    BY <1>2, NthProperties
  <2> QED
    BY <2>1
<1> HIDE DEF n
<1>7. \A k \in 1 .. n : n + 1 - k \in 1 .. n
  BY <1>3
<1>8. DOMAIN w = 1 .. n /\ \A k \in 1 .. n : w[k] \in S
  BY <1>4, <1>7
<1>9. w \in Seq(Commits)
  <2>1. w \in [1 .. n -> Commits]
    BY <1>2, <1>8
  <2> HIDE DEF w
  <2> QED
    BY <1>3, <2>1
<1>10. Distinct(w)
  <2>1. ASSUME NEW i \in 1 .. n, NEW j \in 1 .. n, w[i] = w[j] PROVE i = j
    <3>1. n + 1 - i = n + 1 - j
      BY <1>6, <1>7, <2>1
    <3> QED
      BY <1>3, <3>1
  <2> QED
    BY <1>8, <2>1 DEF Distinct
<1>11. S \subseteq InRange(w)
  <2> SUFFICES ASSUME NEW i \in S PROVE \E k \in 1 .. n : w[k] = i
    BY <1>8 DEF InRange
  <2> DEFINE k == n + 1 - RankIn(S, i)
  <2>1. k \in 1 .. n /\ n + 1 - k = RankIn(S, i)
    <3>1. RankIn(S, i) \in 1 .. n
      BY <1>5
    <3> QED
      BY <1>3, <3>1
  <2>2. w[k] = i
    <3> HIDE DEF k
    <3> QED
      BY <1>5, <2>1
  <2> QED
    BY <2>1, <2>2
<1>12. InRange(w) \subseteq S
  BY <1>8 DEF InRange
<1> HIDE DEF w
<1> QED
  BY <1>1, <1>9, <1>10, <1>11, <1>12 DEF S

LEMMA ClonedTyped ==
  ASSUME setup \in Setups, remote \in [Branches -> Commits], NEW n \in {NONE, depth}
  PROVE  Cloned(n) \in Clones /\ LocalTip(Cloned(n)) \in Commits
<1> DEFINE cl == Cloned(n)
<1>1. Wants \in SUBSET DOMAIN history
  BY WantsTyped
<1>2. cl.present \in SUBSET Commits
  BY <1>1, SetupGiven, AncIsLeast, WithinTyped DEF Cloned
<1>3. cl.shallow \in SUBSET Commits
  BY <1>1, SetupGiven, WithinTyped DEF Cloned, Farthest
<1>4. cl.refs \in [Branches -> Commits \cup {NONE}]
  BY DEF Cloned, Branches
<1>5. LocalTip(cl) \in Commits
  BY DEF Cloned, LocalTip, Branches
<1> QED
  BY <1>2, <1>3, <1>4, <1>5 DEF Cloned, Clones

LEMMA FetchedTyped ==
  ASSUME remote \in [Branches -> Commits], NEW refs \in [Branches -> Commits \cup {NONE}]
  PROVE  Fetched(refs) \in [Branches -> Commits \cup {NONE}]
  BY DEF Fetched

LEMMA WithRefsTyped ==
  ASSUME remote \in [Branches -> Commits], NEW cl \in Clones
  PROVE  WithRefs(cl) \in Clones /\ LocalTip(WithRefs(cl)) \in Commits
  BY DEF WithRefs, Synced, IsSynced, LocalTip, Clones, Branches

LEMMA PulledTyped ==
  ASSUME setup \in Setups, remote \in [Branches -> Commits], clone \in Clones
  PROVE  PulledObjects \in Clones
<1>1. Visible(history, Wants, clone.shallow) \in SUBSET Commits
  BY WantsTyped, SetupGiven, VisibleIsLeast
<1>2. Fetched(clone.refs) \in [Branches -> Commits \cup {NONE}]
  BY FetchedTyped DEF Clones
<1> QED
  BY <1>1, <1>2 DEF PulledObjects, Clones

LEMMA DeepenedTyped ==
  ASSUME setup \in Setups, remote \in [Branches -> Commits], clone \in Clones
  PROVE  DeepenedObjects \in Clones
<1> DEFINE from == clone.shallow \cap Anc(history, Wants)
           shallow == (clone.shallow \ Within(history, from, depth - 1))
                        \cup Farthest(history, from, depth)
<1>1. clone.present \in SUBSET Commits /\ clone.shallow \in SUBSET Commits
      /\ clone.refs \in [Branches -> Commits \cup {NONE}]
  BY DEF Clones
<1>2. from \in SUBSET DOMAIN history
  BY <1>1, SetupGiven
<1>3. shallow \in SUBSET Commits
  BY <1>1, <1>2, SetupGiven, WithinTyped DEF Farthest
<1>4. Within(history, from, depth) \in SUBSET Commits
  BY <1>2, SetupGiven, WithinTyped
<1>5. Visible(history, Wants, shallow) \in SUBSET Commits
  BY WantsTyped, SetupGiven, VisibleIsLeast
<1>6. Fetched(clone.refs) \in [Branches -> Commits \cup {NONE}]
  BY <1>1, FetchedTyped
<1>7. DeepenedObjects = [present |-> clone.present \cup Within(history, from, depth)
                                       \cup Visible(history, Wants, shallow),
                         shallow |-> shallow, refs |-> Fetched(clone.refs)]
  BY DEF DeepenedObjects
<1> HIDE DEF from, shallow
<1> QED
  BY <1>1, <1>3, <1>4, <1>5, <1>6, <1>7 DEF Clones

-----------------------------------------------------------------------------
(***************************************************************************)
(* The references of the clone.                                            *)
(***************************************************************************)
(* A reference that is moved goes to a tip that was fetched.               *)
LEMMA MovedResolve ==
  ASSUME setup \in Setups, remote \in [Branches -> Commits],
         NEW cl \in Clones, NEW old \in [Branches -> Commits \cup {NONE}],
         \A b \in Followed : cl.refs[b] = old[b] \/ cl.refs[b] \in Wants,
         \A b \in Followed : old[b] # NONE =>
           Visible(history, {old[b]}, cl.shallow) \subseteq cl.present,
         Visible(history, Wants, cl.shallow) \subseteq cl.present
  PROVE  Resolves(cl)
<1> SUFFICES ASSUME NEW b \in Followed, cl.refs[b] # NONE
             PROVE  Visible(history, {cl.refs[b]}, cl.shallow) \subseteq cl.present
  BY DEF Resolves
<1>1. CASE cl.refs[b] = old[b]
  BY <1>1
<1>2. CASE cl.refs[b] \in Wants
  <2>1. /\ Wants \in SUBSET DOMAIN history /\ history \in Histories
        /\ {cl.refs[b]} \in SUBSET DOMAIN history
    BY <1>2, WantsTyped, SetupGiven
  <2>2. /\ Wants \subseteq Visible(history, Wants, cl.shallow)
        /\ Closed(history, Visible(history, Wants, cl.shallow), cl.shallow)
    BY <2>1, VisibleIsLeast
  <2>3. {cl.refs[b]} \subseteq Visible(history, Wants, cl.shallow)
    BY <1>2, <2>2
  <2>4. Visible(history, {cl.refs[b]}, cl.shallow) \subseteq Visible(history, Wants, cl.shallow)
    BY <2>1, <2>2, <2>3, VisibleFrom
  <2> QED
    BY <2>4
<1> QED
  BY <1>1, <1>2

LEMMA ClonedResolves ==
  ASSUME setup \in Setups, remote \in [Branches -> Commits], NEW n \in {NONE, depth}
  PROVE  Resolves(Cloned(n))
<1> DEFINE cl == Cloned(n)
<1>1. cl \in Clones
  BY ClonedTyped
<1>2. Wants \in SUBSET DOMAIN history /\ history \in Histories
  BY WantsTyped, SetupGiven
<1>3. \A b \in Followed : cl.refs[b] = NONE \/ cl.refs[b] \in Wants
  BY WantsTyped DEF Cloned, Followed, Branches
<1>4. Visible(history, Wants, cl.shallow) \subseteq cl.present
  <2>1. CASE n = NONE
    <3>1. cl.present = Anc(history, Wants)
      BY <2>1 DEF Cloned
    <3> HIDE DEF cl
    <3> QED
      BY <1>2, <3>1, AncIsLeast, VisibleInAnc
  <2>2. CASE n # NONE
    <3>1. /\ cl.present = Within(history, Wants, depth - 1)
          /\ cl.shallow = Farthest(history, Wants, depth - 1)
      BY <2>2 DEF Cloned
    <3>2. depth - 1 \in Nat
      BY SetupGiven
    <3> HIDE DEF cl
    <3> QED
      BY <1>2, <3>1, <3>2, WithinClosed, VisibleFrom
  <2> QED
    BY <2>1, <2>2
<1> DEFINE none == [b \in Branches |-> NONE]
<1>5. none \in [Branches -> Commits \cup {NONE}] /\ \A b \in Followed : none[b] = NONE
  BY DEF Followed, Branches
<1> HIDE DEF cl, none
<1>6. Resolves(cl)
  BY <1>1, <1>3, <1>4, <1>5, MovedResolve
<1> QED
  BY <1>6 DEF cl

LEMMA PulledResolves ==
  ASSUME setup \in Setups, remote \in [Branches -> Commits], clone \in Clones, Resolves(clone)
  PROVE  /\ Resolves(PulledObjects)
         /\ Visible(history, Wants, PulledObjects.shallow) \subseteq PulledObjects.present
<1> DEFINE cl == PulledObjects
<1>1. cl \in Clones
  BY PulledTyped
<1>2. /\ cl.present = clone.present \cup Visible(history, Wants, clone.shallow)
      /\ cl.shallow = clone.shallow /\ cl.refs = Fetched(clone.refs)
      /\ clone.refs \in [Branches -> Commits \cup {NONE}]
  BY DEF PulledObjects, Clones
<1>3. \A b \in Followed : cl.refs[b] = clone.refs[b] \/ cl.refs[b] \in Wants
  BY <1>2, WantsTyped DEF Fetched, Followed, Branches
<1> HIDE DEF cl
<1>4. \A b \in Followed : clone.refs[b] # NONE =>
        Visible(history, {clone.refs[b]}, cl.shallow) \subseteq cl.present
  BY <1>2 DEF Resolves
<1>5. Resolves(cl)
  BY <1>1, <1>2, <1>3, <1>4, MovedResolve
<1>6. Visible(history, Wants, cl.shallow) \subseteq cl.present
  BY <1>2
<1> QED
  BY <1>5, <1>6 DEF cl

(* A deepening cuts the history elsewhere: what could be walked to before, *)
(* with what was brought in, is closed down to the new boundary.           *)
LEMMA DeepenedResolves ==
  ASSUME setup \in Setups, remote \in [Branches -> Commits], clone \in Clones, Resolves(clone)
  PROVE  /\ Resolves(DeepenedObjects)
         /\ Visible(history, Wants, DeepenedObjects.shallow) \subseteq DeepenedObjects.present
<1> DEFINE from == clone.shallow \cap Anc(history, Wants)
           near == Within(history, from, depth - 1)
           new  == Within(history, from, depth)
           cl   == DeepenedObjects
<1>1. cl \in Clones
  BY DeepenedTyped
<1>2. /\ cl.shallow = (clone.shallow \ near) \cup Farthest(history, from, depth)
      /\ cl.present = clone.present \cup new \cup Visible(history, Wants, cl.shallow)
      /\ cl.refs = Fetched(clone.refs)
  BY DEF DeepenedObjects
<1>3. /\ clone.shallow \in SUBSET Commits
      /\ clone.refs \in [Branches -> Commits \cup {NONE}]
  BY DEF Clones
<1>4. /\ history \in Histories /\ Commits = DOMAIN history
      /\ depth \in Nat /\ depth - 1 \in Nat /\ (depth - 1) + 1 = depth
      /\ from \in SUBSET DOMAIN history
  BY <1>3, SetupGiven
<1>5. \A b \in Followed : cl.refs[b] = clone.refs[b] \/ cl.refs[b] \in Wants
  BY <1>2, <1>3, WantsTyped DEF Fetched, Followed, Branches
<1> HIDE DEF cl, from
<1>6. Closed(history, new, Farthest(history, from, depth))
  BY <1>4, WithinClosed
<1>7. near \subseteq new
  <2>1. Within(history, from, (depth - 1) + 1) = near \cup ParentsOf(history, near)
    BY <1>4, WithinGrows
  <2> QED
    BY <1>4, <2>1
<1> HIDE DEF near, new
<1>8. ASSUME NEW b \in Followed, clone.refs[b] # NONE
      PROVE  Visible(history, {clone.refs[b]}, cl.shallow) \subseteq cl.present
  <2> DEFINE r == {clone.refs[b]}
             old == Visible(history, r, clone.shallow)
  <2>1. r \in SUBSET DOMAIN history
    BY <1>3, <1>4, <1>8 DEF Followed, Branches
  <2> HIDE DEF r
  <2>2. /\ r \subseteq old
        /\ Closed(history, old, clone.shallow)
    BY <1>4, <2>1, VisibleIsLeast
  <2>3. old \subseteq clone.present
    BY <1>8 DEF Resolves, r
  <2> HIDE DEF old
  <2>4. Closed(history, old \cup new, cl.shallow)
    BY <1>2, <1>6, <1>7, <2>2 DEF Closed
  <2>5. Visible(history, r, cl.shallow) \subseteq old \cup new
    BY <1>4, <2>1, <2>2, <2>4, VisibleFrom
  <2> QED
    BY <1>2, <2>3, <2>5 DEF r
<1>9. Visible(history, Wants, cl.shallow) \subseteq cl.present
  BY <1>2
<1>10. Resolves(cl)
  BY <1>1, <1>3, <1>5, <1>8, <1>9, MovedResolve
<1> QED
  BY <1>9, <1>10 DEF cl

LEMMA WithRefsResolves ==
  ASSUME setup \in Setups, remote \in [Branches -> Commits], NEW cl \in Clones, Resolves(cl),
         Visible(history, Wants, cl.shallow) \subseteq cl.present
  PROVE  Resolves(WithRefs(cl))
<1> DEFINE moved == WithRefs(cl)
<1>1. moved \in Clones
  BY WithRefsTyped
<1>2. /\ moved.present = cl.present /\ moved.shallow = cl.shallow
      /\ moved.refs = Synced(cl.refs)
      /\ cl.refs \in [Branches -> Commits \cup {NONE}]
  BY DEF WithRefs, Clones
<1>3. \A b \in Followed : moved.refs[b] = cl.refs[b] \/ moved.refs[b] \in Wants
  BY <1>2, WantsTyped DEF Synced, IsSynced, Followed, Branches
<1> HIDE DEF moved
<1>4. \A b \in Followed : cl.refs[b] # NONE =>
        Visible(history, {cl.refs[b]}, moved.shallow) \subseteq moved.present
  BY <1>2 DEF Resolves
<1>5. Visible(history, Wants, moved.shallow) \subseteq moved.present
  BY <1>2
<1>6. Resolves(moved)
  BY <1>1, <1>2, <1>3, <1>4, <1>5, MovedResolve
<1> QED
  BY <1>6 DEF moved

LEMMA SetupStays ==
  ASSUME [Next]_vars
  PROVE  setup' = setup /\ history' = history /\ Commits' = Commits /\ Clones' = Clones
<1>1. setup' = setup
  BY DEF Next, Run, FetchOne, Start, Yield, NothingMore, Deepen, End, Leave, FetchFails,
         DeepenFails, RulesChange, LoseClone, Remote, Push, Rewrite, vars, cloneVars
<1>2. history' = history
  BY <1>1 DEF history
<1>3. Commits' = Commits
  BY <1>2 DEF Commits, history
<1>4. Clones' = Clones
  BY <1>3 DEF Clones, Branches
<1> QED
  BY <1>1, <1>2, <1>3, <1>4

LEMMA ResolvesNow ==
  ASSUME setup' = setup, Resolves(clone') PROVE RefsSound'
<1>1. history' = history
  BY DEF history
<1> QED
  BY <1>1 DEF RefsSound, Resolves

LEMMA RefsStay ==
  ASSUME RefsSound, setup' = setup, clone' = clone, Fetching' => Fetching
  PROVE  RefsSound'
<1>1. history' = history
  BY DEF history
<1> QED
  BY <1>1 DEF RefsSound, Resolves

(* Nothing but the remote and the clone moves while a walk is not on.      *)
LEMMA TypedElsewhere ==
  ASSUME WalkTyped, [Next]_vars, UNCHANGED walkVars, UNCHANGED strays,
         remote' \in [Branches -> Commits],
         clone' = clone \/ (phase = "idle" /\ (clone' = NONE \/ clone' \in Clones))
  PROVE  WalkTyped'
  BY SetupStays DEF WalkTyped, walkVars, LocalTip, tracked

LEMMA InitInv == Init => WalkInv
<1>1. SUFFICES ASSUME Init PROVE WalkInv
  OBVIOUS
<1>2. setup \in Setups /\ clone = NONE
  BY <1>1 DEF Init, CloneInit
<1>3. WalkTyped
  BY <1>1, <1>2, SetupGiven DEF Init, CloneInit, WalkTyped
<1>4. NoneTwice
  BY <1>1 DEF Init, NoneTwice, InRange, Distinct
<1>5. WalksOn
  BY <1>1 DEF Init, WalksOn
<1>6. RefsSound
  BY <1>1, <1>2 DEF Init, RefsSound, Fetching
<1> QED
  BY <1>3, <1>4, <1>5, <1>6 DEF WalkInv

LEMMA FetchOneKeeps == ASSUME WalkInv, FetchOne, [Next]_vars PROVE WalkInv'
<1>1. /\ setup \in Setups /\ remote \in [Branches -> Commits]
      /\ clone = NONE \/ clone \in Clones
      /\ remote' = remote /\ ShallowDepth \in {NONE, depth}
  BY DEF WalkInv, WalkTyped, FetchOne, ShallowDepth
<1>2. clone' \in Clones /\ LocalTip(clone') \in Commits /\ Resolves(clone')
  <2>1. CASE clone = NONE
    <3>1. clone' = Cloned(ShallowDepth)
      BY <2>1 DEF FetchOne
    <3> QED
      BY <1>1, <3>1, ClonedTyped, ClonedResolves
  <2>2. CASE clone # NONE
    <3>1. clone' = WithRefs(PulledObjects)
      BY <2>2 DEF FetchOne
    <3>2. /\ PulledObjects \in Clones /\ Resolves(PulledObjects)
          /\ Visible(history, Wants, PulledObjects.shallow) \subseteq PulledObjects.present
      BY <1>1, <2>2, PulledTyped, PulledResolves DEF WalkInv, RefsSound
    <3> QED
      BY <1>1, <3>1, <3>2, WithRefsTyped, WithRefsResolves
  <2> QED
    BY <2>1, <2>2
<1>3. LocalTip(clone)' = LocalTip(clone')
  BY SetupStays DEF LocalTip, tracked
<1>4. WalkTyped'
  BY <1>1, <1>2, <1>3, SetupStays DEF WalkInv, WalkTyped, FetchOne, ghosts
<1>5. NoneTwice'
  BY DEF FetchOne, WalkInv, NoneTwice, InRange, Distinct
<1>6. WalksOn'
  BY DEF FetchOne, WalksOn
<1>7. RefsSound'
  BY <1>2, SetupStays, ResolvesNow
<1> QED
  BY <1>4, <1>5, <1>6, <1>7 DEF WalkInv

(* Between walks the clone is replaced by another that can be walked.      *)
LEMMA IdleKeeps ==
  ASSUME WalkInv, [Next]_vars, UNCHANGED walkVars, UNCHANGED strays, phase = "idle",
         UNCHANGED remote, clone' = NONE \/ (clone' \in Clones /\ Resolves(clone'))
  PROVE  WalkInv'
<1>1. WalkTyped'
  BY TypedElsewhere DEF WalkInv, WalkTyped
<1>2. NoneTwice'
  BY DEF WalkInv, NoneTwice, InRange, Distinct, walkVars
<1>3. WalksOn'
  BY DEF WalksOn, walkVars
<1>4. RefsSound'
  <2>1. CASE clone' = NONE
    BY <2>1 DEF RefsSound, Fetching, walkVars
  <2>2. CASE Resolves(clone')
    BY <2>2, SetupStays, ResolvesNow
  <2> QED
    BY <2>1, <2>2
<1> QED
  BY <1>1, <1>2, <1>3, <1>4 DEF WalkInv

LEMMA FetchFailsKeeps == ASSUME WalkInv, FetchFails, [Next]_vars PROVE WalkInv'
<1>1. /\ setup \in Setups /\ remote \in [Branches -> Commits]
      /\ clone = NONE \/ clone \in Clones
  BY DEF WalkInv, WalkTyped
<1>2. clone # NONE => Resolves(clone) /\ PulledObjects \in Clones /\ Resolves(PulledObjects)
  BY <1>1, PulledTyped, PulledResolves DEF WalkInv, RefsSound
<1>3. EmptyClone \in Clones /\ Resolves(EmptyClone)
  BY DEF EmptyClone, Clones, Resolves, Followed, Branches
<1>4. clone' = clone \/ clone' = IF clone = NONE THEN EmptyClone ELSE PulledObjects
  BY DEF FetchFails
<1>5. clone' = NONE \/ (clone' \in Clones /\ Resolves(clone'))
  BY <1>1, <1>2, <1>3, <1>4
<1> QED
  BY <1>5, IdleKeeps DEF FetchFails, ghosts

LEMMA StartKeeps == ASSUME WalkInv, Start, [Next]_vars PROVE WalkInv'
<1> DEFINE w == CollectWalk(clone, {head'}, {})
<1>1. /\ setup \in Setups /\ clone \in Clones /\ head' \in Commits
      /\ commits' = w /\ seen' = {} /\ yielded' = << >> /\ phase' = "walk"
      /\ clone' = clone /\ remote' = remote /\ strays' = {} /\ done' = FALSE
  BY DEF WalkInv, WalkTyped, Start, cloneVars
<1>2. {head'} \in SUBSET Commits /\ {head'} \in SUBSET DOMAIN history
      /\ history \in Histories
  BY <1>1, SetupGiven
<1>3. /\ w \in Seq(Commits) /\ Distinct(w)
      /\ InRange(w) = Visible(history, {head'}, clone.shallow) \ {}
  BY <1>1, <1>2, CollectedWalk
<1>4. WalkTyped'
  BY <1>1, <1>3, SetupStays DEF WalkInv, WalkTyped
<1>5. NoneTwice'
  BY <1>1, <1>3 DEF NoneTwice, InRange, Distinct
<1>6. Found' = Visible(history, {head'}, clone.shallow)
  BY <1>1, <1>3 DEF Found, InRange
<1>7. WalksOn'
  <2>1. head' \in Found' /\ Closed(history, Found', clone.shallow)
    BY <1>2, <1>6, VisibleIsLeast
  <2>2. Found' \subseteq Anc(history, {head'} \cup {})
    BY <1>2, <1>6, AncIsLeast, VisibleInAnc
  <2> QED
    BY <1>1, <2>1, <2>2, SetupStays DEF WalksOn
<1>8. RefsSound'
  BY <1>1, SetupStays, RefsStay DEF Start, WalkInv, Fetching
<1> QED
  BY <1>4, <1>5, <1>7, <1>8 DEF WalkInv

(* A commit goes from the buffer to what was returned.                     *)
LEMMA YieldKeeps == ASSUME WalkInv, Yield, [Next]_vars PROVE WalkInv'
<1> DEFINE c == Head(commits)
<1>1. /\ commits \in Seq(Commits) /\ yielded \in Seq(Commits) /\ commits # << >>
      /\ commits' = Tail(commits) /\ seen' = seen \cup {c} /\ yielded' = Append(yielded, c)
      /\ UNCHANGED <<setup, remote, clone, phase, head, done, parted, strays>>
  BY DEF WalkInv, WalkTyped, Yield, cloneVars, ghosts
<1>2. /\ c \in Commits /\ Len(commits) \in Nat \ {0} /\ DOMAIN commits = 1 .. Len(commits)
      /\ c = commits[1]
  BY <1>1
<1>3. /\ commits' \in Seq(Commits) /\ DOMAIN commits' = 1 .. (Len(commits) - 1)
      /\ \A k \in DOMAIN commits' : commits'[k] = commits[k + 1]
  BY <1>1, <1>2
<1>4. /\ yielded' \in Seq(Commits)
      /\ DOMAIN yielded' = DOMAIN yielded \cup {Len(yielded) + 1}
      /\ Len(yielded) + 1 \notin DOMAIN yielded
      /\ yielded'[Len(yielded) + 1] = c
      /\ \A k \in DOMAIN yielded : yielded'[k] = yielded[k]
  BY <1>1, <1>2
<1>5. /\ c \in InRange(commits)
      /\ InRange(commits) = {c} \cup InRange(commits')
      /\ \A k \in DOMAIN commits' : commits'[k] # c
  <2>1. \A k \in DOMAIN commits : k # 1 => k - 1 \in DOMAIN commits' /\ (k - 1) + 1 = k
    BY <1>2, <1>3
  <2>2. \A k \in DOMAIN commits : k # 1 => commits[k] \in InRange(commits')
    BY <1>3, <2>1 DEF InRange
  <2>3. \A k \in DOMAIN commits' : k + 1 \in DOMAIN commits /\ k + 1 # 1
    BY <1>2, <1>3
  <2>4. 1 \in DOMAIN commits /\ Distinct(commits)
    BY <1>2 DEF WalkInv, NoneTwice
  <2> QED
    BY <1>2, <1>3, <2>2, <2>3, <2>4 DEF InRange, Distinct
<1> HIDE DEF c
<1>6. WalkTyped'
  BY <1>1, <1>3, <1>4, SetupStays DEF WalkInv, WalkTyped, LocalTip, tracked
<1>7. NoneTwice'
  <2>1. /\ seen = InRange(yielded) /\ Distinct(yielded) /\ Distinct(commits)
        /\ seen \cap InRange(commits) = {}
    BY DEF WalkInv, NoneTwice
  <2>2. InRange(yielded') = InRange(yielded) \cup {c}
    BY <1>4 DEF InRange
  <2>3. Distinct(yielded')
    <3>1. \A k \in DOMAIN yielded : yielded[k] # c
      BY <1>5, <2>1 DEF InRange
    <3> QED
      BY <1>4, <2>1, <3>1 DEF Distinct
  <2>4. Distinct(commits')
    <3>1. \A k \in DOMAIN commits' : k \in Nat /\ k + 1 \in DOMAIN commits
      BY <1>2, <1>3
    <3>2. \A i, j \in DOMAIN commits' : commits'[i] = commits'[j] => i + 1 = j + 1
      BY <1>3, <2>1, <3>1 DEF Distinct
    <3> QED
      BY <3>1, <3>2 DEF Distinct
  <2>5. seen' \cap InRange(commits') = {}
    BY <1>1, <1>5, <2>1 DEF InRange
  <2> QED
    BY <1>1, <2>1, <2>2, <2>3, <2>4, <2>5 DEF NoneTwice
<1>8. Found' = Found
  BY <1>1, <1>5 DEF Found
<1>9. WalksOn'
  <2>1. phase = "walk" /\ WalksOn
    BY DEF Yield, WalkInv
  <2>2. /\ head' \in Found'
        /\ Found' \subseteq Anc(history', {head'} \cup strays')
        /\ Closed(history', Found', clone'.shallow)
    BY <1>1, <1>8, <2>1, SetupStays DEF WalksOn
  <2>3. done' => parted' \/ \A d \in Found' \cap Anc(history', {head'}) :
                              history'[d] \subseteq Found'
    BY <1>1, <1>8, <2>1, SetupStays DEF WalksOn
  <2> QED
    BY <1>1, <2>1, <2>2, <2>3 DEF WalksOn
<1>10. RefsSound'
  BY <1>1, SetupStays, RefsStay DEF WalkInv, Fetching
<1> QED
  BY <1>6, <1>7, <1>9, <1>10 DEF WalkInv

(* Steps that leave the buffer, what was returned and the clone alone.     *)
LEMMA RestKeeps ==
  ASSUME WalkInv, [Next]_vars, UNCHANGED <<remote, clone, commits, seen, yielded, strays>>,
         Fetching' => Fetching
  PROVE  /\ NoneTwice' /\ Found' = Found /\ RefsSound'
         /\ commits' \in Seq(Commits) /\ yielded' \in Seq(Commits)
<1>1. NoneTwice' /\ Found' = Found
  BY DEF WalkInv, NoneTwice, Found, InRange, Distinct
<1>2. RefsSound'
  BY SetupStays, RefsStay DEF WalkInv
<1> QED
  BY <1>1, <1>2 DEF WalkInv, WalkTyped

(* With no boundary everything found is closed under all parents.          *)
LEMMA NothingMoreKeeps == ASSUME WalkInv, NothingMore, [Next]_vars PROVE WalkInv'
<1>1. /\ UNCHANGED <<setup, remote, clone, phase, head, commits, seen, yielded, parted, strays>>
      /\ phase = "walk" /\ clone.shallow = {}
  BY DEF NothingMore, cloneVars, ghosts, IsShallow
<1>2. /\ NoneTwice' /\ Found' = Found /\ RefsSound'
      /\ commits' \in Seq(Commits) /\ yielded' \in Seq(Commits)
  BY <1>1, RestKeeps DEF Fetching
<1>3. WalkTyped'
  BY <1>1, <1>2, SetupStays DEF WalkInv, WalkTyped, LocalTip, tracked
<1>4. \A c \in Found : history[c] \subseteq Found
  BY <1>1 DEF WalkInv, WalksOn, Closed
<1>5. WalksOn'
  BY <1>1, <1>2, <1>4, SetupStays DEF WalkInv, WalksOn
<1> QED
  BY <1>2, <1>3, <1>5 DEF WalkInv

LEMMA EndKeeps == ASSUME WalkInv, End, [Next]_vars PROVE WalkInv'
<1>1. /\ UNCHANGED <<setup, remote, clone, head, commits, seen, done, yielded, stopped,
                     parted, strays>>
      /\ phase = "walk" /\ phase' = "end" /\ (stopped \/ (commits = << >> /\ done))
  BY DEF End, cloneVars, ghosts
<1>2. /\ NoneTwice' /\ Found' = Found /\ RefsSound'
      /\ commits' \in Seq(Commits) /\ yielded' \in Seq(Commits)
  BY <1>1, RestKeeps DEF Fetching
<1>3. WalkTyped'
  BY <1>1, <1>2, SetupStays DEF WalkInv, WalkTyped
<1>4. WalksOn'
  BY <1>1, <1>2, SetupStays DEF WalkInv, WalksOn
<1> QED
  BY <1>2, <1>3, <1>4 DEF WalkInv

LEMMA LeaveKeeps == ASSUME WalkInv, Leave, [Next]_vars PROVE WalkInv'
<1>1. /\ UNCHANGED <<setup, remote, clone>> /\ phase' = "idle"
      /\ commits' = << >> /\ seen' = {} /\ yielded' = << >> /\ strays' = {}
  BY DEF Leave, cloneVars
<1>2. WalkTyped'
  BY <1>1, SetupStays DEF WalkInv, WalkTyped
<1>3. NoneTwice'
  BY <1>1 DEF NoneTwice, InRange, Distinct
<1>4. WalksOn'
  BY <1>1 DEF WalksOn
<1>5. RefsSound'
  BY <1>1, SetupStays, RefsStay DEF WalkInv, Fetching, walkVars
<1> QED
  BY <1>2, <1>3, <1>4, <1>5 DEF WalkInv

LEMMA RemoteKeeps == ASSUME WalkInv, Remote, [Next]_vars PROVE WalkInv'
<1>1. /\ UNCHANGED <<setup, clone, walkVars, parted, strays>>
      /\ remote' \in [Branches -> Commits]
  BY DEF Remote, Push, Rewrite, WalkInv, WalkTyped, ghosts, Branches
<1>2. WalkTyped'
  BY <1>1, TypedElsewhere DEF WalkInv
<1>3. NoneTwice' /\ Found' = Found
  BY <1>1 DEF WalkInv, NoneTwice, Found, InRange, Distinct, walkVars
<1>4. WalksOn'
  BY <1>1, <1>3, SetupStays DEF WalkInv, WalksOn, walkVars
<1>5. RefsSound'
  BY <1>1, SetupStays, RefsStay DEF WalkInv, Fetching, walkVars
<1> QED
  BY <1>2, <1>3, <1>4, <1>5 DEF WalkInv

LEMMA DeepenFailsKeeps == ASSUME WalkInv, DeepenFails, [Next]_vars PROVE WalkInv'
<1>1. /\ setup \in Setups /\ remote \in [Branches -> Commits] /\ clone \in Clones
      /\ phase = "walk" /\ phase' = "idle" /\ Resolves(clone)
      /\ UNCHANGED <<setup, remote, commits, seen, yielded, strays>>
      /\ clone' \in {clone, DeepenedObjects}
  BY DEF WalkInv, WalkTyped, RefsSound, Fetching, DeepenFails, ghosts
<1>2. CASE clone' = clone
  <2>1. RefsSound'
    BY <1>1, <1>2, ResolvesNow
  <2>2. WalkTyped'
    BY <1>1, <1>2, SetupStays DEF WalkInv, WalkTyped
  <2>3. NoneTwice' /\ WalksOn'
    BY <1>1 DEF WalkInv, NoneTwice, InRange, Distinct, WalksOn
  <2> QED
    BY <2>1, <2>2, <2>3 DEF WalkInv
<1>3. CASE clone' = DeepenedObjects
  <2>1. clone' \in Clones /\ Resolves(clone')
    BY <1>1, <1>3, DeepenedTyped, DeepenedResolves
  <2>2. RefsSound'
    BY <1>1, <2>1, ResolvesNow
  <2>3. WalkTyped'
    BY <1>1, <2>1, SetupStays DEF WalkInv, WalkTyped
  <2>4. NoneTwice' /\ WalksOn'
    BY <1>1 DEF WalkInv, NoneTwice, InRange, Distinct, WalksOn
  <2> QED
    BY <2>2, <2>3, <2>4 DEF WalkInv
<1> QED
  BY <1>1, <1>2, <1>3

(* The boundary moves away from the commits the deepening started from.    *)
LEMMA BoundaryMoves ==
  ASSUME setup \in Setups, NEW old \in SUBSET Commits
  PROVE  LET from == old \cap Anc(history, Wants)
             near == Within(history, from, depth - 1)
             new  == (old \ near) \cup Farthest(history, from, depth)
         IN  from \cap new = {}
<1> DEFINE from == old \cap Anc(history, Wants)
           near == Within(history, from, depth - 1)
<1>1. /\ history \in Histories /\ from \in SUBSET DOMAIN history
      /\ depth - 1 \in Nat /\ depth \in Nat /\ (depth - 1) + 1 = depth
  BY SetupGiven
<1> HIDE DEF from
<1>2. from \subseteq near
  BY <1>1, WithinClosed
<1>3. Farthest(history, from, depth) \cap near = {}
  BY <1>1 DEF Farthest
<1> HIDE DEF near
<1>4. from \cap ((old \ near) \cup Farthest(history, from, depth)) = {}
  BY <1>2, <1>3
<1> QED
  BY <1>4 DEF from, near

(* The next buffer hangs below the old boundary, and with it everything    *)
(* found is closed down to the new one.  When nothing new was found, a     *)
(* commit that head reaches lay above the old boundary, or lies above the  *)
(* new one, unless the server has lost that part of the old boundary.      *)
LEMMA DeepenKeeps == ASSUME WalkInv, Deepen, [Next]_vars PROVE WalkInv'
<1> DEFINE old  == clone.shallow
           from == old \cap Anc(history, Wants)
           lost == ~(old \cap Anc(history, {head}) \subseteq Anc(history, Wants))
           more == CollectWalk(clone', old, seen)
           way  == Visible(history, old, clone'.shallow)
<1>1. /\ setup \in Setups /\ remote \in [Branches -> Commits] /\ clone \in Clones
      /\ phase = "walk" /\ commits = << >> /\ Resolves(clone)
      /\ yielded \in Seq(Commits) /\ strays \subseteq Commits /\ head \in Commits
  BY DEF WalkInv, WalkTyped, RefsSound, Fetching, Deepen
<1>2. /\ clone' = WithRefs(DeepenedObjects)
      /\ UNCHANGED <<setup, remote, phase, head, seen, yielded>>
  BY DEF Deepen
<1>3. /\ commits' = IF clone'.shallow # old THEN more ELSE << >>
      /\ done' = (commits' = << >>)
      /\ strays' = strays \cup IF clone'.shallow # old THEN old \ Anc(history, {head}) ELSE {}
      /\ parted' = (parted \/ lost)
  BY DEF Deepen, Resumed
<1>4. /\ clone' \in Clones /\ Resolves(clone') /\ LocalTip(clone') \in Commits
      /\ clone'.shallow = DeepenedObjects.shallow
  <2>1. /\ DeepenedObjects \in Clones /\ Resolves(DeepenedObjects)
        /\ Visible(history, Wants, DeepenedObjects.shallow) \subseteq DeepenedObjects.present
    BY <1>1, DeepenedTyped, DeepenedResolves
  <2>2. WithRefs(DeepenedObjects).shallow = DeepenedObjects.shallow
    BY <2>1 DEF WithRefs, Clones
  <2> QED
    BY <1>1, <1>2, <2>1, <2>2, WithRefsTyped, WithRefsResolves
<1>5. /\ history \in Histories /\ Commits = DOMAIN history
      /\ old \in SUBSET Commits /\ {head} \in SUBSET DOMAIN history
      /\ strays \in SUBSET DOMAIN history /\ seen \in SUBSET Commits
  <2>1. seen = InRange(yielded)
    BY DEF WalkInv, NoneTwice
  <2>2. InRange(yielded) \subseteq Commits
    BY <1>1 DEF InRange
  <2> QED
    BY <1>1, <2>1, <2>2, SetupGiven DEF Clones
<1>6. from \cap clone'.shallow = {}
  BY <1>1, <1>4, <1>5, BoundaryMoves DEF DeepenedObjects
<1>7. ASSUME NEW c \in old \cap Anc(history, {head}), ~lost PROVE c \notin clone'.shallow
  BY <1>6, <1>7
<1>8. /\ more \in Seq(Commits) /\ Distinct(more) /\ InRange(more) = way \ seen
  BY <1>1, <1>5, CollectedWalk
<1>9. /\ old \subseteq way /\ Closed(history, way, clone'.shallow)
  BY <1>5, VisibleIsLeast
<1>10. /\ Found = seen /\ head \in seen /\ Closed(history, seen, old)
       /\ seen \subseteq Anc(history, {head} \cup strays)
  <2>1. InRange(commits) = {}
    BY <1>1 DEF InRange
  <2>2. WalksOn /\ Found = seen
    BY <2>1 DEF WalkInv, Found
  <2> QED
    BY <1>1, <2>2 DEF WalksOn
<1> HIDE DEF lost, more, way, old, from
<1>11. /\ Found' = IF clone'.shallow # old THEN seen \cup way ELSE seen
       /\ done' => Found' = seen
       /\ commits' \in Seq(Commits) /\ Distinct(commits')
       /\ seen \cap InRange(commits') = {}
  <2>1. CASE clone'.shallow # old
    <3>1. commits' = more
      BY <1>3, <2>1
    <3>2. Found' = seen \cup way
      BY <1>2, <1>8, <3>1 DEF Found
    <3>3. ASSUME done' PROVE way \ seen = {}
      <4>1. commits' = << >>
        BY <1>3, <3>3
      <4>2. InRange(<< >>) = {}
        BY DEF InRange
      <4> QED
        BY <1>8, <3>1, <4>1, <4>2
    <3> QED
      BY <1>8, <2>1, <3>1, <3>2, <3>3
  <2>2. CASE clone'.shallow = old
    <3>1. commits' = << >> /\ InRange(commits') = {}
      BY <1>3, <2>2 DEF InRange
    <3>2. Found' = seen
      BY <1>2, <3>1 DEF Found
    <3> QED
      BY <2>2, <3>1, <3>2 DEF Distinct
  <2> QED
    BY <2>1, <2>2
<1>12. Closed(history, Found', clone'.shallow)
  <2>1. CASE clone'.shallow # old
    BY <1>9, <1>10, <1>11, <2>1 DEF Closed
  <2>2. CASE clone'.shallow = old
    BY <1>10, <1>11, <2>2
  <2> QED
    BY <2>1, <2>2
<1>13. strays' \subseteq Commits /\ Found' \subseteq Anc(history, {head} \cup strays')
  <2>1. strays' \in SUBSET Commits /\ strays \subseteq strays'
    BY <1>1, <1>3, <1>5
  <2> DEFINE R == {head} \cup strays'
  <2>2. R \in SUBSET DOMAIN history /\ {head} \cup strays \subseteq R /\ {head} \subseteq R
        /\ {head} \cup strays \in SUBSET DOMAIN history
    BY <1>5, <2>1
  <2> HIDE DEF R
  <2>3. R \subseteq Anc(history, R)
    BY <1>5, <2>2, AncIsLeast
  <2>4. seen \subseteq Anc(history, R)
    <3>1. Anc(history, {head} \cup strays) \subseteq Anc(history, R)
      <4>1. {head} \cup strays \subseteq Anc(history, R)
        BY <2>2, <2>3
      <4> QED
        BY <1>5, <2>2, <4>1, VisibleInAnc DEF Anc
    <3> QED
      BY <1>10, <3>1
  <2>5. CASE clone'.shallow # old
    <3>1. Anc(history, {head}) \subseteq Anc(history, R)
      <4>1. {head} \subseteq Anc(history, R)
        BY <2>2, <2>3
      <4> QED
        BY <1>5, <2>2, <4>1, VisibleInAnc DEF Anc
    <3>2. old \ Anc(history, {head}) \subseteq R
      BY <1>3, <2>5 DEF R
    <3>3. old \subseteq Anc(history, R)
      BY <2>3, <3>1, <3>2
    <3>4. way \subseteq Anc(history, R)
      BY <1>5, <2>2, <3>3, VisibleInAnc DEF way
    <3> QED
      BY <1>11, <2>1, <2>4, <2>5, <3>4 DEF R
  <2>6. CASE clone'.shallow = old
    BY <1>11, <2>1, <2>4, <2>6 DEF R
  <2> QED
    BY <2>5, <2>6
<1>14. ASSUME done', ~lost, NEW c \in Found' \cap Anc(history, {head})
       PROVE  history[c] \subseteq Found'
  <2>1. Found' = seen
    BY <1>11, <1>14
  <2>2. CASE c \notin old
    BY <1>10, <1>14, <2>1, <2>2 DEF Closed
  <2>3. CASE c \in old
    BY <1>7, <1>12, <1>14, <2>3 DEF Closed
  <2> QED
    BY <2>2, <2>3
<1>15. WalkTyped'
  BY <1>1, <1>2, <1>4, <1>11, <1>13, SetupStays DEF WalkTyped
<1>16. NoneTwice'
  BY <1>2, <1>11 DEF WalkInv, NoneTwice, InRange, Distinct
<1>17. WalksOn'
  <2>1. phase' = "walk" /\ head' = head /\ history' = history
    BY <1>1, <1>2, SetupStays
  <2>2. head' \in Found'
    BY <1>10, <1>11, <2>1
  <2>3. done' => parted' \/ \A c \in Found' \cap Anc(history, {head}) : history[c] \subseteq Found'
    BY <1>3, <1>14
  <2> QED
    BY <1>12, <1>13, <2>1, <2>2, <2>3 DEF WalksOn
<1>18. RefsSound'
  BY <1>2, <1>4, ResolvesNow
<1> QED
  BY <1>15, <1>16, <1>17, <1>18 DEF WalkInv

LEMMA WalkInvNext == WalkInv /\ [Next]_vars => WalkInv'
<1>1. SUFFICES ASSUME WalkInv, [Next]_vars PROVE WalkInv'
  OBVIOUS
<1>2. CASE FetchOne
  BY <1>1, <1>2, FetchOneKeeps
<1>3. CASE Start
  BY <1>1, <1>3, StartKeeps
<1>4. CASE Yield
  BY <1>1, <1>4, YieldKeeps
<1>5. CASE NothingMore
  BY <1>1, <1>5, NothingMoreKeeps
<1>6. CASE Deepen
  BY <1>1, <1>6, DeepenKeeps
<1>7. CASE End
  BY <1>1, <1>7, EndKeeps
<1>8. CASE Leave
  BY <1>1, <1>8, LeaveKeeps
<1>9. CASE FetchFails
  BY <1>1, <1>9, FetchFailsKeeps
<1>10. CASE DeepenFails
  BY <1>1, <1>10, DeepenFailsKeeps
<1>11. CASE RulesChange
  <2>1. UNCHANGED <<remote, clone, commits, seen, yielded, strays, setup>>
        /\ UNCHANGED walkVars /\ phase = "idle"
    BY <1>11 DEF RulesChange, cloneVars, walkVars, ghosts
  <2>2. WalkTyped'
    BY <1>1, <2>1, SetupStays DEF WalkInv, WalkTyped, walkVars
  <2>3. NoneTwice' /\ RefsSound'
    BY <1>1, <2>1, RestKeeps DEF Fetching, walkVars
  <2>4. WalksOn'
    BY <2>1 DEF WalksOn, walkVars
  <2> QED
    BY <2>2, <2>3, <2>4 DEF WalkInv
<1>12. CASE LoseClone
  BY <1>1, <1>12, IdleKeeps DEF LoseClone, ghosts
<1>13. CASE Remote
  BY <1>1, <1>13, RemoteKeeps
<1>14. CASE UNCHANGED vars
  <2>1. UNCHANGED <<remote, clone, commits, seen, yielded, strays, setup>>
        /\ UNCHANGED <<phase, head, done, stopped, parted>>
    BY <1>14 DEF vars, cloneVars, walkVars, ghosts
  <2>2. WalkTyped'
    BY <1>1, <2>1, SetupStays DEF WalkInv, WalkTyped, LocalTip, tracked
  <2>3. NoneTwice' /\ RefsSound' /\ Found' = Found
    BY <1>1, <2>1, RestKeeps DEF Fetching
  <2>4. WalksOn'
    BY <1>1, <2>1, <2>3, SetupStays DEF WalkInv, WalksOn
  <2> QED
    BY <2>2, <2>3, <2>4 DEF WalkInv
<1> QED
  BY <1>1, <1>2, <1>3, <1>4, <1>5, <1>6, <1>7, <1>8, <1>9, <1>10, <1>11, <1>12, <1>13, <1>14
     DEF Next, Run

(***************************************************************************)
(* The theorems.                                                           *)
(***************************************************************************)

\* A walk returns no commit twice, though a commit may hang below the tip, below
\* several boundary commits and below those of every later deepening.
THEOREM YieldedOnceAlways == Spec => []YieldedOnce
<1>1. WalkInv => YieldedOnce
  BY DEF WalkInv, NoneTwice, Distinct, YieldedOnce
<1> QED
  BY <1>1, InitInv, WalkInvNext, PTL DEF Spec

\* A walk that ends by itself has returned every ancestor of its head, in spite of a
\* remote that moves and of clones cut short, unless the remote dropped a part of the
\* walk's boundary under way; and only what hangs below that boundary besides.
THEOREM WalkCompleteAlways == Spec => []WalkComplete
<1>1. WalkInv => WalkComplete
  <2> SUFFICES ASSUME WalkInv, phase = "end", ~stopped, ~parted
               PROVE  /\ Anc(history, {head}) \subseteq Returned
                      /\ Returned \subseteq Anc(history, {head} \cup strays)
    BY DEF WalkComplete
  <2>1. /\ head \in Found /\ Found \subseteq Anc(history, {head} \cup strays)
        /\ done /\ commits = << >>
    BY DEF WalkInv, WalksOn
  <2>2. \A c \in Found \cap Anc(history, {head}) : history[c] \subseteq Found
    BY <2>1 DEF WalkInv, WalksOn
  <2>3. Found = Returned
    BY <2>1 DEF WalkInv, NoneTwice, Found, InRange, Returned
  <2>4. history \in Histories /\ {head} \in SUBSET DOMAIN history
    BY SetupGiven DEF WalkInv, WalkTyped
  <2> DEFINE T == Found \cap Anc(history, {head})
  <2>5. {head} \subseteq T /\ \A c \in T : history[c] \subseteq T
    BY <2>1, <2>2, <2>4, AncIsLeast
  <2>6. Anc(history, {head}) \subseteq T
    <3> HIDE DEF T
    <3> QED
      BY <2>4, <2>5, AncIsLeast
  <2> QED
    BY <2>1, <2>3, <2>6
<1> QED
  BY <1>1, InitInv, WalkInvNext, PTL DEF Spec

\* Whatever clone, pull and deepen have done to the boundary and the references, and
\* wherever they were killed, the configured reference and the default one can be
\* walked down to the boundary.
THEOREM RefsResolveAlways == Spec => []RefsResolve
<1>1. WalkInv => RefsResolve
  <2>1. Branches \ {"feature/dev"} = Followed
    BY DEF Branches, Followed
  <2> QED
    BY <2>1 DEF WalkInv, RefsSound, RefsResolve, Resolves
<1> QED
  BY <1>1, InitInv, WalkInvNext, PTL DEF Spec
=============================================================================
