---------------------------------- MODULE Rules ----------------------------------
(***************************************************************************)
(* The rules (rules/impls/h001 .. h019) as the rule engine sees them: a    *)
(* memory, and what each call makes of it and grants.  Rules see the       *)
(* commits of a run newest first; between runs they keep only what         *)
(* fini_cache returns.                                                     *)
(*                                                                         *)
(* A commit is a number, its commit time.  An observation has a kind and a *)
(* value: the length and the normalised text of a subject, a number of     *)
(* words, of parents or of characters, or a sequence of tokens.            *)
(***************************************************************************)
EXTENDS Enumeration

CONSTANTS
  Users,
  ShortThreshold,     \* H002Config::length_threshold
  LongThreshold,      \* H003Config::length_threshold
  SailorThresholds,   \* THRESHOLDS of h009
  CopyThresholds,     \* THRESHOLDS of h019
  MinQuine,           \* H012Config::min_matched_chars
  MinToken, MaxToken, \* H013Config
  UsizeMax,           \* usize::MAX
  OctopusThreshold, CthulhuThreshold

ASSUME RuleThresholdsAssumption ==
  /\ ShortThreshold \in Nat /\ LongThreshold \in Nat
  /\ SailorThresholds \subseteq Nat \ {0} /\ CopyThresholds \subseteq Nat \ {0}
  /\ OctopusThreshold \in Nat /\ CthulhuThreshold \in Nat /\ UsizeMax \in Nat

AllRules == (1 .. 19) \ {11}

\* Rules that only look at one observation at a time.
Stateless == {1, 4, 5, 6, 8, 12, 15, 16}

\* What a rule asks for; title tells apart the names a rule may give.
GrantOf(r, c, user, title) == [rule |-> r, commit |-> c, user |-> user, title |-> title]

\* A grant without a commit: h010 gives the null object id.
NullCommit == 0
NoLength == -1

NoCounts == [u \in Users |-> 0]

-----------------------------------------------------------------------------
(***************************************************************************)
(* Caches.                                                                 *)
(***************************************************************************)

\* Rule::consumes
Consumes(r) ==
  CASE r = 1 -> {"Fixup"}              [] r \in {2, 3, 19} -> {"Subject"}
    [] r = 4 -> {"NonUnicodeMessage"}  [] r = 5 -> {"EmptyCommit"}
    [] r = 6 -> {"WhitespaceOnly"}     [] r \in {7, 8, 9, 10} -> {"Profanity"}
    [] r = 12 -> {"QuinePrefix"}       [] r = 13 -> {"HexTokens"}
    [] r = 14 -> {"CiConfig"}          [] r \in {15, 16, 18} -> {"ParentCount"}
    [] r = 17 -> {"ParentCount", "EmptyCommit"}

\* The default of Rule::Cache.
NoCache(r) ==
  CASE r \in {2, 3}  -> NoLength
    [] r \in {7, 14} -> NullCommit
    [] r = 9  -> NoCounts
    [] r = 10 -> [counts |-> NoCounts, leader |-> <<>>]
    [] r = 13 -> <<>>
    [] r = 18 -> 0
    [] r = 19 -> [seen |-> {}, counts |-> NoCounts]
    [] OTHER  -> <<>>

\* init_cache of a rule that has just been built.
InitCache(r, cached) ==
  CASE r \in {2, 3}  -> [best |-> cached, candidate |-> <<>>]
    [] r \in {7, 14} -> [settled |-> cached, earliest |-> <<>>]
    [] r = 9  -> cached
    [] r = 10 -> cached
    [] r = 13 -> [visited |-> <<>>,
                  \* every commit of the run is in the future of the token
                  tokens |-> [i \in DOMAIN cached |->
                    [names |-> cached[i].names, source |-> cached[i].source,
                     user |-> cached[i].user, cutoff |-> UsizeMax]]]
    [] r = 17 -> [root |-> FALSE, empty |-> FALSE]
    [] r = 18 -> [count |-> cached, roots |-> {}]
    [] r = 19 -> [seen |-> cached.seen, counts |-> cached.counts, buffer |-> {}]
    [] OTHER  -> <<>>

\* The tokens of h013 that no commit of this run starts with.
Orphans(m) ==
  LET kept == Part(m.tokens, {i \in DOMAIN m.tokens :
                               \A k \in DOMAIN m.visited : m.visited[k] # m.tokens[i].names})
  IN  [i \in DOMAIN kept |-> [names |-> kept[i].names, source |-> kept[i].source,
                              user |-> kept[i].user]]

FiniCache(r, m) ==
  CASE r \in {2, 3}  -> m.best
    [] r \in {7, 14} -> m.settled
    [] r = 9  -> m
    [] r = 10 -> m
    [] r = 13 -> Orphans(m)
    [] r = 18 -> m.count
    [] r = 19 -> [seen |-> m.seen, counts |-> m.counts]
    [] OTHER  -> NoCache(r)

-----------------------------------------------------------------------------
(***************************************************************************)
(* process: [m |-> memory, out |-> grants] after observation o of commit c *)
(* by user u.                                                              *)
(***************************************************************************)
Kept(m) == [m |-> m, out |-> <<>>]

FixupProcess(m, c, u, o) ==
  [m |-> m, out |-> IF o.kind = "Fixup" THEN <<GrantOf(1, c, u, 0)>> ELSE <<>>]

\* Mutant: a subject as short as the record takes the record.
ShortestSubjectTies(m, c, u, o) ==
  IF o.kind # "Subject" \/ o.value.length >= ShortThreshold
     \/ (m.best # NoLength /\ o.value.length > m.best)
  THEN Kept(m)
  ELSE Kept([best |-> o.value.length, candidate |-> <<GrantOf(2, c, u, 0)>>])

ShortestSubjectProcess(m, c, u, o) ==
  IF o.kind # "Subject" \/ o.value.length >= ShortThreshold
     \/ (m.best # NoLength /\ o.value.length >= m.best)
  THEN Kept(m)
  ELSE Kept([best |-> o.value.length, candidate |-> <<GrantOf(2, c, u, 0)>>])

LongestSubjectProcess(m, c, u, o) ==
  IF o.kind # "Subject" \/ o.value.length <= LongThreshold
     \/ (m.best # NoLength /\ o.value.length <= m.best)
  THEN Kept(m)
  ELSE Kept([best |-> o.value.length, candidate |-> <<GrantOf(3, c, u, 0)>>])

NonUnicodeProcess(m, c, u, o) ==
  [m |-> m, out |-> IF o.kind = "NonUnicodeMessage" THEN <<GrantOf(4, c, u, 0)>> ELSE <<>>]

EmptyCommitProcess(m, c, u, o) ==
  [m |-> m, out |-> IF o.kind = "EmptyCommit" THEN <<GrantOf(5, c, u, 0)>> ELSE <<>>]

WhitespaceOnlyProcess(m, c, u, o) ==
  [m |-> m, out |-> IF o.kind = "WhitespaceOnly" THEN <<GrantOf(6, c, u, 0)>> ELSE <<>>]

\* Walking newest first, the last one seen is the earliest.
FirstProfanityProcess(m, c, u, o) ==
  IF m.settled = NullCommit /\ o.kind = "Profanity"
  THEN Kept([m EXCEPT !.earliest = <<GrantOf(7, c, u, 0)>>]) ELSE Kept(m)

PottyMouthProcess(m, c, u, o) ==
  [m |-> m, out |-> IF o.kind = "Profanity" THEN <<GrantOf(8, c, u, 0)>> ELSE <<>>]

LikeASailorProcess(m, c, u, o) ==
  IF o.kind # "Profanity" THEN Kept(m)
  ELSE LET crossed == {t \in SailorThresholds : m[u] < t /\ m[u] + o.value >= t}
       IN  [m   |-> [m EXCEPT ![u] = @ + o.value],
            out |-> IF crossed = {} THEN <<>> ELSE <<GrantOf(9, c, u, LastOf(crossed))>>]

MostProfoundProcess(m, c, u, o) ==
  IF o.kind # "Profanity" THEN Kept(m)
  ELSE LET counts == [m.counts EXCEPT ![u] = @ + o.value]
           leads  == IF m.leader = <<>> THEN 0 ELSE counts[m.leader[1]]
       IN  Kept([counts |-> counts,
                 leader |-> IF counts[u] > leads THEN <<u>> ELSE m.leader])

QuineCommitProcess(m, c, u, o) ==
  [m |-> m, out |-> IF o.kind = "QuinePrefix" /\ o.value >= MinQuine
                    THEN <<GrantOf(12, c, u, 0)>> ELSE <<>>]

\* The tokens of a length worth a prophecy.
Fitting(tokens) == Part(tokens, {i \in DOMAIN tokens : tokens[i].length \in MinToken .. MaxToken})

\* Mutant: a token may name the commit it stands in.
FortuneTellerNamesItself(m, c, u, o) ==
  IF o.kind # "HexTokens" THEN Kept(m)
  ELSE LET fit == Fitting(o.value)
       IN  Kept([m EXCEPT !.tokens = @ \o [i \in DOMAIN fit |->
             [names |-> fit[i].names, source |-> c, user |-> u, cutoff |-> Len(m.visited)]]])

FortuneTellerProcess(m, c, u, o) ==
  IF o.kind # "HexTokens" THEN Kept(m)
  ELSE LET fit == Fitting(o.value)
       IN  Kept([m EXCEPT !.tokens = @ \o [i \in DOMAIN fit |->
             [names |-> fit[i].names, source |-> c, user |-> u,
              cutoff |-> Len(m.visited) - 1]]])

\* Mutant: a later run decides once more who was first.
AddedFirstCiUnsettled(m, c, u, o) ==
  IF o.kind = "CiConfig"
  THEN Kept([settled |-> NullCommit, earliest |-> <<GrantOf(14, c, u, 0)>>]) ELSE Kept(m)

AddedFirstCiProcess(m, c, u, o) ==
  IF m.settled = NullCommit /\ o.kind = "CiConfig"
  THEN Kept([m EXCEPT !.earliest = <<GrantOf(14, c, u, 0)>>]) ELSE Kept(m)

OctopusProcess(m, c, u, o) ==
  [m |-> m, out |-> IF o.kind = "ParentCount" /\ o.value >= OctopusThreshold
                       /\ o.value < CthulhuThreshold
                    THEN <<GrantOf(15, c, u, 0)>> ELSE <<>>]

\* The description is overridden with the number of parents.
CthulhuProcess(m, c, u, o) ==
  [m |-> m, out |-> IF o.kind = "ParentCount" /\ o.value >= CthulhuThreshold
                    THEN <<GrantOf(16, c, u, o.value)>> ELSE <<>>]

\* The two observations arrive in any order.
ExNihiloProcess(m, c, u, o) ==
  CASE o.kind = "ParentCount" /\ o.value = 0 -> Kept([root |-> TRUE, empty |-> m.empty])
    [] o.kind = "EmptyCommit" -> Kept([root |-> m.root, empty |-> TRUE])
    [] OTHER -> Kept(m)

SecondChanceProcess(m, c, u, o) ==
  IF o.kind = "ParentCount" /\ o.value = 0
  THEN Kept([m EXCEPT !.roots = @ \cup {[commit |-> c, user |-> u]}]) ELSE Kept(m)

FlatteryProcess(m, c, u, o) ==
  IF o.kind = "Subject"
  THEN Kept([m EXCEPT !.buffer = @ \cup {[commit |-> c, user |-> u, topic |-> o.value.topic]}])
  ELSE Kept(m)

Process(r, m, c, u, o) ==
  CASE r = 1  -> FixupProcess(m, c, u, o)
    [] r = 2  -> ShortestSubjectProcess(m, c, u, o)
    [] r = 3  -> LongestSubjectProcess(m, c, u, o)
    [] r = 4  -> NonUnicodeProcess(m, c, u, o)
    [] r = 5  -> EmptyCommitProcess(m, c, u, o)
    [] r = 6  -> WhitespaceOnlyProcess(m, c, u, o)
    [] r = 7  -> FirstProfanityProcess(m, c, u, o)
    [] r = 8  -> PottyMouthProcess(m, c, u, o)
    [] r = 9  -> LikeASailorProcess(m, c, u, o)
    [] r = 10 -> MostProfoundProcess(m, c, u, o)
    [] r = 12 -> QuineCommitProcess(m, c, u, o)
    [] r = 13 -> FortuneTellerProcess(m, c, u, o)
    [] r = 14 -> AddedFirstCiProcess(m, c, u, o)
    [] r = 15 -> OctopusProcess(m, c, u, o)
    [] r = 16 -> CthulhuProcess(m, c, u, o)
    [] r = 17 -> ExNihiloProcess(m, c, u, o)
    [] r = 18 -> SecondChanceProcess(m, c, u, o)
    [] r = 19 -> FlatteryProcess(m, c, u, o)

-----------------------------------------------------------------------------
(***************************************************************************)
(* commit_start, commit_complete and finalize, for the rules that have one.*)
(***************************************************************************)
CommitStarted(r, m, c) ==
  CASE r = 13 -> [m EXCEPT !.visited = Append(@, c)]
    [] r = 17 -> [root |-> FALSE, empty |-> FALSE]
    [] OTHER  -> m

CommitCompleted(r, m, c, u) ==
  IF r = 17 /\ m.root /\ m.empty THEN <<GrantOf(17, c, u, 0)>> ELSE <<>>

\* h007 and h014: the one that is left when the walk ends.
SettleFirst(m) ==
  IF m.settled # NullCommit \/ m.earliest = <<>> THEN Kept(m)
  ELSE [m |-> [settled |-> m.earliest[1].commit, earliest |-> <<>>], out |-> m.earliest]

\* h010: whoever leads, in every run.
GrantLeader(m) ==
  [m |-> m, out |-> IF m.leader = <<>> THEN <<>>
                    ELSE <<GrantOf(10, NullCommit, m.leader[1], 0)>>]

\* h013: the first token that came true, and no other.
FirstFortune(m) ==
  LET true == {i \in DOMAIN m.tokens : \E k \in DOMAIN m.visited :
                 k <= m.tokens[i].cutoff /\ m.visited[k] = m.tokens[i].names}
  IN  [m |-> m,
       out |-> IF true = {} THEN <<>>
               ELSE LET t == m.tokens[FirstOf(true)] IN <<GrantOf(13, t.source, t.user, 0)>>]

\* In the order of their commits; S has no two of one commit.
InTime(S) ==
  LET times == {x.commit : x \in S}
  IN  [k \in 1 .. Cardinality(times) |-> CHOOSE x \in S : x.commit = NthOf(times, k)]

\* The original root goes unmentioned.
ButTheFirst(all) == Part(all, {i \in DOMAIN all : all[i].title > 1})

\* Mutant: every run counts its roots from one.
GrantRootsAnew(m) ==
  LET roots == InTime(m.roots)
      all   == [i \in DOMAIN roots |-> GrantOf(18, roots[i].commit, roots[i].user, i)]
  IN  [m |-> [count |-> Len(roots), roots |-> {}], out |-> ButTheFirst(all)]

\* h018: the roots of the run in order of time, numbered on from the last run;
\* number one is the original.
GrantRoots(m) ==
  LET roots == InTime(m.roots)
      all   == [i \in DOMAIN roots |->
                  GrantOf(18, roots[i].commit, roots[i].user, m.count + i)]
  IN  [m |-> [count |-> m.count + Len(roots), roots |-> {}],
       out |-> ButTheFirst(all)]

\* h019: a subject seen before, or earlier in this run, was copied; copies count
\* in order of time and are granted at the milestones.
GrantCopies(m) ==
  LET copies == InTime({x \in m.buffer :
                  \/ x.topic \in m.seen
                  \/ \E y \in m.buffer : y.topic = x.topic /\ y.commit < x.commit})
      CountAt(i) == m.counts[copies[i].user] + Cardinality({j \in 1 .. i : copies[j].user = copies[i].user})
      all == [i \in DOMAIN copies |-> GrantOf(19, copies[i].commit, copies[i].user, CountAt(i))]
  IN  [m |-> [seen   |-> m.seen \cup {x.topic : x \in m.buffer},
              counts |-> [u \in Users |-> m.counts[u]
                            + Cardinality({i \in DOMAIN copies : copies[i].user = u})],
              buffer |-> {}],
       out |-> Part(all, {i \in DOMAIN all : all[i].title \in CopyThresholds})]

Finalized(r, m) ==
  CASE r \in {2, 3}  -> [m |-> [m EXCEPT !.candidate = <<>>], out |-> m.candidate]
    [] r \in {7, 14} -> SettleFirst(m)
    [] r = 10 -> GrantLeader(m)
    [] r = 13 -> FirstFortune(m)
    [] r = 18 -> GrantRoots(m)
    [] r = 19 -> GrantCopies(m)
    [] OTHER  -> Kept(m)
=============================================================================
