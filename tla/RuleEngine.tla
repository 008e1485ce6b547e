------------------------------- MODULE RuleEngine -------------------------------
(***************************************************************************)
(* The rule engine over several runs (rules/rule_engine.rs): commits are   *)
(* pushed to a line of history; a run walks those that are new, newest     *)
(* first, hands the observations of each commit, in any order, to every    *)
(* rule, collects the grants, and at the end finalizes the rules and keeps *)
(* their caches.  What ends a run early is in Pipeline; here the rules     *)
(* themselves are the subject.                                             *)
(***************************************************************************)
EXTENDS Rules

CONSTANTS
  Focuses,     \* the sets of rules that may be enabled together
  Facts,       \* Facts[rules]: what commits may be like
  MaxCommits   \* bound: the length of history

\* What a commit is to the observers: who wrote it, which yes-or-no observations it
\* gets, and the numbers and tokens of the others.
Kinds == {"Fixup", "NonUnicodeMessage", "EmptyCommit", "WhitespaceOnly", "CiConfig"}
Fact  == [author : Users, kinds : SUBSET Kinds, length : Nat, topic : Nat, parents : Nat,
          swears : Nat, quine : Nat, tokens : Seq([length : Nat, names : Nat])]

ASSUME FocusAssumption == \A rules \in Focuses : rules \subseteq AllRules
ASSUME FactAssumption == \A rules \in Focuses : Facts[rules] \subseteq Fact
\* No list of commits is longer than an index can say.
ASSUME HistoryAssumption == MaxCommits \in Nat /\ MaxCommits <= UsizeMax

VARIABLES
  enabled,     \* the rules of the engine
  history,     \* the facts of every commit, oldest first
  ends,        \* how long history was when each run ended
  cache,       \* the cache file of each rule
  phase,       \* "idle", "walk" or "commit"
  at,          \* the commit at hand
  memory,      \* the rules
  todo,        \* observations of the commit not yet dispatched
  pending,     \* RuleEngine::pending
  batch,       \* what collect_pending returned last
  granted      \* every output, as <<grant, how many commits there were>>

vars == <<enabled, history, ends, cache, phase, at, memory, todo, pending, batch, granted>>

\* How many commits earlier runs have seen.
processed == LastOf(ends \cup {0})

\* What the observers that the enabled rules need say of a commit.
Observed(f) ==
  {o \in {[kind |-> k, value |-> 0] : k \in f.kinds}
         \cup {[kind |-> "Subject", value |-> [length |-> f.length, topic |-> f.topic]],
               [kind |-> "ParentCount", value |-> f.parents]}
         \cup {[kind |-> "Profanity", value |-> n] : n \in {f.swears} \ {0}}
         \cup {[kind |-> "QuinePrefix", value |-> n] : n \in {f.quine} \ {0}}
         \cup {[kind |-> "HexTokens", value |-> s] : s \in {f.tokens} \ {<<>>}} :
     \E r \in enabled : o.kind \in Consumes(r)}

\* RuleEngine::rules: builtin_rules sorts them.
Engine == ListOf(enabled)

\* The outputs of one rule.
OfRule(outputs, r) == Part(outputs, {i \in DOMAIN outputs : outputs[i].rule = r})

\* Mutant: what was pushed last comes first.
SortedLastFirst(outputs) ==
  Joined([i \in DOMAIN Engine |-> OfRule(outputs, Engine[Len(Engine) + 1 - i])])

\* A stable sort by rule id.
Sorted(outputs) == Joined([i \in DOMAIN Engine |-> OfRule(outputs, Engine[i])])

\* What each rule put out, as the loop over the rules pushes it.
Pushed(out) == Joined([i \in DOMAIN Engine |-> out[Engine[i]]])

\* collect_pending: sort, drain and hand out.
CollectPending(outputs) ==
  /\ batch' = Sorted(outputs)
  /\ granted' = granted \o [i \in DOMAIN batch' |-> <<batch'[i], Len(history)>>]
  /\ pending' = <<>>

Init ==
  /\ enabled \in Focuses
  /\ history = <<>>
  /\ ends = {}
  /\ cache = [r \in enabled |-> NoCache(r)]
  /\ phase = "idle"
  /\ at = 0
  /\ memory = [r \in enabled |-> InitCache(r, NoCache(r))]
  /\ todo = {}
  /\ pending = <<>>
  /\ batch = <<>>
  /\ granted = <<>>

Push(f) ==
  /\ phase = "idle"
  /\ Len(history) < MaxCommits
  /\ history' = Append(history, f)
  /\ UNCHANGED <<enabled, ends, cache, phase, at, memory, todo, pending, batch, granted>>

\* A new engine and init_caches.
InitCaches ==
  /\ phase = "idle" /\ processed < Len(history)
  /\ memory' = [r \in enabled |-> InitCache(r, cache[r])]
  /\ at' = Len(history)
  /\ phase' = "walk"
  /\ batch' = <<>>
  /\ UNCHANGED <<enabled, history, ends, cache, todo, pending, granted>>

OnCommitStart ==
  /\ phase = "walk" /\ at > processed
  /\ memory' = [r \in enabled |-> CommitStarted(r, memory[r], at)]
  /\ todo' = Observed(history[at])
  /\ phase' = "commit"
  /\ UNCHANGED <<enabled, history, ends, cache, at, pending, batch, granted>>

OnObservation(o) ==
  /\ phase = "commit" /\ o \in todo
  /\ LET Step(r) == Process(r, memory[r], at, history[at].author, o)
     IN  /\ memory' = [r \in enabled |-> Step(r).m]
         /\ pending' = pending \o Pushed([r \in enabled |-> Step(r).out])
  /\ todo' = todo \ {o}
  /\ UNCHANGED <<enabled, history, ends, cache, phase, at, batch, granted>>

OnCommitComplete ==
  /\ phase = "commit" /\ todo = {}
  /\ CollectPending(pending \o
       Pushed([r \in enabled |-> CommitCompleted(r, memory[r], at, history[at].author)]))
  /\ at' = at - 1
  /\ phase' = "walk"
  /\ UNCHANGED <<enabled, history, ends, cache, memory, todo>>

\* finalize, then fini_caches.
Finalize ==
  /\ phase = "walk" /\ at = processed
  /\ CollectPending(Pushed([r \in enabled |-> Finalized(r, memory[r]).out]))
  /\ memory' = [r \in enabled |-> Finalized(r, memory[r]).m]
  /\ cache' = [r \in enabled |-> FiniCache(r, memory'[r])]
  /\ ends' = ends \cup {Len(history)}
  /\ phase' = "idle"
  /\ UNCHANGED <<enabled, history, at, todo>>

Next ==
  \/ \E f \in Facts[enabled] : Push(f)
  \/ InitCaches
  \/ OnCommitStart
  \/ \E o \in todo : OnObservation(o)
  \/ OnCommitComplete
  \/ Finalize

Spec == Init /\ [][Next]_vars

-----------------------------------------------------------------------------
\* The history that runs have seen, when no run is under way.
Settled == phase = "idle"
Seen == 1 .. processed
By(u) == {c \in Seen : history[c].author = u}

GrantsOf(r) == OfRule([i \in DOMAIN granted |-> granted[i][1]], r)

IsRecord(r, c) ==
  IF r = 2 THEN /\ history[c].length < ShortThreshold
                /\ \A d \in Seen : history[c].length <= history[d].length
  ELSE /\ history[c].length > LongThreshold
       /\ \A d \in Seen : history[c].length >= history[d].length

\* However history is cut into runs, the holder of the shortest and of the longest
\* subject holds the record of all commits there are, and a record passes on only
\* when it is broken: nobody loses it to an equal.
RecordsStand ==
  Settled => \A r \in enabled \cap {2, 3} :
    LET own == GrantsOf(r) IN
    /\ IF own = <<>> THEN \A c \in Seen : ~IsRecord(r, c)
       ELSE IsRecord(r, own[Len(own)].commit)
    /\ \A i, j \in DOMAIN own :
         i < j => history[own[i].commit].length # history[own[j].commit].length

\* The first swearer and the first to add CI are the first in all of history, and
\* are found once, in whichever run their commit arrives.
FirstsStand ==
  Settled => \A r \in enabled \cap {7, 14} :
    LET did == {c \in Seen : IF r = 7 THEN history[c].swears > 0
                             ELSE "CiConfig" \in history[c].kinds}
    IN  GrantsOf(r) = IF did = {} THEN <<>>
                      ELSE <<GrantOf(r, FirstOf(did), history[FirstOf(did)].author, 0)>>

\* How often u swore in the first n commits of history h.
SwearsUpTo(h, u) ==
  LET upTo[n \in 0 .. Len(h)] ==
        IF n = 0 THEN 0 ELSE upTo[n - 1] + (IF h[n].author = u THEN h[n].swears ELSE 0)
  IN  upTo
Swears(u) == SwearsUpTo(history, u)[processed]

Copied(c) == \E d \in 1 .. c - 1 : history[d].topic = history[c].topic
CopiesUpTo(c) == Cardinality({d \in By(history[c].author) : d <= c /\ Copied(d)})
Roots == {c \in Seen : history[c].parents = 0}

\* The milestones of swearing that u was granted rise to the highest that u passed
\* with n words.
Milestones(all, u, n) ==
  LET own == Part(all, {i \in DOMAIN all : all[i].user = u})
      passed == {t \in SailorThresholds : t <= n}
  IN  /\ \A i, j \in DOMAIN own : i < j => own[i].title < own[j].title
      /\ passed # {} => own # <<>> /\ own[Len(own)].title = LastOf(passed)
      /\ passed = {} => own = <<>>

\* What grants say: their commit and their title.
Said(all) == {<<all[i].commit, all[i].title>> : i \in DOMAIN all}

\* What rules count over many runs is what one run over all of history would count:
\* milestones of swearing rise and the highest passed was granted, the leader swears
\* the most, roots are numbered by age, and copies reach their milestones at the
\* same commits.
CountsAddUp ==
  Settled =>
    /\ 9 \in enabled => \A u \in Users : Milestones(GrantsOf(9), u, Swears(u))
    /\ 10 \in enabled /\ (\E u \in Users : Swears(u) > 0) =>
         LET own == GrantsOf(10)
         IN  own # <<>> /\ \A u \in Users : Swears(own[Len(own)].user) >= Swears(u)
    /\ 18 \in enabled =>
         Said(GrantsOf(18)) =
           {<<c, Cardinality({d \in Roots : d <= c})>> :
              c \in {d \in Roots : \E first \in Roots : first < d}}
    /\ 19 \in enabled =>
         Said(GrantsOf(19)) =
           {<<c, CopiesUpTo(c)>> : c \in {d \in Seen : Copied(d) /\ CopiesUpTo(d) \in CopyThresholds}}

\* The prophecies of commit c: the newer commits it names, that exist.
Prophecies(c) ==
  {k \in DOMAIN history[c].tokens :
     /\ history[c].tokens[k].length \in MinToken .. MaxToken
     /\ history[c].tokens[k].names \in Seen
     /\ history[c].tokens[k].names > c}

\* The end of the run that saw commit c.
RunOf(c) == FirstOf({e \in ends : c <= e})

FortunesTold == {i \in DOMAIN granted : granted[i][1].rule = 13}

\* A fortune told is one that came true, and no more often than it did; the run in
\* which a commit turns up that an earlier one named, of whatever run, grants; but
\* never more than once, however many come true.
FortunesComeTrue ==
  Settled /\ 13 \in enabled =>
    /\ \A i \in FortunesTold :
         LET c == granted[i][1].commit
         IN  Cardinality({j \in FortunesTold : granted[j][1].commit = c})
               <= Cardinality(Prophecies(c))
    /\ \A e \in ends :
         Cardinality({i \in FortunesTold : granted[i][2] = e}) =
           IF \E c \in Seen : \E k \in Prophecies(c) : RunOf(history[c].tokens[k].names) = e
           THEN 1 ELSE 0

\* What the rules that look at one commit at a time want of it.
Deserves(r, f) ==
  CASE r = 1  -> "Fixup" \in f.kinds        [] r = 4  -> "NonUnicodeMessage" \in f.kinds
    [] r = 5  -> "EmptyCommit" \in f.kinds  [] r = 6  -> "WhitespaceOnly" \in f.kinds
    [] r = 8  -> f.swears > 0               [] r = 12 -> f.quine > 0 /\ f.quine >= MinQuine
    [] r = 15 -> f.parents \in OctopusThreshold .. CthulhuThreshold - 1
    [] r = 16 -> f.parents >= CthulhuThreshold
    [] r = 17 -> f.parents = 0 /\ "EmptyCommit" \in f.kinds

\* Whatever the order of the observations, the outputs of a commit come out sorted by
\* rule and no rule grants twice; and the rules that keep nothing between commits
\* grant for exactly the commits that deserve it, with nothing left over from the
\* commit before.
OncePerCommitInOrder ==
  /\ phase = "walk" => \A i, j \in DOMAIN batch : i < j => batch[i].rule < batch[j].rule
  /\ Settled => \A r \in enabled \cap (Stateless \cup {17}) :
       /\ {GrantsOf(r)[i].commit : i \in DOMAIN GrantsOf(r)} = {c \in Seen : Deserves(r, history[c])}
       /\ \A i, j \in DOMAIN GrantsOf(r) : GrantsOf(r)[i] = GrantsOf(r)[j] => i = j
=============================================================================
