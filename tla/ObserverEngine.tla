----------------------------- MODULE ObserverEngine -----------------------------
(***************************************************************************)
(* The observer engine of one run (observer/observer_engine.rs) with the   *)
(* three observers that look at diffs and any number that only look at the *)
(* message (observer/impls/).  The engine is handed commit after commit.   *)
(* For each it calls every observer's on_commit, then, side by side on the *)
(* thread pool, feeds each diff observer the changes of the commit until   *)
(* it cancels, fails or has seen them all, and collects what they observed.*)
(* Observers live as long as the run: what they remember of one commit is  *)
(* still there when the next one starts.                                   *)
(*                                                                         *)
(* A commit is a number; an entry of its tree, a number too, is a file, a  *)
(* submodule or a folder; a file holds a blob.                             *)
(***************************************************************************)
EXTENDS Integers, Sequences, FiniteSets, Enumeration

CONSTANTS
  Commits, Parents,      \* the history: the parents of a commit, first one first
  Files, Submodules,     \* the entries that are not folders; submodules are files here
  Folder,                \* the folder of a file, or Absent
  CiFiles,               \* the files is_ci_config accepts
  Tree,                  \* Tree[c][f]: the blob of file f in commit c, or Absent
  Essence,               \* a blob without its whitespace
  Registered,            \* the observers in the order of the registry
  Remarkable,            \* Remarkable[o]: the commits a message observer reports
  RawAuthor,             \* the author as the commit has it
  Mailmaps,              \* of the repository, global, per repository: each a partial map
  MayBeMissing,          \* commits that a shallow clone may lack
  MaxFaults,             \* bound: failures of single observers
  MaxCommits,            \* bound: commits of the run
  Absent                 \* no blob, no folder, no commit

DiffObservers    == {"CiConfig", "EmptyCommit", "WhitespaceOnly"}
Observers        == {Registered[i] : i \in DOMAIN Registered}
MessageObservers == Observers \ DiffObservers

ASSUME HistoryAssumption == Parents \in [Commits -> Seq(Commits)] /\ Absent \notin Commits
\* A folder is not a file, and one with files in it is something.
ASSUME TreeAssumption ==
  /\ CiFiles \subseteq Files /\ Submodules \subseteq Files
  /\ Tree \in [Commits -> [Files -> DOMAIN Essence \cup {Absent}]]
  /\ IsFiniteSet(Files) /\ Files \cup {Folder[f] : f \in Files} \subseteq Int \cup {Absent}
  /\ Absent \notin Files /\ \A f \in Files : Folder[f] \notin Files
  /\ \A some \in SUBSET Files : Absent \notin [some -> DOMAIN Essence]
ASSUME RegistryAssumption ==
  /\ Registered \in Seq({Registered[i] : i \in DOMAIN Registered})
  /\ \A i, j \in DOMAIN Registered : Registered[i] = Registered[j] => i = j
  /\ Remarkable \in [MessageObservers -> SUBSET Commits]
ASSUME BoundAssumption == MaxFaults \in Nat /\ MaxCommits \in Nat

Folders == {Folder[f] : f \in Files} \ {Absent}
Entries == Files \cup Folders

EmptyTree == [f \in Files |-> Absent]

IsMerge(c) == Len(Parents[c]) > 1

\* The mailmap that decides is the last one that knows the author.
ResolveAuthor(c) ==
  LET known == {i \in DOMAIN Mailmaps : RawAuthor[c] \in DOMAIN Mailmaps[i]}
  IN  IF known = {} THEN RawAuthor[c]
      ELSE Mailmaps[CHOOSE i \in known : \A j \in known : j <= i][RawAuthor[c]]

(***************************************************************************)
(* Tree diffs, as gix makes them: one change for each entry that differs,  *)
(* a folder before its files, renames not tracked.                         *)
(***************************************************************************)
Content(tree, e) ==
  IF e \in Files THEN tree[e]
  ELSE LET inside == {f \in Files : Folder[f] = e /\ tree[f] # Absent}
       IN  IF inside = {} THEN Absent ELSE [f \in inside |-> tree[f]]

Change(old, new, e) ==
  [entry |-> e, old |-> Content(old, e), new |-> Content(new, e),
   kind |-> CASE Content(old, e) = Absent -> "Addition"
              [] Content(new, e) = Absent -> "Deletion"
              [] OTHER -> "Modification"]

ChangesBetween(old, new) ==
  LET differ == {e \in Entries : Content(old, e) # Content(new, e)}
  IN  [i \in 1..Cardinality(differ) |-> Change(old, new, NthOf(differ, i))]

VARIABLES
  active,     \* ObserverEngine::observers, those not retired
  missing,    \* the commits that are not in the repository
  phase,      \* "idle", "message", "diff" or "aborted"
  commit,     \* the commit at hand
  changes,    \* its diff
  memory,     \* the fields of the diff observers
  turn,       \* how far each observer is: its next change; 0 before on_commit
  result,     \* what each has returned
  data,       \* the messages of process_commit
  done,       \* the commits handed over
  spoiled,    \* the observers that failed at this commit
  faults      \* how many failures there were

vars == <<active, missing, phase, commit, changes, memory, turn, result, data,
          done, spoiled, faults>>

Repository == <<active, missing>>

\* found: found_ci_config or found_any_change; other: is_merge, or
\* found_non_whitespace_difference.
Fresh == [found |-> FALSE, other |-> FALSE]

Finished == -1   \* no place in the diff: the observer has returned

Parent(c) == IF Parents[c] = <<>> THEN Absent ELSE Parents[c][1]

\* Mutant: without its parent a commit is not diffed.
BaseTreeUndiffed(c) ==
  IF Parent(c) = Absent THEN EmptyTree
  ELSE IF Parent(c) \in missing THEN Tree[c] ELSE Tree[Parent(c)]

\* The tree the diff is taken against: a parent that is missing is as good as none.
BaseTree(c) ==
  IF Parent(c) = Absent \/ Parent(c) \in missing THEN EmptyTree ELSE Tree[Parent(c)]

Observation(o) == [msg |-> "Observation", what |-> o]

\* The places of the observers in S that made an observation.
Reporting(S, res) == {i \in DOMAIN Registered : Registered[i] \in S /\ res[Registered[i]]}

\* Mutant: the observations come in reverse order.
CollectedBackwards(S, res) ==
  LET n == Cardinality(Reporting(S, res))
  IN  [k \in 1..n |-> Observation(Registered[NthOf(Reporting(S, res), n + 1 - k)])]

\* The observations of the observers in S, in the order of the registry, whatever
\* the order they were made in.
Collected(S, res) ==
  [k \in 1..Cardinality(Reporting(S, res)) |->
     Observation(Registered[NthOf(Reporting(S, res), k)])]

CommitStart(c)  == [msg |-> "CommitStart", what |-> <<c, ResolveAuthor(c)>>]
CommitComplete  == [msg |-> "CommitComplete", what |-> <<>>]

Interested(S) == S \cap DiffObservers

Init ==
  /\ active = Observers
  /\ missing \in SUBSET MayBeMissing
  /\ phase = "idle"
  /\ commit = Absent
  /\ changes = <<>>
  /\ memory = [o \in DiffObservers |-> Fresh]
  /\ turn = [o \in Observers |-> Finished]
  /\ result = [o \in Observers |-> FALSE]
  /\ data = <<>>
  /\ done = {}
  /\ spoiled = {}
  /\ faults = 0

(***************************************************************************)
(* The observers.                                                          *)
(***************************************************************************)

\* on_commit of the diff observers: one of them looks whether it is a merge.
Noted(o, s, c) == IF o = "EmptyCommit" THEN [s EXCEPT !.other = IsMerge(c)] ELSE s

\* Mutant: nothing is reset, the flags of the previous commit stay up.
StartedOver(o, s) == s

\* on_diff_start: the fields are reset, is_merge is not.
Started(o, s) == IF o = "EmptyCommit" THEN [s EXCEPT !.found = FALSE] ELSE Fresh

CiConfigChange(s, ch) ==
  IF s.found THEN [s |-> s, stop |-> TRUE]
  ELSE IF ch.kind = "Addition" /\ ch.entry \in CiFiles
       THEN [s |-> [s EXCEPT !.found = TRUE], stop |-> TRUE]
       ELSE [s |-> s, stop |-> FALSE]

EmptyCommitChange(s, ch) ==
  [s |-> IF s.other THEN s ELSE [s EXCEPT !.found = TRUE], stop |-> TRUE]

WhitespaceOnlyChange(s, ch) ==
  LET differs == \/ ch.kind # "Modification"
                 \/ ch.entry \in Submodules
                 \/ ch.entry \in Files /\ Essence[ch.old] # Essence[ch.new]
  IN  [s |-> [found |-> TRUE, other |-> s.other \/ differs], stop |-> differs]

OnChange(o, s, ch) ==
  CASE o = "CiConfig" -> CiConfigChange(s, ch)
    [] o = "EmptyCommit" -> EmptyCommitChange(s, ch)
    [] o = "WhitespaceOnly" -> WhitespaceOnlyChange(s, ch)

\* on_diff_end: whether there is an observation.
Concluded(o, s) ==
  CASE o = "CiConfig" -> s.found
    [] o = "EmptyCommit" -> ~s.other /\ ~s.found
    [] o = "WhitespaceOnly" -> s.found /\ ~s.other

-----------------------------------------------------------------------------
(***************************************************************************)
(* The engine.                                                             *)
(***************************************************************************)

\* retire_all_except: the rules that are left no longer need some observers.
RetireAllExcept(needed) ==
  /\ phase = "idle"
  /\ needed # active
  /\ active' = active \cap needed
  /\ UNCHANGED <<missing, phase, commit, changes, memory, turn, result, data, done,
                 spoiled, faults>>

\* process_commit up to the observers.
Begin(c) ==
  /\ phase = "idle"
  /\ c \in Commits \ (done \cup missing)
  /\ Cardinality(done) < MaxCommits
  /\ phase' = "message"
  /\ commit' = c
  /\ data' = <<CommitStart(c)>>
  /\ turn' = [o \in Observers |-> IF o \in active THEN 0 ELSE Finished]
  /\ result' = [o \in Observers |-> FALSE]
  /\ done' = done \cup {c}
  /\ spoiled' = {}
  /\ changes' = <<>>
  /\ UNCHANGED <<Repository, memory, faults>>

\* on_commit of one observer, on any thread.
OnCommit(o) ==
  /\ phase = "message" /\ turn[o] = 0
  /\ turn' = [turn EXCEPT ![o] = 1]
  /\ IF o \in DiffObservers
     THEN memory' = [memory EXCEPT ![o] = Noted(o, @, commit)] /\ UNCHANGED result
     ELSE result' = [result EXCEPT ![o] = commit \in Remarkable[o]] /\ UNCHANGED memory
  /\ UNCHANGED <<Repository, phase, commit, changes, data, done, spoiled, faults>>

\* It fails, or the commit cannot be read on this thread: the observer is skipped.
OnCommitFails(o) ==
  /\ phase = "message" /\ turn[o] = 0
  /\ faults < MaxFaults
  /\ turn' = [turn EXCEPT ![o] = 1]
  /\ spoiled' = spoiled \cup {o}
  /\ faults' = faults + 1
  /\ UNCHANGED <<Repository, phase, commit, changes, memory, result, data, done>>

Complete(observations) ==
  /\ phase' = "idle"
  /\ data' = data \o observations \o <<CommitComplete>>

\* The message observations are in; what happens next depends on the commit.
AfterMessages ==
  /\ phase = "message"
  /\ \A o \in active : turn[o] = 1
  /\ LET seen == Collected(MessageObservers, result)
         ready == [o \in DiffObservers |->
                     IF o \in active THEN Started(o, memory[o]) ELSE memory[o]]
         fresh == [o \in Observers |->
                     IF o \in active \cap DiffObservers THEN 1 ELSE Finished]
     IN  \/ /\ Interested(active) = {}
            /\ turn' = fresh
            /\ Complete(seen)
            /\ UNCHANGED <<changes, memory, result>>
         \* A merge: collect_diff_end without a diff.
         \/ /\ Interested(active) # {} /\ IsMerge(commit)
            /\ memory' = ready
            /\ result' = [o \in Observers |->
                 IF o \in Interested(active) THEN Concluded(o, ready[o]) ELSE result[o]]
            /\ turn' = [o \in Observers |-> Finished]
            /\ Complete(seen \o Collected(Interested(active), result'))
            /\ UNCHANGED changes
         \/ /\ Interested(active) # {} /\ ~IsMerge(commit)
            /\ memory' = ready
            /\ changes' = ChangesBetween(BaseTree(commit), Tree[commit])
            /\ turn' = fresh
            /\ phase' = "diff"
            /\ data' = data \o seen
            /\ UNCHANGED result
  /\ UNCHANGED <<Repository, commit, done, spoiled, faults>>

\* Mutant: the loop skips every other change.
OnDiffChangeSkips(o) ==
  /\ phase = "diff" /\ turn[o] \in DOMAIN changes
  /\ LET step == OnChange(o, memory[o], changes[turn[o]])
     IN  /\ memory' = [memory EXCEPT ![o] = step.s]
         /\ turn' = [turn EXCEPT ![o] = IF step.stop THEN Len(changes) + 1 ELSE @ + 2]
  /\ UNCHANGED <<Repository, phase, commit, changes, result, data, done, spoiled, faults>>

\* One turn of an observer's loop over the changes.
OnDiffChange(o) ==
  /\ phase = "diff" /\ turn[o] \in DOMAIN changes
  /\ LET step == OnChange(o, memory[o], changes[turn[o]])
     IN  /\ memory' = [memory EXCEPT ![o] = step.s]
         /\ turn' = [turn EXCEPT ![o] = IF step.stop THEN Len(changes) + 1 ELSE @ + 1]
  /\ UNCHANGED <<Repository, phase, commit, changes, result, data, done, spoiled, faults>>

\* WhitespaceOnly cannot read one of the blobs: it has counted the change already.
OnDiffChangeFails ==
  LET o == "WhitespaceOnly" IN
  /\ phase = "diff" /\ o \in active /\ turn[o] \in DOMAIN changes
  /\ changes[turn[o]].kind = "Modification"
  /\ changes[turn[o]].entry \notin Submodules
  /\ faults < MaxFaults
  /\ memory' = [memory EXCEPT ![o].found = TRUE]
  /\ turn' = [turn EXCEPT ![o] = Len(changes) + 1]
  /\ spoiled' = spoiled \cup {o}
  /\ faults' = faults + 1
  /\ UNCHANGED <<Repository, phase, commit, changes, result, data, done>>

\* Mutant: an observer that failed is not ended.
OnDiffEndUnlessFailed(o) ==
  /\ phase = "diff" /\ turn[o] = Len(changes) + 1 /\ o \notin spoiled
  /\ result' = [result EXCEPT ![o] = Concluded(o, memory[o])]
  /\ turn' = [turn EXCEPT ![o] = Finished]
  /\ UNCHANGED <<Repository, phase, commit, changes, memory, data, done, spoiled, faults>>

\* on_diff_end, whatever ended the loop.
OnDiffEnd(o) ==
  /\ phase = "diff" /\ turn[o] = Len(changes) + 1
  /\ result' = [result EXCEPT ![o] = Concluded(o, memory[o])]
  /\ turn' = [turn EXCEPT ![o] = Finished]
  /\ UNCHANGED <<Repository, phase, commit, changes, memory, data, done, spoiled, faults>>

AfterDiff ==
  /\ phase = "diff"
  /\ \A o \in active : turn[o] = Finished
  /\ Complete(Collected(Interested(active), result))
  /\ UNCHANGED <<Repository, commit, changes, memory, turn, result, done, spoiled, faults>>

\* A commit or a tree cannot be read by the engine itself: process_commit returns Err.
Abort ==
  /\ \/ phase = "idle" /\ Commits \ done # {} /\ Cardinality(done) < MaxCommits
     \/ phase = "message" /\ Interested(active) # {} /\ \A o \in active : turn[o] = 1
  /\ phase' = "aborted"
  /\ data' = <<>>
  /\ UNCHANGED <<Repository, commit, changes, memory, turn, result, done, spoiled, faults>>

Observe == \E o \in Observers :
             OnCommit(o) \/ OnCommitFails(o) \/ OnDiffChange(o) \/ OnDiffEnd(o)
Engine  == Observe \/ OnDiffChangeFails \/ AfterMessages \/ AfterDiff

Next == \/ Engine
        \/ Abort
        \/ \E c \in Commits : Begin(c)
        \/ \E needed \in SUBSET active : RetireAllExcept(needed)

Spec == Init /\ [][Next]_vars

\* The thread pool runs every task it was given, and the loops of the engine go on.
FairSpec == Spec /\ WF_vars(Engine)

-----------------------------------------------------------------------------
TypeOK ==
  /\ active \subseteq Observers
  /\ missing \subseteq MayBeMissing
  /\ phase \in {"idle", "message", "diff", "aborted"}
  /\ commit \in Commits \cup {Absent}
  /\ memory \in [DiffObservers -> [found : BOOLEAN, other : BOOLEAN]]
  /\ turn \in [Observers -> {Finished} \cup 0 .. Len(changes) + 1]
  /\ result \in [Observers -> BOOLEAN]
  /\ done \subseteq Commits
  /\ spoiled \subseteq Observers
  /\ faults \in 0 .. MaxFaults

\* The messages of a commit that went through.
Reported == phase = "idle" /\ data # <<>>
Says(o) == \E i \in DOMAIN data : data[i] = Observation(o)

\* What is true of a commit that was made on top of a tree.
Holds(o, c, base) ==
  LET touched == {f \in Files : base[f] # Tree[c][f]} IN
  CASE o = "CiConfig" ->
         ~IsMerge(c) /\ \E f \in CiFiles : base[f] = Absent /\ Tree[c][f] # Absent
    [] o = "EmptyCommit" -> ~IsMerge(c) /\ touched = {}
    [] o = "WhitespaceOnly" ->
         /\ ~IsMerge(c) /\ touched # {}
         /\ \A f \in touched \ Submodules :
              /\ base[f] # Absent /\ Tree[c][f] # Absent
              /\ Essence[base[f]] = Essence[Tree[c][f]]
         /\ touched \cap Submodules = {}
    [] OTHER -> c \in Remarkable[o]

Cut(c) == Parent(c) \in missing

\* Whatever the observers saw of earlier commits, cancelled or failed at, and
\* however they took turns: at every commit each observer that did not fail at it
\* reports exactly what is true of the commit and its parent.
FactsAreRight ==
  Reported /\ ~Cut(commit) =>
    \A o \in active \ spoiled :
      Says(o) <=> Holds(o, commit, IF Parent(commit) = Absent THEN EmptyTree
                                   ELSE Tree[Parent(commit)])

\* At the boundary of a shallow clone the whole tree passes for the change: the
\* commit is reported like a first commit with that tree, so that it is never
\* whitespace only, and adds the CI configuration it may only have inherited.
BoundaryLooksLikeARoot ==
  Reported /\ Cut(commit) =>
    \A o \in active \ spoiled : Says(o) <=> Holds(o, commit, EmptyTree)

\* Where an observer stands in the registry.
Place(o) == CHOOSE i \in DOMAIN Registered : Registered[i] = o

\* The rules get the commit with its author, the message observations and the diff
\* observations, each in the order of the registry and none twice, and the end:
\* the order of the threads does not show, nor does a failure or a retirement.
DeterministicOrder ==
  Reported =>
    LET said == SubSeq(data, 2, Len(data) - 1)
        Rank(i) == <<said[i].what \in DiffObservers, Place(said[i].what)>>
    IN  /\ Head(data) = CommitStart(commit)
        /\ data[Len(data)] = CommitComplete
        /\ \A i, j \in DOMAIN said : i < j =>
             \/ ~Rank(i)[1] /\ Rank(j)[1]
             \/ Rank(i)[1] = Rank(j)[1] /\ Rank(i)[2] < Rank(j)[2]

\* Every commit that is begun is completed or aborts the run, whatever fails.
EveryCommitEnds == phase \in {"message", "diff"} ~> phase \in {"idle", "aborted"}
=============================================================================
