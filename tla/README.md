# Herostratus in TLA+

Herostratus walks the history of git repositories and grants achievements to the
authors of commits. This directory holds its specification: TLA+ modules that
model the program, TLC configurations that check them on small instances, and
proofs, checked by TLAPS, of what holds on every instance. Paths without a
prefix are relative to `herostratus/src/`.

To check: `tlc -config X.cfg M` for each pair in the table of runs, `tlapm M.tla`
for each `*Proofs.tla`.

## The system

| Component | State it keeps | Operations | What makes it correct |
| --- | --- | --- | --- |
| Achievement log (`achievement/achievement_log.rs`) | a list of grant and revoke rows; a CSV file per repository | load, resolve a grant, prune rows, save | per-user achievements once per user, permanent ones once, revocable ones with one holder; every scan agrees on who that is |
| Meta-achievements (`achievement/meta_achievements.rs`) | none | evaluate the log | the leader holds it; holding it does not influence who leads |
| Pipeline (`achievement/pipeline.rs`) | the run: rules, open log, position of the walk | invalidate, load, walk, retire, emit, finalize, save | many runs leave what one run over the whole history would |
| Checkpoint (`achievement/pipeline_checkpoint.rs`, `cache/checkpoint.rs`) | a commit and the (rule, version) pairs processed up to it | decide what a commit means, save | what it says of a rule is true of that rule's cache and rows |
| Rule caches (`cache/rule.rs`, `cache/utils.rs`) | a JSON file per rule and repository | load, save, wipe | each commit is absorbed once |
| Rule engine (`rules/rule_engine.rs`, `rule_plugin.rs`) | the active rules, buffered outputs | dispatch, retire, finalize, load and save caches | outputs in a deterministic order, none lost |
| Rules (`rules/impls/`) | per-run state and an optional cache | react to observations, finalize | each rule's own promise |
| Observer engine (`observer/`) | the active observers, the diff cache | process a commit, run the diff life cycle in parallel, retire | one failing observer affects nobody else |
| Walks (`git/rev.rs`, `git/deepen.rs`) | buffered commits, commits already yielded | next, deepen | every commit once |
| Fetching (`git/clone.rs`, `commands/fetch_all.rs`) | bare clones | clone, pull, deepen | references follow the remote; a shallow clone only where the checkpoint will be met |
| Commands (`commands/`, `main.rs`) | none beyond the files | add, check, check-one, check-all, fetch-all | a failure in one repository leaves the files of the others alone |
| Export and render (`achievement/export.rs`, `commands/render/`) | CSV catalogs, a static site | upsert, aggregate | its active grants are the log's; every user has a page |
| Configuration (`config/`) | TOML | read, write, filter rules | environment overrides are never written back |
| Quine search (`herostratus-quine/`) | threads, a found flag | search a partition | a match that exists is found |

Interaction: a command fetches, then opens one `Pipeline` per repository. The
pipeline reads the checkpoint, prunes what a version bump invalidated, loads the
log and the caches, and pulls commits from a walk. The observer engine turns a
commit into observations, the rule engine turns those into grants, and the log
decides which of them count. At the end the pipeline saves checkpoint, caches and
log, in this order. The files are the only state that crosses runs.

Where it is hard: three kinds of file are written one after the other with
nothing that ties them together; rules join, leave and change version between
runs while the history grows, forks, merges or is rewritten; the walk is by time
and the checkpoint is a single commit; deduplication trusts scans over a log
that was pruned, cut short and extended by other builds.

## Modules

| Module | Models |
| --- | --- |
| `AchievementEvents` | the log as a value: its scans, `resolve`, `retain`, a file cut short, and `achievement_farmer`. Constant-level, shared by the others. |
| `Enumeration` | a finite set of numbers in its order: what sorting and filtering loops return, without recursion. Used by the log, the clone, the commands and the rules. |
| `AchievementHolders` | abstract specification: who holds what, live and saved. No log. |
| `AchievementLog` | one log through its life: load, resolve, evaluate, save, prune, crash. Implements `AchievementHolders`. |
| `Pipeline` | one repository through many runs and everything that happens between them. Its log implements `AchievementLog`. |
| `Rules`, `RuleEngine` | the eighteen rules as functions of their memory; the engine that dispatches to them, run after run. |
| `ObserverEngine` | one run of the engine, its threads, and the three observers that look at diffs. |
| `ObserverTexts` | the scanners of messages and the comparison of blobs. |
| `CommitGraph` | what can be reached in a history of commits: ancestors, what a shallow boundary leaves visible, what lies within a depth. |
| `ShallowClone`, `DeepeningWalk` | the clone and its remote; the walk that deepens it, inside runs with a checkpoint. |
| `Render`, `Commands` | the site as a function of the exported files; the commands that write those files, side by side. |
| `QuineSearch` | the search of `herostratus-quine`. |
| `EnumerationProofs`, `AchievementEventsProofs` | lemmas about the operators |
| `AchievementLogProofs`, `PipelineProofs`, `ObserverEngineProofs`, `DeepeningWalkProofs`, `RuleEngineProofs`, `ProgramsProofs` | the theorems of each module; the last for the commands, the site, the texts and the quine search |
| `MC...` | instances for TLC |

`Pipeline` sees rules and walks from afar: three kinds of rule, and a walk over a
full clone. The modules after it open what it leaves closed, each against the
interface that `Pipeline` assumes: that a rule's cache stands for the commits it
absorbed (`Rules`), that outputs come once and in order (`RuleEngine`), that
observations are facts about a commit (`ObserverEngine`), that the walk returns
every commit once (`DeepeningWalk`).

### AchievementEvents and AchievementLog

The log is a sequence of events that keep what the semantics reads or copies:
the kind of event, the achievement, the user, the commit. Timestamps, display
names and overrides are carried along unread in the code and are left out.
Loops are stated by what they return: `current_holder` becomes `IsHolder`,
`active_grants` becomes `ActiveGrants`, `is_granted_to` becomes `IsGrantedTo`;
`MCAchievementLog` compares each with a fold that runs the loop itself.

`AchievementLog` lets any rule ask for anything (`Asks`), so it covers every
rule. `GrantTo` is `Pipeline::emit` for one output, `EvaluateMeta` the
meta-achievement, `Save` and `SaveCutShort` the save that ends a run,
`Prune` and `PruneCutShort` the save inside `apply_invalidation`. A file cut
short is either a prefix of the log, which loads, or `Unreadable`, which does
not: `load` returns an error. `Discard` is the operator who deletes the file.
`Abandon` is a run that ends before it saves. `deaths` counts the processes that ended
early, so that they can be told apart from those that finished.

`AchievementHolders` is what this amounts to without rows: who holds what in the open
log and in the saved one. `Save` keeps exactly what was held, `Forget` clears whole
achievements and those derived from them, `Discard` everything. Only a process that dies
in a write leaves something inexact (`Remains`), and then no permanent achievement to
anyone who had it not. A revocable one may be back with an earlier holder, since the rows
that took it away are cut off with those behind them.

### Pipeline

Commits are numbered by commit time; the walk (`NextCommit`) takes the largest
number it can reach, which is gix's newest-first order. The state is in three
parts: the world (`head`, `enabled`, `version`), the disk (`ckpt`, `cache`,
`file`) and the run (`pc` and the rest). Each write to a file is a step of its
own, because a crash may fall between any two; work in memory between two
writes is a step per commit or per output.

| `pc` | Code | Steps |
| --- | --- | --- |
| `idle` | no process | `Push`, `Rewrite`, `Enable`, `Disable`, `Upgrade`, `Reset`, `Start` |
| `wiping` | `apply_invalidation` | `WipeCache`, `PruneLog` |
| `loading` | log and `init_caches` | `Load`, `LoadFails` |
| `walking` | the loop of `run` | `Visit`, `Emit`, `EarlyExit`, `ReachCheckpoint` |
| `retiring` | the checkpoint commit | `Retire`, `Emit`, `VisitCheckpoint` |
| `finalizing` | after an early exit | `Finalize` |
| `evaluating` | final outputs, meta | `Emit`, `EvaluateMeta` |
| `checkpoint` | `save_checkpoint` | `SaveCheckpoint` |
| `caches` | `fini_caches`, `log.save` | `SaveCache`, `SaveLog` |

A rule has one of three roles, after three rules of the code: `match` grants at
a matching commit and has no cache (H001 fixup); `count` grants when a user's
count reaches a milestone (H009 like-a-sailor, one profanity per commit); `best`
remembers a record and grants in `finalize` if this run beat the one it loaded
(H002 shortest subject line; scores differ from commit to commit, as ties depend
on the order of the walk). A cache is the bag of commits it was computed from:
what the code stores, counts and a minimum, follows from the bag, and a commit
counted twice shows.

`Crash` ends a process between two steps and stands for a kill and for an error
from the walk or a diff, which `run` propagates. `CrashInWrite` ends it inside a
write: JSON is torn, the log cut short.

**The history variable `spoiled`.** The code has no test for whether its files
fit together. `spoiled` records, without influence on any other variable, that
something has happened after which they do not:

- `HalfWritten`: a process died after the checkpoint and before the log was
  saved, or after a rule was retired under a checkpoint that had moved;
  or inside a write;
- `Overlooks`: the walk met the checkpoint commit with commits on its frontier
  that the checkpoint does not reach, or after commits it does reach;
- `Orphaned`: history was rewritten so that no walk meets the checkpoint commit;
- `Leftover`: a rule that the checkpoint does not name still has a cache or rows;
- `Truncated`: `--depth` ended the walk early.

`Reset`, the operator's remedy that `docs/design/14-rule-cache-invalidation.md`
describes ("manually wiping the data directory"), clears it. `spoiled` is what
makes `CheckpointKeepsItsWord` an exact statement: the checkpoint can be trusted
as long as none of these has happened, through everything else. The three runs
that expect a violation check the same claims without the excuse.

### Rules and RuleEngine

A rule is a memory and what `process`, `commit_start`, `commit_complete` and
`finalize` make of it; `InitCache` and `FiniCache` are what crosses runs. All
eighteen are there (there is no h011). `RuleEngine` hands the observations of a
commit over in any order, since rules may not depend on it, and cuts history into
runs in any way. A commit is a record of facts; the name and the description of a
grant are told apart by a number (`title`).

History is a line here and commit times rise along it. With merges or clocks that
run backwards, "oldest" and "descendant", as the rules' descriptions have them, are
not what the code compares: it goes by the order of the walk.

### ObserverEngine and ObserverTexts

Each observer advances by itself (`turn`), because the engine gives each to the
thread pool; results are collected by registry order. Diff observers keep their
fields from commit to commit (`memory`), which is where one commit could leak into
the next: `Started` is `on_diff_start`, and does not reset `is_merge`. A failed
`on_commit` therefore leaves the flag of an earlier commit, and a `WhitespaceOnly`
that fails in the middle of a diff is still ended and may report (the comment at
`observer/observer_engine.rs:31` says it is skipped). Such an observer is excused
in the properties, for this commit only (`spoiled`). A change of mode alone makes a
change without different contents; it is whitespace only to the code. At the
boundary of a shallow clone, where the parent is missing, the base is the empty
tree.

`ObserverTexts` types a message or two blobs character by character, so that TLC
holds each scanner against a definition that does not scan.

### ShallowClone and DeepeningWalk

`ShallowClone` is what clone, pull and deepen leave on disk: commits present, the
boundary, the references. What git transfers is external and was taken from git's
behaviour: depth counts steps from the tips, a deepening counts from those boundary
commits the tips still reach. `DeepeningWalk` runs over it: `FetchOne` decides on a
shallow clone from the checkpoint, `Yield` and `Deepen` are the two halves of
`next`, `End` keeps the checkpoint. Fetches fail or are killed with the commits
written and the references not; the clone can be lost while the checkpoint stays;
the remote moves and is rewritten between any two steps.

`strays` and `parted` are histories that say when a walk may return more or less
than the ancestors of its head. More: a walk goes on from *all* boundary
commits, those of other branches too, for the remote HEAD is fetched next to the
configured branch. Less: a forced push took the boundary away while this walk was
under way, and the deepening finds nothing more; the walk ends as if complete.
`cutOff` says that some walk ended like that; the checkpoint then hides what it
missed from all later ones, which is why `CatchesUp` needs it.

### Render and Commands

`Commands` has two processes over one data directory: a job (`fetch-all`,
`check-all`, `check-one`) and an operator who adds repositories. `main` reads the
configuration before a command and writes it back after it, by truncating the file
and then writing (`Torn` in between). Of the pipeline a check keeps what other commands
and the site can tell:

| Action | Code |
| --- | --- |
| `CheckLoads` | the catalog is written from the rules enabled now, stale caches go and the log is pruned; a file that does not load ends the command |
| `Grant` | some rule grants something, and the log resolves it (`AchievementEvents`) |
| `CheckSaves` | checkpoint, caches and log are saved; how many commits the walk went over: those since the checkpoint, or all again if it lacks a rule |
| `Count` | the row of `repositories.csv` |
| `InvalidationStops`, `CheckStops`, `JobStops` | a kill in the pruning, in the saves, or elsewhere |

Which rule grants what is left to `Pipeline` and `RuleEngine`; here any rule of the catalog
may, for any commit (`Asks`). A kill inside a write leaves a torn file behind (`torn`):
the checkpoint, the cache of a rule or the log. Each later check of that repository fails
at it (`Loads`), until the operator deletes the files (`Reset`) or, if it is a cache, an
upgrade of its rule deletes it. Between commands the operator may change which rules are
enabled and which build is installed (`EditRules`, through `Editions`).

`Render` is the site as a function of the logs, the rows and the catalog: users and their
slugs, active grants, and the figures that count them.

### QuineSearch

SHA-1 is any function from fields to bytes, drawn when the search begins; word size,
digit size and batch are parameters. `Turn` is the head of a thread's loop, where
the flag is read once in a batch, `Try` its body. Relaxed atomics are taken as
sequentially consistent: one flag that is only raised, and results that are handed
over by joining the threads, do not tell the difference, except that a thread may
see the flag late by what the hardware takes.

## Runs

| Run | Instance | Shows |
| --- | --- | --- |
| `log` (`MCAchievementLog.cfg`) | four kinds of achievement and the farmer, two users, no grant asked for once the log has 4 rows (a transfer and the farmer may still follow), any pruning, two deaths, saves and prunings cut anywhere | `OneActiveHolder`, `RevokedBeforeRegrant`, `RevocationsTakeBackTheActiveGrant`, `GrantedOnce`, `FarmerLeads`; implements `AchievementHolders` |
| `pipeline` (`MCPipeline.cfg`) | four commits in a line, three rules, two versions; pushes, rules enabled, upgrades | `CheckpointKeepsItsWord`, `QuietRerun`, `CountedOnce`; `CatchesUp` under fairness |
| `pipeline_faults` (`MCPipelineFaults.cfg`) | two unrelated histories and their merge, two rules with a cache, one of them upgraded, a rule disabled, rewrites, `--depth` 0 and 1, one crash anywhere | `CheckpointKeepsItsWord`, `OneHolder`; implements `AchievementLog` |
| `rules` (`MCRuleEngine.cfg`) | four commits, two users, each group of rules that share observations with the commits that matter to it; runs may end anywhere | `RecordsStand`, `FirstsStand`, `CountsAddUp`, `FortunesComeTrue`, `OncePerCommitInOrder` |
| `observers` (`MCObserverEngine.cfg`) | six commits with a merge, an empty, an indenting and a CI commit; a folder, two files, a submodule; two commits per run in any order, one parent that may be missing, one failure, any retirement | `FactsAreRight`, `BoundaryLooksLikeARoot`, `DeterministicOrder`; `EveryCommitEnds` under fairness |
| `texts` (`MCTextsAndQuine.cfg`) | every text of six characters, every pair of blobs of six bytes together; and searches with up to three threads over up to 16 candidates, for hashes with none, one or two matches | `TokensStandAlone`, `ProfanityStandsAlone`, `LongestPrefixFound`, `BlobsCompareByCharacter`; `SearchIsRight`, `StopsWithinABatch` |
| `deepening` (`MCDeepeningWalk.cfg`) | five histories of five commits: a line, merges of short and long branches, a tracked branch beside the default one; batches of 1 to 3; one rewrite, two faults | `YieldedOnce`, `WalkComplete`, `RefsResolve`; `CatchesUp` under fairness |
| `site` (`MCCommands.cfg`) | two repositories, of two commits and one; two authors who share a name and a third with its numbered form; four rules, and an edit that upgrades one, keeps one and disables one for another; a remote that may be gone for good; one fault anywhere | `AddedReposStay`, `TotalsAddUp`, `SiteAddsUp`; `EveryRepoChecked` under fairness |
| `deepening_order` (`MCDeepeningWalkOrder.cfg`) | one history with a merge, one lost clone | `LikeAFullWalk` is violated |
| `pipeline_merge` | two branches and their merge | `CheckpointIsTrue` is violated |
| `pipeline_crash` | a line, one crash | `PairedOrDeleted` is violated |
| `pipeline_reenable` | a line, a rule disabled and enabled again | `MilestonesAreReached` is violated |

What the properties say:

- `CheckpointKeepsItsWord`: between runs, for every rule the checkpoint names at
  its present version, the cache absorbed each commit up to the checkpoint
  exactly once and the log holds what one run over all of them would have
  granted.
- `QuietRerun`: a run in which no rule processed a commit leaves the log as it
  read it, and a log about to be saved has the meta-achievement where it belongs.
  The first half supposes a file that has it there too: a run that died after its
  pruning leaves one that does not, and the next run mends it.
- `CountedOnce`: within a run a rule sees no commit twice, also when its
  neighbours are retired at the checkpoint and it goes on. Excused is a walk that
  has met commits behind the checkpoint and not yet the checkpoint (`Overtaken`):
  clocks that run backwards along history. `Overlooks` spoils such a run once it
  gets to the checkpoint.
- `ImplementsLog`: the log inside the pipeline only moves as `AchievementLog`
  allows, whatever fails, so all that holds there holds here.
- `OneHolder`: nobody shares a global achievement, spoiled files or not.
- `CatchesUp`: once the world stands still the checkpoint reaches the head with
  every enabled rule, and stays there.

- `RecordsStand`, `FirstsStand`, `CountsAddUp`: what the rules with a memory have
  granted by the end of a run is what their description says of all of history,
  however it was cut into runs.
- `FortunesComeTrue`: h013 grants for a token that did name a newer commit, also one
  that arrives in a later run, and never more often than tokens came true. It grants
  once in a run at most; a second token that comes true in the same run is lost.
- `OncePerCommitInOrder`: the outputs of a commit come sorted by rule, and rules
  without a memory grant for exactly the commits that deserve it.
- `FactsAreRight`, `BoundaryLooksLikeARoot`: an observer reports what is true of a
  commit and its parent, nothing left over from the commit before; without the
  parent it reports the commit as a root, `CiConfig` wrongly so.
- `DeterministicOrder`: threads, failures and retirements do not show in the order
  or the number of the messages the rules get.
- `EveryCommitEnds`: every commit that begins is completed or aborts the run.
- `SearchIsRight`: the search prints only a commit that is what was asked for, and
  says there is none only when there is none, for fields smaller than a word.
- `StopsWithinABatch`: after the first match no thread tries more than a batch.
- `YieldedOnce`, `WalkComplete`: the walk, in batches, under rewrites, returns each
  ancestor of its head once, and only them, but for `strays` and `parted`.
- `RefsResolve`: no reference points to a commit the clone lacks, after any kill.
  Left out is a branch with the same ending as the configured one, which is created
  without its commits (`git/clone.rs:222`).
- `CatchesUp` (walk): on a line of history every commit is processed in the end, also
  if the clone was lost and cut short at a checkpoint.
- `AddedReposStay`: a repository that was added stays in the configuration, whatever
  commands write back, unless a job was running when it was added. That one is lost:
  `main.rs:115` speaks of Add and Remove, but every stateful command writes back
  what it read.
- `TotalsAddUp`: `repositories.csv` has a row per repository. It counts the commits
  the checkpoint stands for, and once more those that a backfill, an upgrade or a reset
  made a later check go over again (`again`): `commits_checked` is the work done, not the
  length of the history. Not counted are checks that died between their checkpoint and the
  row (`uncounted`): no later check makes up for them.
- `SiteAddsUp`: the holders under an achievement are those the log would give, and the
  grants under users, achievements and repositories are the same, but for two kinds that
  it names. `achievements.csv` lists the rules enabled in the last check, of whatever
  repository: the grants of a rule that was disabled stay with users and
  repositories and have no achievement page. And a repository whose check died before its
  row was written has grants and no page. Two users share a page only if a third has the
  numbered name of two who share one ("ann", "ann", "ann 2"); only then may the number of
  holders be too small.
- `EveryRepoChecked`: while all remotes answer, check-all gets to every repository that
  comes before the first one with a file that does not load, and again after whatever was
  killed. There it ends, every time: a torn file of one repository keeps all later ones from
  being checked until it is deleted. One remote that does not answer holds up all: every
  fetch comes before the first check.

The bounds and why they suffice. Two users are needed to transfer an
achievement and to tell counts apart; a third adds only names. Four rows, and
what the last grant and the farmer add, hold a grant, its transfer and the transfer
back, with the farmer moving on top. The farmer's
thresholds (2, 10, 5 in the code) are constants, and small here so that they are
crossed. Four commits in a line allow a checkpoint at any of three places with a
backfill below it; the smallest history in which a walk by time passes the
checkpoint has two branches and a merge. `MaxTimes` keeps a rule whose cache was
spoiled from counting for ever: no run starts once a cache holds a commit twice.
One crash suffices to separate any two writes; `Reset` may follow and the run
goes on from there. Deadlock is checked in every run of the pipeline, the log and the walk.

For the other modules: four commits cut into runs in any way hold a record, its
equal and its loss, every milestone, and a token written in one run and fulfilled
in a later one. Two commits per run suffice for the observers, as they remember
only the commit before. Six characters hold a token of the longest length
with a character on either side; six bytes hold two cut-off characters of three.
Three threads give an uneven remainder for every even field, and a batch of two lets
matches fall on every side of a poll; a word of four bits makes the largest field
wrap. Five commits hold a merge of branches of lengths one and two behind a
checkpoint, with a boundary in each, and a line deepened twice. Two repositories
let one fail before or after the other; one fault separates any two steps, and what it
tore is met by every later command. Two commits give a checkpoint with one commit below
it and one above, so that a backfill and the commits since the checkpoint differ, and a
champion who loses the title; one edit brings each way a rule may change between two checks.
One death ends a run and another the run that was to mend what the first left. The
other runs do not check for deadlock, because they may stop: a text at its bound, a
search that ended, a run that aborted, a history that is complete, a configuration
that is torn.

Fairness. `CatchesUp` of the pipeline assumes `WF_vars(Check)`: `check-all` is started again and
again (the changelog: "on a timer, or when they're bored"), and a run is a single
sequential loop that is not stopped half-way for ever. Pushes, edits and
upgrades are not fair: nobody promises them. Only the run without crashes
checks it, for a torn checkpoint stops every run until an operator steps in.
`DeepeningWalk` assumes the same (`WF_vars(Run)`): runs are started, and each goes
on. `ObserverEngine` assumes `WF_vars(Engine)`: the thread pool runs the tasks it was
given, and loops over finite diffs go on; that a commit begins is not assumed.
`Commands` assumes weak fairness for the steps of a command that runs, and
`SF_vars(CheckAll)`: among other jobs, which disable it while they run, check-all is
started again and again. Faults, pushes and the operator are not fair.

## Where the code and its documentation differ

1. `pipeline_merge`. Check at commit 3, whose parent is 1; commit 4 then merges 3
   with 2, a branch from 1 older than 3; check again. The walk meets 4, then 3, the
   checkpoint, and stops. Commit 2 is never processed, and the new checkpoint says
   it was (`cache/checkpoint.rs:7`, `cli.rs:65`).
2. `pipeline_crash`. A process dies after `save_checkpoint`; the next run takes
   the new checkpoint with the old log. The design says such a pair is deleted
   (`docs/design/10-observer-architecture.md:168`).
3. `deepening_order`. Commits 1 and 2 are checked. Commit 5 merges 2 with a
   branch 3, 4 that is longer and newer; the clone is lost. The new one, of depth 2,
   shows 5, 4 and 2; the walk meets the checkpoint 2 and stops. Commit 3, which a
   full walk returns before 2, is never processed (`git/deepen.rs:277`,
   `commands/fetch_all.rs:51`).
4. `pipeline_reenable`. A rule left out of one run loses its place in the
   checkpoint and keeps its cache. Enabled again it is backfilled on top of it
   and grants a milestone nobody reached (`h009_like_a_sailor.rs:21`).

## Proofs

Assumed are only the named assumptions on constants: `KindAssumption`,
`FarmerAssumption`, `UserAssumption`, `ThresholdAssumption`,
`UnreadableAssumption`, `AskAssumption`, `BoundAssumption` of the log;
`RuleAssumption`, `GraphAssumption` (finite, nobody their own parent), `RoleAssumption`
(a role fits the kind of its achievement, as in the rules it stands for),
`ScoreAssumption`, `BoundsAssumption`, `FileAssumption` (the marks of a torn
file are no values) of the pipeline; `HistoryAssumption`, `TreeAssumption`,
`RegistryAssumption`, `BoundAssumption` of the observer engine; `FocusAssumption`,
`FactAssumption`, `RuleThresholdsAssumption`, `HistoryAssumption` of the rules and their
engine (a commit says each thing once); `SetupAssumption` of the
clones (commits are numbered after their parents); `NamesAssumption` (finitely many
repositories and achievements), `AuthorsAssumption` and `RulesAssumption` (each edit
leaves a rule one version) of the commands; `SlugAssumption`
of the site (a slug is one or more words between hyphens);
`LengthAssumption`, `HashAssumption`, `CharacterAssumption` (no letter is a digit) and
`Utf8Assumption` of the texts; `SearchAssumption`, `ArgumentsAssumption` and
`Sha1Assumption` (every field has a hash, no shorter than the longest target) of the
search. TLC evaluates all of them in the runs above. Nothing
is assumed of sizes: histories are of any finite length, and users, rules, threads and
failures as many as one likes. The one exception is h013, where `usize::MAX` says that
any number of commits may follow: a history has no more commits than that
(`HistoryAssumption` of the rules).

### Log

- `TypeCorrect`: the type needs that pruning yields a sequence. `Pruned` enumerates the
  kept indices in order, and `RankProperties` and `NthProperties` show of `Enumeration`
  that it is strictly increasing and complete.
- `AlternatesAlways`, `SingleHolderAlways`: a global achievement has one holder at most.
  That alone is not inductive. A file cut short is a prefix of a log, and a log with one
  holder may have a prefix with two, unless every regrant is preceded by a revocation of
  the previous grant. That is `Alternates`, the strengthening: it holds of every prefix
  of a log it holds of (`PrefixAlternates`), survives pruning because pruning takes all
  rows of an achievement or none (`PruneAlternates`), survives `resolve` because the
  holder `current_holder` finds is the last grant, so if there is none the last grant was
  revoked (`NoHolderMeansRevoked`, `ResolveAlternates`), and implies one holder on whom
  both scans agree (`AlternatesSingleHolder`).
- `RevocationsMatchAlways`, `GrantedOnceAlways`: both follow from `Orderly`, which adds
  that only revocable achievements are ever revoked. A permanent grant therefore never
  disappears from the scans, and `resolve` finds it (`UnsuppressedIsNew`). After a
  holder's grant no row of its achievement can stand, since a revocation of somebody
  else's would have to follow that person's grant directly (`RevocationTakesHolder`).
  `PartOrderly` serves prefixes and pruning alike: rows kept in order, with all earlier
  rows of their achievement.
- `HoldersImplemented`: the refinement. What `resolve` appends is, seen by its holders, a
  single award in the book of holders (`ResolveAwards`, from `ResolveHolders`, which
  follows each row through both scans); pruning forgets whole achievements
  (`PruneForgets`). Of a log cut short, a prefix, `CutShortHolders` says that nobody holds
  a permanent achievement in it who does not in the whole log: by `Orderly` such a grant is
  never revoked, so it stands in both or is cut off. `PrunedCutShortHolders` is the same
  after a pruning, where the meta-achievement is gone in any case.
- `FarmerLeadsAlways`: the meta-achievement is with the leader once it has been
  evaluated. Two things could be wrong: that its own rows count (`MetaRowCountsNothing`
  says no), and that the count over active grants differs from the count of standing rows
  (`StandingIsCount`). `FarmerSettles` then says that evaluating twice changes nothing.

### Pipeline

- `PipelineTypeCorrect`: `TypeOK` is not inductive. `VisitCheckpoint` lowers `budget`,
  and that it may is known only because the walk had a commit left when it met the
  checkpoint; `BudgetLeft` carries this over the retirements in between.
- `PipelineOneHolder`: by the lemmas on `Alternates`, once per step that touches `log` or
  `file`.
- `PipelineImplementsLog`: the refinement, step by step (`NextRefinesLog`). `Pipeline`
  and `AchievementLog` each instantiate the log's operators, hence the `Same...` lemmas.
- `ConsistentAlways` is the inductive invariant behind the next three: while `spoiled` is
  down, the files, the walk, the memories, the open log and the outputs that wait fit
  together. `FilesParse`, `WordKept` and `OthersFresh` are about the files: a rule the
  checkpoint names stands for the commits up to it, or up to the head if it was retired
  in this run; one it does not name starts from nothing. `WalkDown`, `AtCheckpoint` and
  `WhoRuns` tie the frontier to the checkpoint. From them follows which commits a rule has
  `Covered`, and from `RulesConsistent` that its memory is the bag of those and that the
  log plus what waits is what they earn (`EarnedFrom`); a rule that keeps a record speaks
  only in its `finalize` (`Goal`). `SavingConsistent` bridges the files written one after
  another. The heart is one lemma per thing that can happen to a rule: a commit it meets
  (`RuleAbsorbs`), its retirement (`FinalizeEarns`), an output resolved (`EmitEarns`), a
  pruning (`PruneEarns`). That `Reach` is the least set closed under parents is
  `ReachProperties` and `WalkComplete`.
- `CheckpointKeepsItsWordAlways` and `CountedOnceAlways` are read off `Consistent`.
- `QuietRerunAlways` needs besides that a rule which met no commit has no better record
  than the one on disk (`NoCandidate`), so that nothing ever waits (`NothingNew`), and
  that a log which was evaluated stays so (`SettledAtEnd`).

### Observer engine

`EngineInv` says what each observer remembers in the middle of a diff: a function of
the changes it was shown so far (`Learned`), of nothing else. Threads, cancellations and
failures are then steps that keep it for everybody they do not concern. At the end of
the list what was learned is the truth about the two trees (`AllLearned`,
`SaysWhatWasFound`), for which `ChangesTell` and `FolderDiffersByFile` supply that a
folder is listed only if a file in it differs. From this `FactsAreRightAlways` and
`BoundaryAlways`. `DeterministicOrderAlways` rests on `CollectedProperties`: what is
collected is the registry, less those without a message.

### Rule engine

The outputs of a commit are a sort of everything the rules answered, so the first half is
about lists: `SortedByRule` and `PushedByRule` say that a stable sort keeps what one rule
put out, and in its order; `CollectAdds` says what one step of the engine then means for
one rule, whichever other rules are enabled.

- `RulesAreTyped`: each rule finds in its memory what it reads there.
- `OneGrantPerCommit`: sorted, and with no rule twice. The second needs that a commit's
  observations name each kind once (`HeldOnce`) and that a rule reacts to one kind:
  at most one answer. `Met`, `Told` and `HeardInRun` follow a commit from the observations
  still to be handed over to the grants it earned, so that nothing of it is left for the
  next commit.
- `FirstsAreFirst`, `RecordsAreHeld`: `Firsts` and `Records` relate a cache to the commits
  of all earlier runs and a memory to those met in this one. A run walks its commits
  newest first, hence a memory is about a range at the top of the history, and `finalize`
  joins the two.
- `CountsCarryOver`: one invariant for each way of counting.
  `SwearsCounted`: h009 and h010 have counted the words of earlier runs and of this one so
  far (`Counted`), no more; the milestones granted are those below that count
  (`Granted`), although in the order of the walk; the leader that the cache holds
  swears no less than anybody (`Leads`). Adding words to a count passes either no milestone or up
  to the last below the sum, which is what keeps `Milestones`.
  `RootsSettle`: h018 keeps roots in a buffer, newest first, and `finalize` numbers them
  from the cached count upwards; `NumberedOn` and `RootsGranted` say that this is the
  number of a root among all roots by age.
  `CopiesSettle`: h019 does the same with the copies of each author, where only some
  ordinals grant. `NthCount` supplies that counting the members of a set one by one, in
  order, counts by rank.
- `FortunesAreTold`: h013 grants in the run in which a commit turns up that an earlier one
  named, whichever run that one came in. `Retains`: the cache holds what commits said of
  commits not seen yet, and nothing that nobody said. `Remembers`: in a run, a token
  holds how many commits had been met before it, all newer than its own (`Dated`), and a
  cached one holds `UsizeMax` in place of that number, so that every commit of the run is
  in its future (`FortuneFinds`). `AllTold`: each grant is for a prophecy that its
  run fulfilled, with one grant for each run that fulfilled any (`FortunesEnd`); one grant
  per run against at least one prophecy per grant is what bounds the count.

### Deepening walk

`WalkInv` says that what a walk has found, returned or buffered, is without
repetition, closed under parents down to the boundary of the clone, and reaches no
further than the ancestors of head and strays. A deepening is the hard step. The
boundary it starts from leaves the boundary or keeps its parents out of reach
(`BoundaryMoves`); so if it brings nothing new, each ancestor found lies above the old
boundary or the new one, its parents are found, and the walk may end (`DeepenKeeps`).
`YieldedOnceAlways` and `WalkCompleteAlways` follow. For `RefsResolveAlways`, what a
fetch adds to the clone is all that the references see from their tips down to the new
boundary (`ClonedResolves`, `PulledResolves`, `DeepenedResolves`), and a kill before the
references are written leaves the old ones, which see no more than before.

The graph operators are recursive functions. That they exist is shown by giving the
set of pairs they would have to hold (`ReachExists`, `WithinExists`), and that they say
what they should by the least number of steps for which they would not
(`VisibleIsLeast`, `WithinGrows`; `LeastExists` is the principle).

### Commands and site

- `AddedReposStayAlways`: what is on disk says nothing about what a running command will
  write over it; `JobHolds` and `AdderHolds` carry the claim for the configuration that
  each command holds, and the adder's own repository with it.
- `TotalsAddUpAlways`: the row of a repository changes by exactly what `Due` left out
  while its check waited to be counted, and no other row changes (`CountTotals`). A walk
  adds to the checkpoint and to what is checked again as many commits as it goes over,
  whether it stops at the checkpoint or not (`SavesIs`); a kill either loses the checkpoint
  with all it stood for, or the count (`CheckStopTotals`).
- `SiteAddsUpAlways`: what is shown follows from what is logged (`SiteFollows`), if the
  logs name known authors and only achievements that there are. That is the invariant
  (`SiteInv`), of the open log too: what a check takes back is copied from the log
  (`TakenBackIs`), and pruning, or a write cut short, leaves rows that were there
  (`KeptLogIs`, `LogLeftIs`). A sum of counts, whatever the order it is taken in, is the
  count of the whole (`SumOfParts`, by the least part for which it would fail), so users,
  repositories with those that have no row, and achievements with those that are not
  listed, count the same grants. Removing the grants of each
  revocation leaves those the log finds by looking ahead (`LogAgrees`). Users are listed
  once each (`Ranks`: a strict order of a finite set), and a number that is added to a
  slug makes one that nobody else has, unless it is a name (`SlugsDiffer`).

### Texts and search

Both modules loop with recursive functions: along a text, over a list of digits, with
shifts. `RecursionExists` shows that a function defined by recursion along a chain that
ends exists, by its least restrictions as sets of pairs; `LoopExists` is the case of a
counter.

- `LongestIsFound`: one pass over the lengths of prefixes, longest first; an induction by
  the least length for which it would fail (`LeastExists`).
- `BlobsCompareRight`: the reference is what remains of a blob without its whitespace
  characters, `Essence`. `SkipIs` says that skipping whitespace leaves the essence alone
  and comes to its first character or the end; `SameIs` that the two fingers compare
  essences from where they stand. Bytes that begin no character stand for themselves,
  which is why the claim holds of ill-formed text too.
- `TokensAreFound`, `ProfanityIsFound`: what a scanner holds in the middle of a text is
  the stretch of wanted characters that ends where it stands (`Since`), and what it has
  put out are the stretches that ended before (`PieceEnds`, `StretchEnds`). `WantedIs`
  identifies a word of the text with such a stretch.
- `ThreadsStop`: `StopsWithinABatch` for any number of threads and any batch. It is
  not inductive: how many candidates a thread may still try depends on when it looks
  at the flag. `Lags` says that a thread has tried no more late candidates than it
  took turns since its last look, and `Unfound` that nobody is late before the flag is
  up, so that a look that finds it down starts again from zero.
- `QuineIsRight`: `SearchInv` says of each thread that nothing between the start of its
  share and where it stands is a match, and that it ends short of its share only when the
  flag is up, which somebody's result then explains. `RangesCover`: the shares are all
  candidates. The rest is arithmetic of digits. A field of a space that fits in a word is
  written by one candidate below the total (`ParseIs`, `FieldsAreCandidates`), and
  comparing bytes, with half a byte at an odd end, is comparing digits (`MatchIs`), so
  that the fast check and the verification agree (`MatchesAre`).

### Only model-checked

- Liveness: both `CatchesUp`, `EveryCommitEnds`, `EveryRepoChecked`. They need fairness
  and `ENABLED`, which the provers cannot reason about.

## What is abstracted

In `Pipeline`, observations are abstracted to the set of commits a version of a rule
reacts to (`Matches`), and errors of single observers and rules, which are logged and
skipped, are left to `ObserverEngine`. For a full clone an unreadable commit is
skipped by the walk; it would be missing from the graph. The older format of the
checkpoint (rule ids without versions) reads as version 1 and is not distinguished.

`ObserverTexts` takes rustrict's verdict as a set of swearwords that match anywhere,
and `Utf8` as the set of valid characters. `Rules` has the hash of a normalised
subject as its topic and a token as the commit it names. `Commands` leaves which
rule grants what open, and leaves out `--depth`, which `Pipeline` has, edits of the rules
while a command runs, and a kill in the middle of writing `achievements.csv`, which the next
check writes again, or `repositories.csv`, which loses rows and, if torn inside one, stops
every later check. `Render` leaves out the lists of events on the pages (timelines,
histories, summaries, recent activity), which copy rows of the logs.

The number of threads may be zero in `QuineSearch`, as the command line allows; the
search then panics (`Spawn`). With 16 digits the number of candidates wraps to one in
a release build, so that a search for which the help text allows "[4..16]"
(`herostratus-quine/src/main.rs`) tries one candidate and, unless it matches, says
that the space is exhausted; this claim `SearchIsRight` makes only for shorter fields.

Milestones are those of the code (`h009_like_a_sailor.rs` documents 5, 25 and 100 and
has 10 too); the runs use small ones.

## Not modelled

- The stateless `check`: one run of the pipeline without its files.
- Credentials, SSH keys and URLs: functions of strings, and dialogues with
  remotes and ssh. Paths made from URLs may collide and `fetch_one` does not compare the
  URL of a clone it finds; both are left to tests.
- The forge guessed from a URL and the secrets taken from the environment: a lookup
  by string. (`add` reads the configuration with overrides from the environment and
  writes them back.)
- `count_commits_between`, a figure in a report, which is off after merges and
  forced pushes.
- Printed summaries, templates, HTML and stylesheets, the tracing setup, the build
  script, and the fixtures that make repositories for tests: no state or no behaviour
  of the program.

## Plan

Everything above is built: all modules, both refinements, and a proof of every safety
property the passing runs check. What is left to TLC is liveness.
