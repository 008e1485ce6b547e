--------------------------------- MODULE Pipeline ---------------------------------
(***************************************************************************)
(* `herostratus check-all` on one of its repositories, again and again     *)
(* (achievement/pipeline.rs, pipeline_checkpoint.rs, rules/rule_engine.rs, *)
(* cache/).  A run walks history from the head, newest commit first; rules *)
(* react to commits and their grants are resolved through the achievement  *)
(* log.  Between runs three kinds of file survive: the checkpoint, one     *)
(* cache per rule, and the log, each written in full by its own write.     *)
(* Around the runs the world moves: commits arrive, history is rewritten,  *)
(* rules are enabled, disabled and upgraded, processes die.                *)
(*                                                                         *)
(* A commit is a number, its commit time; a rule is its id.                *)
(***************************************************************************)
EXTENDS AchievementEvents

CONSTANTS
  Parents,       \* the commit graph: the parents of each commit
  Author,        \* the author of each commit
  Role,          \* how a rule works: "match", "count" or "best"
  Matches,       \* Matches[r][v]: the commits version v of rule r reacts to
  Score,         \* what a "best" rule minimises, e.g. the subject's length
  Milestones,    \* the counts at which a "count" rule grants
  Versions,      \* rule versions, in order of release
  FirstVersion,  \* the version of each rule in the first build
  FirstHead,     \* where the reference points at first
  FirstEnabled,  \* the rules enabled at first
  MayDisable,    \* the rules a user may disable again
  MayRewrite,    \* whether the reference may move other than forward
  Depths,        \* what --depth may be; past every walk's length: not given
  MaxCrashes,    \* bound: how many processes die half-way
  MaxTimes,      \* bound: no run starts once a cache has counted a commit so often
  None,          \* no commit, no file
  Torn           \* a JSON file whose write stopped part-way: it does not parse

Rules == Achievements

Roles == {"match", "count", "best"}

ASSUME RuleAssumption == Rules \subseteq Nat
ASSUME GraphAssumption ==
  /\ Commits \subseteq Nat /\ IsFiniteSet(Commits)
  /\ Parents \in [Commits -> SUBSET Commits]
  /\ \A c \in Commits : c \notin Parents[c]
  /\ Author \in [Commits -> Users]
  /\ FirstHead \in Commits
  /\ None \notin Commits
ASSUME RoleAssumption ==
  /\ Role \in [Rules -> Roles]
  /\ Versions \subseteq Nat
  /\ FirstVersion \in [Rules -> Versions]
  /\ Matches \in [Rules -> [Versions -> SUBSET Commits]]
  /\ \A r \in Rules : /\ Role[r] = "count" => KindOf[r] = "PerUserRecurrent"
                      /\ Role[r] = "best" => KindOf[r] = "GlobalRevocable"
ASSUME ScoreAssumption ==
  /\ Score \in [Commits -> Nat]
  /\ \A c, d \in Commits : Score[c] = Score[d] => c = d
ASSUME BoundsAssumption ==
  /\ Milestones \subseteq Nat \ {0}
  /\ FirstEnabled \subseteq Rules
  /\ MayDisable \subseteq Rules
  /\ MayRewrite \in BOOLEAN
  /\ Depths \subseteq Nat
  /\ MaxCrashes \in Nat
  /\ MaxTimes \in Nat

\* Rules whose Cache type is not ().
Cached == {r \in Rules : Role[r] # "match"}

\* A cache stands for the commits it was computed from, with multiplicity: the
\* counts of a "count" rule and the record of a "best" rule follow from it.
EmptyCache == [c \in Commits |-> 0]
Caches == [Commits -> Nat]

NoCheckpoint == [commit |-> None, rules |-> {}]
Checkpoints == [commit : Commits \cup {None}, rules : SUBSET (Rules \X Versions)]

ASSUME FileAssumption ==
  /\ None \notin Caches
  /\ Torn \notin Caches \cup Checkpoints \cup {None}

Least(S) == CHOOSE x \in S : \A y \in S : x <= y

\* The commits reachable from h: what lies in every ancestor-closed set around h.
Reach == [h \in Commits |->
  {c \in Commits : \A S \in SUBSET Commits :
     h \in S /\ (\A d \in S : Parents[d] \subseteq S) => c \in S}]

VARIABLES
  head, enabled, version,                \* the world: reference, config, build
  ckpt, cache, file,                     \* the disk
  pc,                                    \* where the run is
  todo,                                  \* rules whose cache file is still to be handled
  active, mem, log,                      \* RuleEngine::rules, their caches, the open log
  frontier, seen, budget, first,         \* the walk, and PipelineCheckpoint::first_commit
  pending,                               \* outputs to be emitted
  crashes, spoiled                       \* bound; history variable, see Spoils below

world == << head, enabled, version >>
disk  == << ckpt, cache, file >>
walk  == << frontier, seen, budget, first >>
vars  == << world, disk, pc, todo, active, mem, log, walk, pending, crashes, spoiled >>

Outputs == [rule : Rules, grant : Grant]

TypeOK ==
  /\ head \in Commits /\ enabled \subseteq Rules /\ version \in [Rules -> Versions]
  /\ ckpt \in Checkpoints \cup {Torn}
  /\ cache \in [Rules -> Caches \cup {None, Torn}]
  /\ file \in Seq(Event) \cup {Unreadable}
  /\ pc \in {"idle", "wiping", "loading", "walking", "retiring", "finalizing",
             "evaluating", "checkpoint", "caches"}
  /\ todo \subseteq Rules /\ active \subseteq Rules
  /\ mem \in [Rules -> Caches] /\ log \in Seq(Event)
  /\ frontier \subseteq Commits /\ seen \subseteq Commits
  /\ budget \in Nat /\ first \in Commits \cup {None}
  /\ pending \subseteq Outputs
  /\ crashes \in 0..MaxCrashes /\ spoiled \in BOOLEAN

Init ==
  /\ head = FirstHead /\ enabled = FirstEnabled
  /\ version = FirstVersion
  /\ ckpt = NoCheckpoint /\ cache = [r \in Rules |-> None] /\ file = << >>
  /\ pc = "idle" /\ todo = {} /\ active = {}
  /\ mem = [r \in Rules |-> EmptyCache] /\ log = << >>
  /\ frontier = {} /\ seen = {} /\ budget = 0 /\ first = None
  /\ pending = {}
  /\ crashes = 0 /\ spoiled = FALSE

-----------------------------------------------------------------------------
(***************************************************************************)
(* What a rule grants.                                                     *)
(***************************************************************************)

GrantAt(c) == [user |-> Author[c], commit |-> c]

\* The commits by user u a cache has counted, each as often as it was counted.
CountIn(bag, u) ==
  Cardinality(UNION {{c} \X (1..bag[c]) : c \in {c \in Commits : Author[c] = u}})

\* process() and commit_complete() grant at commit c.
GrantsAt(r, c) ==
  /\ c \in Matches[r][version[r]]
  /\ \/ Role[r] = "match"
     \/ Role[r] = "count" /\ CountIn(mem[r], Author[c]) + 1 \in Milestones

\* The best of the commits a cache was computed from.
Record(bag) ==
  {c \in Commits : bag[c] > 0 /\ \A d \in Commits : bag[d] > 0 => Score[c] <= Score[d]}

\* finalize() returns the candidate of a "best" rule, if this run found one that
\* beats the record it loaded.
Candidate(r) ==
  {c \in Record(mem[r]) : cache[r] = None \/ c \notin Record(cache[r])}

FinalOutputs(rs) ==
  {[rule |-> rc[1], grant |-> GrantAt(rc[2])] :
     rc \in {rc \in rs \X Commits : Role[rc[1]] = "best" /\ rc[2] \in Candidate(rc[1])}}

-----------------------------------------------------------------------------
(***************************************************************************)
(* The checkpoint and the rules (Checkpoint, PipelineCheckpoint).          *)
(***************************************************************************)

RulesWithVersions == {<< r, version[r] >> : r \in enabled}

\* Mutant: the checkpoint is compared by rule id alone.
HasProcessedAnyVersion(r) == \E p \in ckpt.rules : p[1] = r

\* has_processed
HasProcessed(r) == << r, version[r] >> \in ckpt.rules

\* classify_invalidated
Invalidated == {r \in enabled : \E p \in ckpt.rules : p[1] = r /\ p[2] # version[r]}

\* Mutant: the rules that are done go on past the checkpoint.
UnchangedNone == {}

\* The rules resolve() retires at the checkpoint commit.
Unchanged == {r \in active : HasProcessed(r)}

-----------------------------------------------------------------------------
(***************************************************************************)
(* What spoils the files.  spoiled records that something has happened     *)
(* that leaves the checkpoint, the caches and the log inconsistent with    *)
(* one another and with history; nothing in the program notices, and only  *)
(* deleting all three repairs it (Reset).  The conditions are exact enough *)
(* that CheckpointKeepsItsWord holds whenever none of them has occurred.   *)
(***************************************************************************)

\* A rule that counts as new but finds the cache or the rows of an earlier life.
Leftover(r) ==
  /\ \A p \in ckpt.rules : p[1] # r
  /\ cache[r] # None \/ \E i \in DOMAIN file : file[i].ach = r

\* The run stops or retires its rules at the checkpoint although a commit is left
\* that the checkpoint does not stand for, or has met one early that it does.
Overlooks(c) ==
  \/ frontier \ Reach[c] # {}
  \/ seen \cap Reach[c] # {}

\* No walk from h meets the checkpoint commit.
Orphaned(h) == ckpt # Torn /\ ckpt.commit \notin Reach[h] \cup {None}

\* --depth ends the walk before its time.
Truncated == budget = 0 /\ frontier # {}

\* A process that dies has written some of its files and not the others.
HalfWritten ==
  \/ pc = "caches"
  \/ /\ pc \in {"walking", "retiring", "evaluating", "checkpoint"}
     /\ active # enabled
     /\ first # ckpt.commit

-----------------------------------------------------------------------------
(***************************************************************************)
(* The world, between runs.                                                *)
(***************************************************************************)

Idle == pc = "idle"

run == << pc, todo, active, mem, log, walk, pending >>

\* A fetch brings commits.
Push(h) ==
  /\ Idle
  /\ h # head /\ head \in Reach[h]
  /\ head' = h
  /\ UNCHANGED << enabled, version, disk, run, crashes, spoiled >>

\* A fetch brings a history without the old head.
Rewrite(h) ==
  /\ Idle /\ MayRewrite
  /\ head \notin Reach[h]
  /\ head' = h
  /\ spoiled' = (spoiled \/ Orphaned(h))
  /\ UNCHANGED << enabled, version, disk, run, crashes >>

\* The user edits the rules to include and exclude.
Enable(r) ==
  /\ Idle
  /\ r \notin enabled
  /\ enabled' = enabled \cup {r}
  /\ UNCHANGED << head, version, disk, run, crashes, spoiled >>

Disable(r) ==
  /\ Idle
  /\ r \in enabled \cap MayDisable
  /\ enabled' = enabled \ {r}
  /\ UNCHANGED << head, version, disk, run, crashes, spoiled >>

\* A new build bumps the version of a rule.
Upgrade(r) ==
  /\ Idle
  /\ \E v \in Versions :
       /\ v > version[r]
       /\ version' = [version EXCEPT ![r] = v]
  /\ UNCHANGED << head, enabled, disk, run, crashes, spoiled >>

\* The operator deletes the repository's cache directory and log.
Reset ==
  /\ Idle
  /\ spoiled
  /\ ckpt' = NoCheckpoint /\ cache' = [r \in Rules |-> None] /\ file' = << >>
  /\ spoiled' = FALSE
  /\ UNCHANGED << world, run, crashes >>

-----------------------------------------------------------------------------
(***************************************************************************)
(* A run.                                                                  *)
(***************************************************************************)

\* Pipeline::new: load the checkpoint and classify the rules.  A checkpoint that
\* does not parse ends the run before it began.
Start(depth) ==
  /\ Idle
  /\ ckpt # Torn
  /\ \A r \in Rules : cache[r] \notin {None, Torn} => \A c \in Commits : cache[r][c] < MaxTimes
  /\ budget' = depth
  /\ todo' = Invalidated
  /\ pc' = IF Invalidated = {} THEN "loading" ELSE "wiping"
  /\ spoiled' = (spoiled \/ \E r \in enabled : Leftover(r))
  /\ UNCHANGED << world, disk, active, mem, log, frontier, seen, first, pending, crashes >>

\* apply_invalidation: delete one cache file, then the next.
WipeCache(r) ==
  /\ pc = "wiping"
  /\ todo # {} /\ r = Least(todo)
  /\ cache' = [cache EXCEPT ![r] = None]
  /\ todo' = todo \ {r}
  /\ UNCHANGED << world, ckpt, file, pc, active, mem, log, walk, pending, crashes, spoiled >>

\* Mutant: meta-achievement rows survive the pruning.
PruneLogKeepingMeta ==
  /\ pc = "wiping"
  /\ todo = {}
  /\ file # Unreadable
  /\ file' = SelectSeq(file, LAMBDA e : e.ach \notin Invalidated)
  /\ pc' = "loading"
  /\ UNCHANGED << world, ckpt, cache, todo, active, mem, log, walk, pending, crashes, spoiled >>

\* apply_invalidation: load, prune and save the log.
PruneLog ==
  /\ pc = "wiping"
  /\ todo = {}
  /\ file # Unreadable
  /\ file' = Pruned(file, Invalidated)
  /\ pc' = "loading"
  /\ UNCHANGED << world, ckpt, cache, todo, active, mem, log, walk, pending, crashes, spoiled >>

\* Mutant: a rule without a cache file starts from Null instead of the default.
LoadNull ==
  /\ pc = "loading"
  /\ file # Unreadable
  /\ \A r \in enabled : cache[r] # Torn
  /\ log' = file
  /\ active' = enabled
  /\ mem' = [r \in Rules |-> IF r \in enabled THEN cache[r] ELSE EmptyCache]
  /\ frontier' = {head} /\ seen' = {} /\ first' = None
  /\ pc' = "walking"
  /\ UNCHANGED << world, disk, todo, budget, pending, crashes, spoiled >>

\* AchievementLog::load and init_caches: nothing is written between them.
Load ==
  /\ pc = "loading"
  /\ file # Unreadable
  /\ \A r \in enabled : cache[r] # Torn
  /\ log' = file
  /\ active' = enabled
  /\ mem' = [r \in Rules |-> IF r \in enabled /\ cache[r] # None THEN cache[r]
                                                                 ELSE EmptyCache]
  /\ frontier' = {head} /\ seen' = {} /\ first' = None
  /\ pc' = "walking"
  /\ UNCHANGED << world, disk, todo, budget, pending, crashes, spoiled >>

\* The process ends; what it had in memory is gone.
Exit ==
  /\ pc' = "idle"
  /\ todo' = {} /\ active' = {}
  /\ mem' = [r \in Rules |-> EmptyCache] /\ log' = << >>
  /\ frontier' = {} /\ seen' = {} /\ budget' = 0 /\ first' = None
  /\ pending' = {}

\* A file that does not parse is an error that ends the run.
LoadFails ==
  /\ \/ pc = "wiping" /\ todo = {} /\ file = Unreadable
     \/ pc = "loading" /\ (file = Unreadable \/ \E r \in enabled : cache[r] = Torn)
  /\ Exit
  /\ UNCHANGED << world, disk, crashes, spoiled >>

\* The rev-walk's next commit: the newest of those it knows of.
NextCommit == CHOOSE c \in frontier : \A d \in frontier : d <= c

\* The iterator has another commit for the loop.
HasNext == frontier # {} /\ budget > 0

\* PipelineCheckpoint::on_commit notes the first commit of the walk.
NoteFirst(c) == first' = IF first = None THEN c ELSE first

\* process_commit and the rules' reactions; the walk goes on to the parents.
ProcessCommit(c) ==
  /\ mem' = [r \in Rules |->
               IF r \in active \cap Cached /\ c \in Matches[r][version[r]]
               THEN [mem[r] EXCEPT ![c] = @ + 1] ELSE mem[r]]
  /\ pending' = {[rule |-> r, grant |-> GrantAt(c)] : r \in {r \in active : GrantsAt(r, c)}}
  /\ frontier' = (frontier \ {c}) \cup (Parents[c] \ seen)
  /\ seen' = seen \cup {c}
  /\ budget' = budget - 1
  /\ NoteFirst(c)
  /\ pc' = "walking"

\* on_commit: Continuation::Process.
Visit(c) ==
  /\ pc = "walking" /\ pending = {}
  /\ HasNext /\ c = NextCommit /\ c # ckpt.commit
  /\ ProcessCommit(c)
  /\ UNCHANGED << world, disk, todo, active, log, crashes, spoiled >>

\* Mutant: an early exit returns from run() at once.
EarlyExitUnsaved(c) ==
  /\ pc = "walking" /\ pending = {}
  /\ HasNext /\ c = NextCommit /\ c = ckpt.commit
  /\ \A r \in active : HasProcessed(r)
  /\ Exit
  /\ UNCHANGED << world, disk, crashes, spoiled >>

\* on_commit: the checkpoint commit, and every rule has processed it.
EarlyExit(c) ==
  /\ pc = "walking" /\ pending = {}
  /\ HasNext /\ c = NextCommit /\ c = ckpt.commit
  /\ \A r \in active : HasProcessed(r)
  /\ NoteFirst(c)
  /\ pc' = "finalizing"
  /\ spoiled' = (spoiled \/ Overlooks(c))
  /\ UNCHANGED << world, disk, todo, active, mem, log, frontier, seen, budget, pending, crashes >>

\* on_commit: the checkpoint commit, and some rule has not.
ReachCheckpoint(c) ==
  /\ pc = "walking" /\ pending = {}
  /\ HasNext /\ c = NextCommit /\ c = ckpt.commit
  /\ \E r \in active : ~HasProcessed(r)
  /\ NoteFirst(c)
  /\ pc' = "retiring"
  /\ spoiled' = (spoiled \/ Overlooks(c))
  /\ UNCHANGED << world, disk, todo, active, mem, log, frontier, seen, budget, pending, crashes >>

\* Mutant: retire drops a rule without saving its cache.
RetireUnsaved(r) ==
  /\ pc = "retiring"
  /\ Unchanged # {} /\ r = Least(Unchanged)
  /\ pending' = pending \cup FinalOutputs({r})
  /\ active' = active \ {r}
  /\ UNCHANGED << world, disk, pc, todo, mem, log, walk, crashes, spoiled >>

\* retire: finalize one rule, save its cache, and leave it out of the rest.
Retire(r) ==
  /\ pc = "retiring"
  /\ Unchanged # {} /\ r = Least(Unchanged)
  /\ pending' = pending \cup FinalOutputs({r})
  /\ cache' = IF r \in Cached THEN [cache EXCEPT ![r] = mem[r]] ELSE cache
  /\ active' = active \ {r}
  /\ UNCHANGED << world, ckpt, file, pc, todo, mem, log, walk, crashes, spoiled >>

\* The other rules process the checkpoint commit, and go on into the past.
VisitCheckpoint(c) ==
  /\ pc = "retiring" /\ Unchanged = {} /\ pending = {}
  /\ c = NextCommit
  /\ ProcessCommit(c)
  /\ UNCHANGED << world, disk, todo, active, log, crashes, spoiled >>

\* emit: resolve the outputs in the order of their rules.
Emit(o) ==
  /\ o \in pending /\ \A p \in pending : o.rule <= p.rule
  /\ pc = "retiring" => Unchanged = {}
  /\ log' = Resolve(log, o.rule, o.grant)
  /\ pending' = pending \ {o}
  /\ UNCHANGED << world, disk, pc, todo, active, mem, walk, crashes, spoiled >>

\* RuleEngine::finalize, after the last commit or an early exit.
Finalize ==
  /\ pending = {}
  /\ \/ pc = "finalizing"
     \/ pc = "walking" /\ ~HasNext
  /\ pending' = FinalOutputs(active)
  /\ pc' = "evaluating"
  /\ UNCHANGED << world, disk, todo, active, mem, log, walk, crashes, spoiled >>

\* meta_achievements::evaluate and the emit of its result.
EvaluateMeta ==
  /\ pc = "evaluating" /\ pending = {}
  /\ \/ \E g \in FarmerGrants(log) : log' = Resolve(log, Farmer, g)
     \/ FarmerGrants(log) = {} /\ UNCHANGED log
  /\ pc' = "checkpoint"
  /\ UNCHANGED << world, disk, todo, active, mem, walk, pending, crashes, spoiled >>

\* save_checkpoint: the first commit of the walk, every enabled rule.
SaveCheckpoint ==
  /\ pc = "checkpoint"
  /\ ckpt' = [commit |-> first, rules |-> RulesWithVersions]
  /\ todo' = active \cap Cached
  /\ pc' = "caches"
  /\ spoiled' = (spoiled \/ Truncated)
  /\ UNCHANGED << world, cache, file, active, mem, log, walk, pending, crashes >>

\* fini_caches: one file after the other, of the rules not retired.
SaveCache(r) ==
  /\ pc = "caches"
  /\ todo # {} /\ r = Least(todo)
  /\ cache' = [cache EXCEPT ![r] = mem[r]]
  /\ todo' = todo \ {r}
  /\ UNCHANGED << world, ckpt, file, pc, active, mem, log, walk, pending, crashes, spoiled >>

\* AchievementLog::save, and the end of the run.
SaveLog ==
  /\ pc = "caches"
  /\ todo = {}
  /\ file' = log
  /\ Exit
  /\ UNCHANGED << world, ckpt, cache, crashes, spoiled >>

-----------------------------------------------------------------------------
(***************************************************************************)
(* A process that dies, or whose walk or diff returns an error.            *)
(***************************************************************************)

\* Between two writes.
Crash ==
  /\ ~Idle
  /\ crashes < MaxCrashes
  /\ crashes' = crashes + 1
  /\ spoiled' = (spoiled \/ HalfWritten)
  /\ Exit
  /\ UNCHANGED << world, disk >>

\* In the middle of one.
Tear ==
  \/ /\ pc = "checkpoint"
     /\ ckpt' = Torn
     /\ UNCHANGED << cache, file >>
  \/ \E r \in Rules :
       /\ \/ pc = "retiring" /\ Unchanged # {} /\ r = Least(Unchanged) /\ r \in Cached
          \/ pc = "caches" /\ todo # {} /\ r = Least(todo)
       /\ cache' = [cache EXCEPT ![r] = Torn]
       /\ UNCHANGED << ckpt, file >>
  \/ /\ pc = "wiping" /\ todo = {} /\ file # Unreadable
     /\ file' \in CutShort(Pruned(file, Invalidated))
     /\ UNCHANGED << ckpt, cache >>
  \/ /\ pc = "caches" /\ todo = {}
     /\ file' \in CutShort(log)
     /\ UNCHANGED << ckpt, cache >>

CrashInWrite ==
  /\ crashes < MaxCrashes
  /\ Tear
  /\ crashes' = crashes + 1
  /\ spoiled' = TRUE
  /\ Exit
  /\ UNCHANGED world

-----------------------------------------------------------------------------
Check ==
  \/ \E depth \in Depths : Start(depth)
  \/ \E r \in Rules : WipeCache(r) \/ Retire(r) \/ SaveCache(r)
  \/ PruneLog
  \/ Load
  \/ LoadFails
  \/ \E c \in frontier : Visit(c) \/ EarlyExit(c) \/ ReachCheckpoint(c) \/ VisitCheckpoint(c)
  \/ \E o \in pending : Emit(o)
  \/ Finalize
  \/ EvaluateMeta
  \/ SaveCheckpoint
  \/ SaveLog

Fault == Crash \/ CrashInWrite

World ==
  \/ \E h \in Commits : Push(h) \/ Rewrite(h)
  \/ \E r \in Rules : Enable(r) \/ Disable(r) \/ Upgrade(r)
  \/ Reset

Next == Check \/ Fault \/ World

Spec == Init /\ [][Next]_vars

\* `herostratus check-all` is run again and again ("on a timer, or when they're
\* bored"), and a run that is not interrupted goes on to its end.
FairSpec == Spec /\ WF_vars(Check)

-----------------------------------------------------------------------------
(***************************************************************************)
(* Safety.                                                                 *)
(***************************************************************************)

\* The commits rule r should have reacted to, if it ran over all of cs.
Due(r, cs) == Matches[r][version[r]] \cap cs

HoldersIn(l, r) == {l[i].user : i \in {i \in ActiveGrants(l) : l[i].ach = r}}
GrantsTo(l, r, u) == Cardinality({i \in DOMAIN l : IsGrant(l[i], r) /\ l[i].user = u})

\* The log holds what rule r earns over cs, however many runs it took: a match
\* for each author of a matching commit, a milestone for each that was passed,
\* the record for the one commit that holds it.
Awarded(l, r, cs) ==
  LET due     == Due(r, cs)
      authors == {Author[c] : c \in due}
  IN  CASE Role[r] = "match" -> IF Kind(r) = "PerUser"
                                THEN HoldersIn(l, r) = authors
                                ELSE /\ HoldersIn(l, r) \subseteq authors
                                     /\ authors # {} => HoldersIn(l, r) # {}
        [] Role[r] = "count" ->
             \A u \in Users :
               GrantsTo(l, r, u) =
                 Cardinality({m \in Milestones :
                                m <= Cardinality({c \in due : Author[c] = u})})
        [] Role[r] = "best"  ->
             HoldersIn(l, r) =
               {Author[c] : c \in {c \in due : \A d \in due : Score[c] <= Score[d]}}

\* A rule the checkpoint names has processed every commit up to it, exactly once:
\* its cache absorbed each, and the log holds what it earned over all of them.
UpToCheckpoint(r) ==
  LET cs == IF ckpt.commit = None THEN {} ELSE Reach[ckpt.commit]
  IN  /\ r \in Cached => cache[r] \in {[c \in Commits |-> IF c \in Due(r, cs) THEN 1 ELSE 0]}
                                   \cup (IF Due(r, cs) = {} THEN {None} ELSE {})
      /\ Awarded(file, r, cs)

\* What the checkpoint says of a rule is true of the files: through every order
\* of pushes, rules enabled and upgraded, backfills, retirements, invalidations
\* cut short anywhere, and runs that died before they wrote.
CheckpointKeepsItsWord ==
  Idle /\ ~spoiled =>
    \A r \in Rules : HasProcessed(r) => UpToCheckpoint(r)

\* The same without the excuses, as the documentation says it.
CheckpointIsTrue ==
  Idle /\ ckpt # Torn /\ file # Unreadable =>
    \A r \in Rules : HasProcessed(r) => UpToCheckpoint(r)

\* The checkpoint and the log a run goes on from are consistent, or it would have
\* deleted both.
PairedOrDeleted ==
  pc = "walking" /\ first = None /\ ckpt.commit # None =>
    \A r \in Rules : HasProcessed(r) => Awarded(log, r, Reach[ckpt.commit])

\* A count rule grants a milestone only to a user who reached it.
MilestonesAreReached ==
  file # Unreadable =>
    \A r \in Rules, u \in Users : Role[r] = "count" =>
      GrantsTo(file, r, u) <=
        Cardinality({m \in Milestones :
                       m <= Cardinality({c \in Due(r, Commits) : Author[c] = u})})

\* The meta-achievement is where evaluate() would put it.
Settled(l) == \A g \in FarmerGrants(l) : Suppressed(l, Farmer, g)

\* A run that finds nothing new, where no rule processed a commit, writes back
\* the log it read: no grant is repeated, nothing changes hands, and the
\* meta-achievement stays where it is.  Only a pruning cut off from its run can
\* leave a file that is not settled; a log that is about to be saved is.
QuietRerun ==
  /\ pc = "checkpoint" /\ seen = {} /\ ~spoiled /\ Settled(file) => log = file
  /\ pc \in {"checkpoint", "caches"} => Settled(log)

\* The walk has met what lies behind the checkpoint commit, and not yet the
\* checkpoint commit: commit times that run backwards along history.
Overtaken ==
  /\ ckpt.commit \notin seen \cup {None}
  /\ seen \cap Reach[ckpt.commit] # {}

\* Each rule meets each commit once in a run, the checkpoint commit included:
\* what a rule has in memory before it is saved counts no commit twice.
CountedOnce ==
  ~spoiled /\ ~Overtaken => \A r \in active : \A c \in Commits : mem[r][c] <= 1

\* Whatever interrupts whichever write, and whatever a spoiled run makes of the
\* files, nobody shares a global achievement: not in a log on disk that loads,
\* not in the log a run is extending.
OneHolder == SingleHolder(log) /\ (file # Unreadable => SingleHolder(file))

-----------------------------------------------------------------------------
(***************************************************************************)
(* The log inside a run is the log of AchievementLog, whatever goes wrong. *)
(***************************************************************************)

Log == INSTANCE AchievementLog WITH
  Asks      <- Rules \X Grant,
  MaxEvents <- 0,
  MaxDeaths <- MaxCrashes,
  deaths    <- crashes,
  phase     <- CASE pc \in {"idle", "wiping", "loading"} -> "closed"
                 [] pc \in {"walking", "retiring", "finalizing", "evaluating"} -> "open"
                 [] OTHER -> "evaluated"

\* A run opens, extends, saves, prunes and loses the log only as AchievementLog
\* allows, so its theorems hold of every log on disk and in memory here.
ImplementsLog == Log!Spec

-----------------------------------------------------------------------------
(***************************************************************************)
(* Liveness.                                                               *)
(***************************************************************************)

\* The checkpoint names the head and every enabled rule at its version.
UpToDate ==
  /\ ckpt.commit = head
  /\ RulesWithVersions \subseteq ckpt.rules

\* Once the world stands still, some run leaves everything up to date and every
\* later one finds it so.
CatchesUp == <>[](Idle => UpToDate)
=============================================================================
