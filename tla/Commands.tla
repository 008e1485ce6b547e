-------------------------------- MODULE Commands --------------------------------
(***************************************************************************)
(* The stateful commands over one data directory (main.rs, commands/): a   *)
(* job that fetches and checks, again and again, and an operator who adds  *)
(* repositories meanwhile and now and then changes the rules.  Each        *)
(* command reads the configuration when it starts and writes it back when  *)
(* it ends; a check works on the files of one repository, which a kill can *)
(* leave torn, and then counts its commits in repositories.csv.  The first *)
(* error ends a command.  Repositories are numbered in the order of their  *)
(* names.                                                                  *)
(***************************************************************************)
EXTENDS Render, Functions

CONSTANTS
  Names,        \* the repositories there are
  Authors,      \* of commits
  AuthorOf,     \* AuthorOf[n][c], NameOf[n][c]: the author of commit c of
  NameOf,       \* repository n, and the name in it
  Catalog,      \* the achievements of rules
  Farmer,       \* the meta-achievement
  AchievementKinds,
  Cached,       \* the rules that keep a cache file
  Editions,     \* the rules that are enabled, each with its version, from one edit
                \* to the next
  Asks,         \* Asks[n]: what rules may grant in repository n, and for which commits
  BrokenSets,   \* the sets of remotes that may be out of reach for good
  MaxCommits,   \* bound: MaxCommits[n] commits in repository n
  MaxEvents,    \* bound: nothing is granted once a log has MaxEvents[n] rows
  MaxFaults,    \* bound: commands that end early by themselves
  NONE

ASSUME NamesAssumption == Names \subseteq Nat /\ IsFiniteSet(Names) /\ IsFiniteSet(Catalog)
ASSUME AuthorsAssumption ==
  /\ Authors \subseteq Nat
  /\ \A n \in Names :
       /\ MaxCommits[n] \in Nat \ {0} /\ MaxEvents[n] \in Nat
       /\ Asks[n] \subseteq (Catalog \cup {Farmer}) \X (1 .. MaxCommits[n])
       /\ \A c \in 1 .. MaxCommits[n] :
            AuthorOf[n][c] \in Authors /\ NameOf[n][c] \in DOMAIN Slugify
ASSUME RulesAssumption ==
  /\ Farmer \notin Catalog /\ Cached \subseteq Catalog
  /\ {"checkpoint", "log"} \cap Catalog = {}
  /\ Editions \in Seq(SUBSET (Catalog \X Nat)) /\ Editions # <<>>
  /\ \A k \in DOMAIN Editions : \A q, r \in Editions[k] : q[1] = r[1] => q = r

VARIABLES
  broken,       \* remotes that are out of reach
  server,       \* commits of each repository
  file,         \* config.toml: missing, torn or whole, and the repositories in it
  edition,      \* how often config.toml or the build were edited, and once more
  local,        \* commits of each clone, or NONE
  done,         \* the checkpoint of each repository: the commits it stands for,
  ran,          \* and the rules
  logs,         \* events/<name>.csv
  torn,         \* which files of each repository do not load: "checkpoint",
                \* "log", or the cache of a rule
  rows,         \* repositories.csv
  catalog,      \* achievements.csv
  job,          \* the command that fetches or checks, and
  adder,        \* the command that adds: where they are and what they hold
  faults,
  again,        \* ghost: commits that were checked before and are checked again
  uncounted,    \* ghost: commits checked by commands that ended before counting
  added,        \* ghost: repositories that were added
  overlapped    \* ghost: those that were added while a job was running without them

world == <<broken, server, edition>>
repos == <<done, ran, logs, torn>>
ghost == <<again, uncounted, added, overlapped>>
vars  == <<world, file, local, repos, rows, catalog, job, adder, faults, ghost>>

Log == INSTANCE AchievementEvents WITH
         Achievements <- Catalog, KindOf <- AchievementKinds, Users <- Authors,
         Commits <- Nat, Unreadable <- NONE,
         FewContributors <- 0, FewGrants <- 0, FewForLeader <- 0

Idle == [pc |-> "idle"]

Commits == UNION {1 .. MaxCommits[n] : n \in Names}

\* Commands go through the repositories in the order of their names.
NextOf(todo) == CHOOSE n \in todo : \A m \in todo : n <= m

Init ==
  /\ broken \in BrokenSets
  /\ server = [n \in Names |-> 1]
  /\ file = [state |-> "missing", repos |-> {}]
  /\ edition = 1
  /\ local = [n \in Names |-> NONE]
  /\ done = [n \in Names |-> 0] /\ ran = [n \in Names |-> {}]
  /\ logs = [n \in Names |-> <<>>] /\ torn = [n \in Names |-> {}]
  /\ rows = <<>> /\ catalog = {}
  /\ job = Idle /\ adder = Idle
  /\ faults = 0
  /\ again = [n \in Names |-> 0] /\ uncounted = [n \in Names |-> 0]
  /\ added = {} /\ overlapped = {}

-----------------------------------------------------------------------------
\* read_config: an empty file does not parse; a missing one is written.
Read == file.repos

Whole(config) == [state |-> "whole", repos |-> config]
Torn          == [state |-> "torn", repos |-> {}]

ReadConfig == file.state # "torn" /\ file' = Whole(Read)

\* fetch_all, check_all with or without fetching, check_one: what is fetched,
\* and what is checked after that.
StartJob(fetches, checks) ==
  /\ job.pc = "idle"
  /\ ReadConfig
  /\ job' = [pc |-> "fetch", config |-> Read, todo |-> fetches, checks |-> checks,
             new |-> 0, log |-> <<>>]
  /\ UNCHANGED <<world, local, repos, rows, catalog, adder, faults, ghost>>

CheckAll == StartJob(Read, Read)

Start == \/ CheckAll
         \/ StartJob(Read, {})
         \/ StartJob({}, Read)
         \/ \E n \in Read : StartJob({n}, {n})

\* Mutant: what has been cloned is not pulled.
PulledOnce(n) == IF local[n] = NONE THEN server[n] ELSE local[n]

\* fetch_one: everything the remote has, by a clone or a pull.
Pulled(n) == server[n]

\* One turn of fetch_all.
Fetch ==
  /\ job.pc = "fetch" /\ job.todo # {}
  /\ LET n == NextOf(job.todo)
     IN  IF n \in broken
         THEN job' = Idle /\ UNCHANGED local
         ELSE /\ local' = [local EXCEPT ![n] = Pulled(n)]
              /\ job' = [job EXCEPT !.todo = @ \ {n}]
  /\ UNCHANGED <<world, file, repos, rows, catalog, adder, faults, ghost>>

Fetched ==
  /\ job.pc = "fetch" /\ job.todo = {}
  /\ job' = [job EXCEPT !.pc = "check", !.todo = job.checks]
  /\ UNCHANGED <<world, file, local, repos, rows, catalog, adder, faults, ghost>>

-----------------------------------------------------------------------------
(***************************************************************************)
(* check_impl for one repository: what each rule grants, and the order of  *)
(* the walk, are the subject of Pipeline.                                  *)
(***************************************************************************)

enabled == Editions[edition]

RulesOf(versioned) == {r[1] : r \in versioned}

\* The rules the checkpoint has at another version.
Invalidated(n) == RulesOf({r \in enabled : \E q \in ran[n] : q[1] = r[1] /\ q[2] # r[2]})

\* What apply_invalidation leaves of the log.
KeptLog(n) ==
  IF Invalidated(n) = {} THEN logs[n] ELSE Log!Pruned(logs[n], Invalidated(n))

\* Every file the check reads parses, once apply_invalidation deleted some.
Loads(n) ==
  /\ {"checkpoint", "log"} \cap torn[n] = {}
  /\ RulesOf(enabled) \cap torn[n] \subseteq Invalidated(n)

\* write_achievements_csv: the rules enabled now, and the meta-achievements.
Listed == RulesOf(enabled) \cup Log!MetaAchievements

\* The walk goes over the commits since the checkpoint, or over the whole history
\* again if a rule is not in it.
Known(n)  == enabled \subseteq ran[n]
Walked(n) == IF Known(n) THEN local[n] - done[n] ELSE local[n]
Rewalked(n) == IF Known(n) THEN 0 ELSE done[n]

\* check_impl until the commits are walked: without a clone, or with a file that
\* does not load, it ends the command.
CheckLoads ==
  /\ job.pc = "check" /\ job.todo # {}
  /\ LET n == NextOf(job.todo)
     IN  IF local[n] = NONE
         THEN job' = Idle /\ UNCHANGED <<logs, torn, catalog>>
         ELSE /\ catalog' = Listed
              /\ logs' = [logs EXCEPT ![n] = KeptLog(n)]
              /\ torn' = [torn EXCEPT ![n] = @ \ Invalidated(n)]
              /\ job' = IF Loads(n) THEN [job EXCEPT !.pc = "walk", !.log = KeptLog(n)]
                        ELSE Idle
  /\ UNCHANGED <<world, file, local, done, ran, rows, adder, faults, ghost>>

\* An event with what render reads of it besides: its time and the user's name.
Dated(e, n, c) == [event |-> e.event, ach |-> e.ach, user |-> e.user, commit |-> e.commit,
                   time |-> c, name |-> NameOf[n][e.commit]]

\* A rule or the meta-achievement grants something for commit c to its author.
Grant(a, c) ==
  /\ job.pc = "walk"
  /\ LET n == NextOf(job.todo)
         events == Log!Resolution(job.log, a, [user |-> AuthorOf[n][c], commit |-> c])
     IN  /\ <<a, c>> \in Asks[n] /\ c <= local[n] /\ Len(job.log) < MaxEvents[n]
         /\ job' = [job EXCEPT !.log = @ \o [i \in DOMAIN events |-> Dated(events[i], n, c)]]
  /\ UNCHANGED <<world, file, local, repos, rows, catalog, adder, faults, ghost>>

\* save_checkpoint: the head, and the rules enabled now.
SavesCheckpoint(n) ==
  /\ done' = [done EXCEPT ![n] = local[n]]
  /\ ran' = [ran EXCEPT ![n] = enabled]
  /\ again' = [again EXCEPT ![n] = @ + Rewalked(n)]

\* The end of the pipeline: the checkpoint, the caches and the log are saved.
CheckSaves ==
  /\ job.pc = "walk"
  /\ LET n == NextOf(job.todo)
     IN  /\ SavesCheckpoint(n)
         /\ logs' = [logs EXCEPT ![n] = job.log]
         /\ job' = IF Walked(n) = 0
                   THEN [job EXCEPT !.pc = "check", !.todo = @ \ {n}, !.log = <<>>]
                   ELSE [job EXCEPT !.pc = "count", !.new = Walked(n), !.log = <<>>]
  /\ UNCHANGED <<world, file, local, torn, rows, catalog, adder, faults,
                 uncounted, added, overlapped>>

\* Mutant: the row of an earlier run is replaced.
UpsertedAnew(n, new) ==
  SelectSeq(rows, LAMBDA r : r.name # n) \o <<[name |-> n, commits_checked |-> new]>>

\* upsert_repository_csv: the row of the repository adds up its runs.
Upserted(n, new) ==
  IF \E k \in DOMAIN rows : rows[k].name = n
  THEN [k \in DOMAIN rows |->
          IF rows[k].name = n THEN [rows[k] EXCEPT !.commits_checked = @ + new] ELSE rows[k]]
  ELSE Append(rows, [name |-> n, commits_checked |-> new])

\* check_impl after the pipeline, and the next turn of check_all.
Count ==
  /\ job.pc = "count"
  /\ rows' = Upserted(NextOf(job.todo), job.new)
  /\ job' = [job EXCEPT !.pc = "check", !.todo = @ \ {NextOf(@)}, !.new = 0]
  /\ UNCHANGED <<world, file, local, repos, catalog, adder, faults, ghost>>

\* write_config truncates the file, and then writes what the command holds.
Truncate ==
  /\ job.pc = "check" /\ job.todo = {}
  /\ job' = [job EXCEPT !.pc = "write"]
  /\ file' = Torn
  /\ UNCHANGED <<world, local, repos, rows, catalog, adder, faults, ghost>>

Write ==
  /\ job.pc = "write"
  /\ job' = Idle
  /\ file' = Whole(job.config)
  /\ UNCHANGED <<world, local, repos, rows, catalog, adder, faults, ghost>>

-----------------------------------------------------------------------------
\* Mutant: the configuration is made anew.
InsertedAlone(config, n) == {n}

\* config.repositories.insert.
Inserted(config, n) == config \cup {n}

\* add, with and without --skip-clone.
Add(n) ==
  /\ adder.pc = "idle" /\ n \notin added
  /\ ReadConfig
  /\ \/ UNCHANGED local
     \/ n \notin broken /\ local' = [local EXCEPT ![n] = server[n]]
  /\ adder' = [pc |-> "truncate", name |-> n, config |-> Inserted(Read, n)]
  /\ UNCHANGED <<world, repos, rows, catalog, job, faults, ghost>>

AddTruncates ==
  /\ adder.pc = "truncate"
  /\ adder' = [adder EXCEPT !.pc = "write"]
  /\ file' = Torn
  /\ UNCHANGED <<world, local, repos, rows, catalog, job, faults, ghost>>

AddWrites ==
  /\ adder.pc = "write"
  /\ adder' = Idle
  /\ file' = Whole(adder.config)
  /\ added' = added \cup {adder.name}
  /\ overlapped' = overlapped \cup IF job.pc # "idle" THEN {adder.name} \ job.config ELSE {}
  /\ UNCHANGED <<world, local, repos, rows, catalog, job, faults, again, uncounted>>

-----------------------------------------------------------------------------
(***************************************************************************)
(* Commands that end early.                                                *)
(***************************************************************************)

Stops == faults < MaxFaults /\ faults' = faults + 1

\* A job ends by an error or is killed between two writes.
JobStops ==
  /\ job.pc # "idle" /\ Stops
  /\ job' = Idle
  /\ uncounted' = IF job.pc = "count"
                  THEN [uncounted EXCEPT ![NextOf(job.todo)] = @ + job.new] ELSE uncounted
  /\ UNCHANGED <<world, file, local, repos, rows, catalog, adder, again, added, overlapped>>

\* What a killed AchievementLog::save leaves of log l: its first rows, or a row
\* cut short.  bad are the files that do not load besides.
LogLeft(n, l, bad) ==
  \/ /\ \E k \in 0 .. Len(l) : logs' = [logs EXCEPT ![n] = SubSeq(l, 1, k)]
     /\ torn' = [torn EXCEPT ![n] = bad]
  \/ /\ logs' = [logs EXCEPT ![n] = <<>>]
     /\ torn' = [torn EXCEPT ![n] = bad \cup {"log"}]

\* It is killed in apply_invalidation: between two caches, or as it prunes the log.
InvalidationStops ==
  /\ job.pc = "check" /\ job.todo # {} /\ Stops
  /\ job' = Idle
  /\ LET n == NextOf(job.todo)
     IN  /\ local[n] # NONE
         /\ catalog' = Listed
         /\ \/ /\ \E wiped \in SUBSET Invalidated(n) : torn' = [torn EXCEPT ![n] = @ \ wiped]
               /\ UNCHANGED logs
            \/ /\ Invalidated(n) # {} /\ "log" \notin torn[n]
               /\ LogLeft(n, KeptLog(n), torn[n] \ Invalidated(n))
  /\ UNCHANGED <<world, file, local, done, ran, rows, adder, ghost>>

\* Rules that have nothing more to do at the checkpoint commit, when others have.
Retired(n) == IF Known(n) THEN {} ELSE enabled \cap ran[n]

\* It is killed as it saves the cache of a rule that retires.
RetireStops(n) ==
  /\ \E r \in Cached \cap RulesOf(Retired(n)) : torn' = [torn EXCEPT ![n] = @ \cup {r}]
  /\ UNCHANGED <<done, ran, logs, again, uncounted>>

\* It is killed as it saves the checkpoint, which then stands for nothing.
CheckpointStops(n) ==
  /\ torn' = [torn EXCEPT ![n] = @ \cup {"checkpoint"}]
  /\ done' = [done EXCEPT ![n] = 0] /\ ran' = [ran EXCEPT ![n] = {}]
  /\ again' = [again EXCEPT ![n] = @ + done[n]]
  /\ UNCHANGED <<logs, uncounted>>

\* It is killed after that: between two files, in the cache of a rule, or in the log.
SaveStops(n) ==
  /\ SavesCheckpoint(n)
  /\ uncounted' = [uncounted EXCEPT ![n] = @ + Walked(n)]
  /\ \/ UNCHANGED <<logs, torn>>
     \/ /\ \E r \in Cached \cap RulesOf(enabled \ Retired(n)) :
             torn' = [torn EXCEPT ![n] = @ \cup {r}]
        /\ UNCHANGED logs
     \/ LogLeft(n, job.log, torn[n])

CheckStops ==
  /\ job.pc = "walk" /\ Stops
  /\ job' = Idle
  /\ LET n == NextOf(job.todo) IN RetireStops(n) \/ CheckpointStops(n) \/ SaveStops(n)
  /\ UNCHANGED <<world, file, local, rows, catalog, adder, added, overlapped>>

AddStops ==
  /\ adder.pc # "idle" /\ Stops
  /\ adder' = Idle
  /\ UNCHANGED <<world, file, local, repos, rows, catalog, job, ghost>>

-----------------------------------------------------------------------------
Push(n) ==
  /\ server[n] < MaxCommits[n]
  /\ server' = [server EXCEPT ![n] = @ + 1]
  /\ UNCHANGED <<broken, edition, file, local, repos, rows, catalog, job, adder,
                 faults, ghost>>

\* The operator edits the rules in config.toml, or installs another build.
EditRules ==
  /\ job.pc = "idle" /\ adder.pc = "idle" /\ edition < Len(Editions)
  /\ edition' = edition + 1
  /\ UNCHANGED <<broken, server, file, local, repos, rows, catalog, job, adder, faults, ghost>>

\* The operator deletes the checkpoint, the caches and the log of a repository of
\* which some do not load.
Reset(n) ==
  /\ job.pc = "idle" /\ torn[n] # {}
  /\ done' = [done EXCEPT ![n] = 0] /\ ran' = [ran EXCEPT ![n] = {}]
  /\ logs' = [logs EXCEPT ![n] = <<>>] /\ torn' = [torn EXCEPT ![n] = {}]
  /\ again' = [again EXCEPT ![n] = @ + done[n]]
  /\ UNCHANGED <<world, file, local, rows, catalog, job, adder, faults,
                 uncounted, added, overlapped>>

JobStep == Fetch \/ Fetched \/ CheckLoads \/ CheckSaves \/ Count \/ Truncate \/ Write
AddStep == AddTruncates \/ AddWrites
Fault   == JobStops \/ InvalidationStops \/ CheckStops \/ AddStops

Next == \/ Start \/ JobStep \/ AddStep \/ Fault \/ EditRules
        \/ \E a \in catalog, c \in Commits : Grant(a, c)
        \/ \E n \in Names : Add(n) \/ Push(n) \/ Reset(n)

Spec == Init /\ [][Next]_vars
\* A command goes on until it ends, and check-all is started again and again.
FairSpec == Spec /\ WF_vars(JobStep) /\ WF_vars(AddStep) /\ SF_vars(CheckAll)

-----------------------------------------------------------------------------
\* A repository that was added stays configured, whatever other commands write
\* back, unless a job was running when it was added.
AddedReposStay == file.state # "torn" => added \ overlapped \subseteq Read

\* repositories.csv has one row for a repository, which counts the commits of all
\* its checks, those of a backfill or of a reset once more, but not those of a check
\* that ended between its checkpoint and the count.
OneRowEach == \A j, k \in DOMAIN rows : rows[j].name = rows[k].name => j = k

Due(n) ==
  (done[n] + again[n] - uncounted[n])
    - IF job.pc = "count" /\ NextOf(job.todo) = n THEN job.new ELSE 0

TotalsAddUp ==
  /\ OneRowEach
  /\ \A n \in Names :
       \/ \E k \in DOMAIN rows : rows[k].name = n /\ rows[k].commits_checked = Due(n)
       \/ (\A k \in DOMAIN rows : rows[k].name # n) /\ Due(n) = 0

\* While no remote is out of reach and the configuration can be read, check-all
\* gets to every commit of every repository in it up to the first one with a file
\* that does not load, whatever was killed before: there it ends, every time.
EveryRepoChecked ==
  <>[](broken = {} /\ file.state # "torn" =>
         \A n \in Read : (\A m \in Read : m <= n => Loads(m)) => done[n] = server[n])

\* Two users of the same name get slugs with a number, and another's name may be
\* just that.
NumberedNameTaken(users) ==
  LET Base(k) == Slugify[LatestName(logs, users[k].email)]
  IN  \E i, j, k \in DOMAIN users, m \in 2 .. Len(users) :
        i # j /\ Base(i) = Base(j) /\ Base(k) = Append(Base(i), m)

\* The site shows the holders the logs would give, the same grants under the
\* achievements, the repositories and the users, and users with pages of their own.
\* Missing are the grants of a rule that is not enabled any more under the
\* achievements, and those of a repository that was never counted under the
\* repositories.
SiteAddsUp ==
  job = Idle /\ adder = Idle /\ rows # <<>> /\ (\A n \in Names : "log" \notin torn[n]) =>
    LET site   == Aggregate(catalog, rows, logs)
        users  == site.users
        slugs  == {users[k].slug : k \in DOMAIN users}
        active == ActiveGrants(logs)
        shown  == {rows[k].name : k \in DOMAIN rows}
        earned == SumFunction([k \in DOMAIN users |-> users[k].active_achievements])
    IN  /\ \A a \in catalog : \A n \in Names :
             {e[2] : e \in {h \in site.achievements[a].holders : h[1] = n}}
               = {i \in Log!ActiveGrants(logs[n]) : logs[n][i].ach = a}
        /\ earned = SumFunction([a \in catalog |-> Cardinality(site.achievements[a].holders)])
                      + Cardinality({e \in active : At(logs, e).ach \notin catalog})
        /\ earned = SumFunction([k \in DOMAIN rows |-> site.repositories[k].total_achievements])
                      + Cardinality({e \in active : e[1] \notin shown})
        /\ Cardinality(slugs) = Len(users) \/ NumberedNameTaken(users)
        /\ \A a \in catalog : Cardinality(slugs) = Len(users) =>
             site.achievements[a].unique_holders =
               Cardinality({At(logs, e).user : e \in site.achievements[a].holders})
=============================================================================
