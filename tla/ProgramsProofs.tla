----------------------------- MODULE ProgramsProofs -----------------------------
(***************************************************************************)
(* Proofs about the programs beside the pipeline.  Commands which write    *)
(* back the configuration they read lose no repository but one that was    *)
(* added while a job ran without it, and keep the totals right, for any    *)
(* repositories, any edits of the rules, any number of faults and any      *)
(* order of the steps, and what the site shows of the logs that are left   *)
(* adds up, whatever the authors' names.  The observers' scanners find     *)
(* what they are to find in texts of any length over any alphabet.  The    *)
(* threads of a search end within a batch of the first match, and together *)
(* they miss no match, for any hash function and any number of threads.    *)
(***************************************************************************)
EXTENDS Commands, QuineSearch, ObserverTexts, EnumerationProofs

Kept == added \ overlapped

(* What is on the disk and what a running command will write there have    *)
(* every repository that must be kept; so that it stays true when the      *)
(* adder ends, its configuration has the repository it adds.               *)
JobHolds ==
  job.pc # "idle" => /\ {"pc", "config", "todo", "checks", "new", "log"} = DOMAIN job
                     /\ Kept \subseteq job.config

AdderHolds ==
  adder.pc # "idle" => /\ {"pc", "name", "config"} = DOMAIN adder
                       /\ Kept \subseteq adder.config
                       /\ adder.name \in adder.config

KeptInv == AddedReposStay /\ JobHolds /\ AdderHolds

LEMMA KeptInit == Init => KeptInv
  BY DEF Init, KeptInv, AddedReposStay, JobHolds, AdderHolds, Kept, Idle, Read

(* A step that leaves the file, the adder and the history alone, and keeps *)
(* the configuration of the job or ends it, keeps the invariant.           *)
LEMMA JobKeeps ==
  ASSUME KeptInv, UNCHANGED <<file, adder, added, overlapped>>,
         \/ UNCHANGED job
         \/ job' = Idle
         \/ DOMAIN job' = DOMAIN job /\ job'.config = job.config /\ job.pc # "idle"
  PROVE  KeptInv'
  BY DEF KeptInv, AddedReposStay, JobHolds, AdderHolds, Kept, Idle, Read

LEMMA StartKeeps ==
  ASSUME NEW fetches, NEW checks, KeptInv, StartJob(fetches, checks) PROVE KeptInv'
<1>1. file.state # "torn" /\ Kept \subseteq Read /\ Read' = Read
  BY DEF KeptInv, AddedReposStay, StartJob, ReadConfig, Whole, Read, Kept
<1>2. UNCHANGED <<adder, added, overlapped>>
  BY DEF StartJob, ghost
<1>3. DOMAIN job' = {"pc", "config", "todo", "checks", "new", "log"} /\ job'.config = Read
  BY DEF StartJob, ghost
<1> QED
  BY <1>1, <1>2, <1>3 DEF KeptInv, AddedReposStay, JobHolds, AdderHolds, Kept

LEMMA JobStepKeeps == KeptInv /\ JobStep => KeptInv'
<1>1. SUFFICES ASSUME KeptInv, JobStep PROVE KeptInv'
  OBVIOUS
<1>2. job.pc # "idle" => {"pc", "config", "todo", "checks", "new", "log"} = DOMAIN job
  BY <1>1 DEF KeptInv, JobHolds
<1>3. CASE Fetch
  <2>1. job' = Idle \/ \E rest : job' = [job EXCEPT !.todo = rest]
    BY <1>3 DEF Fetch
  <2> QED
    BY <1>1, <1>2, <1>3, <2>1, JobKeeps DEF Fetch, ghost
<1>4. CASE Fetched
  BY <1>1, <1>2, <1>4, JobKeeps DEF Fetched, ghost
<1>5. CASE CheckLoads
  <2>1. job' = Idle \/ \E log : job' = [job EXCEPT !.pc = "walk", !.log = log]
    BY <1>5 DEF CheckLoads
  <2>2. job.pc = "check" /\ UNCHANGED <<file, adder, added, overlapped>>
    BY <1>5 DEF CheckLoads, ghost
  <2> QED
    BY <1>1, <1>2, <2>1, <2>2, JobKeeps
<1>6. CASE CheckSaves
  <2>1. \/ \E rest : job' = [job EXCEPT !.pc = "check", !.todo = rest, !.log = <<>>]
        \/ \E new : job' = [job EXCEPT !.pc = "count", !.new = new, !.log = <<>>]
    BY <1>6 DEF CheckSaves
  <2>2. job.pc = "walk" /\ UNCHANGED <<file, adder, added, overlapped>>
    BY <1>6 DEF CheckSaves
  <2> QED
    BY <1>1, <1>2, <2>1, <2>2, JobKeeps
<1>7. CASE Count
  BY <1>1, <1>2, <1>7, JobKeeps DEF Count, ghost
<1>8. CASE Truncate
  BY <1>1, <1>2, <1>8
     DEF ghost, Truncate, Torn, KeptInv, AddedReposStay, JobHolds, AdderHolds, Kept, Read
<1>9. CASE Write
  BY <1>1, <1>2, <1>9
     DEF ghost, Write, Whole, Idle, KeptInv, AddedReposStay, JobHolds, AdderHolds, Kept, Read
<1> QED
  BY <1>1, <1>3, <1>4, <1>5, <1>6, <1>7, <1>8, <1>9 DEF JobStep

LEMMA GrantKeeps == ASSUME NEW a, NEW c, KeptInv, Grant(a, c) PROVE KeptInv'
<1>1. /\ job.pc = "walk" /\ UNCHANGED <<file, adder, added, overlapped>>
      /\ \E log : job' = [job EXCEPT !.log = log]
  BY DEF Grant, ghost
<1>2. {"pc", "config", "todo", "checks", "new", "log"} = DOMAIN job
  BY <1>1 DEF KeptInv, JobHolds
<1> QED
  BY <1>1, <1>2, JobKeeps

LEMMA FaultKeeps == KeptInv /\ Fault => KeptInv'
<1>1. SUFFICES ASSUME KeptInv, Fault PROVE KeptInv'
  OBVIOUS
<1>2. CASE JobStops
  BY <1>1, <1>2, JobKeeps DEF JobStops
<1>3. CASE InvalidationStops
  <2>1. job' = Idle /\ UNCHANGED <<file, adder, added, overlapped>>
    BY <1>3 DEF InvalidationStops, ghost
  <2> QED
    BY <1>1, <2>1, JobKeeps
<1>4. CASE CheckStops
  <2>1. job' = Idle /\ UNCHANGED <<file, adder, added, overlapped>>
    BY <1>4 DEF CheckStops
  <2> QED
    BY <1>1, <2>1, JobKeeps
<1>5. CASE AddStops
  <2>1. adder' = Idle /\ UNCHANGED <<file, job, added, overlapped>>
    BY <1>5 DEF AddStops, ghost
  <2> QED
    BY <1>1, <2>1 DEF Idle, KeptInv, AddedReposStay, JobHolds, AdderHolds, Kept, Read
<1> QED
  BY <1>1, <1>2, <1>3, <1>4, <1>5 DEF Fault

LEMMA AddKeeps == ASSUME NEW n, KeptInv, Add(n) PROVE KeptInv'
<1>1. file.state # "torn" /\ Kept \subseteq Read /\ Read' = Read
  BY DEF KeptInv, AddedReposStay, Add, ReadConfig, Whole, Read, Kept
<1>2. /\ UNCHANGED <<job, added, overlapped>>
      /\ adder' = [pc |-> "truncate", name |-> n, config |-> Read \cup {n}]
  BY DEF ghost, Add, Inserted
<1> QED
  BY <1>1, <1>2 DEF KeptInv, AddedReposStay, JobHolds, AdderHolds, Kept

(* The repository that is added counts as kept only if a running job has   *)
(* it in its configuration too.                                            *)
LEMMA AddStepKeeps == KeptInv /\ AddStep => KeptInv'
<1>1. SUFFICES ASSUME KeptInv, AddStep PROVE KeptInv'
  OBVIOUS
<1>2. CASE AddTruncates
  BY <1>1, <1>2
     DEF ghost, AddTruncates, Torn, KeptInv, AddedReposStay, JobHolds, AdderHolds, Kept, Read
<1>3. CASE AddWrites
  <2>1. /\ Kept' \subseteq Kept \cup {adder.name}
        /\ job.pc # "idle" => Kept' \subseteq Kept \cup ({adder.name} \cap job.config)
    BY <1>3 DEF AddWrites, Kept
  <2>2. Kept' \subseteq adder.config
    BY <1>1, <1>3, <2>1 DEF KeptInv, AdderHolds, AddWrites
  <2>3. AddedReposStay'
    BY <1>3, <2>2 DEF AddWrites, AddedReposStay, Whole, Read, Kept
  <2>4. JobHolds'
    BY <1>1, <1>3, <2>1 DEF KeptInv, JobHolds, AddWrites
  <2>5. AdderHolds'
    BY <1>3 DEF AddWrites, AdderHolds, Idle
  <2> QED
    BY <2>3, <2>4, <2>5 DEF KeptInv
<1> QED
  BY <1>1, <1>2, <1>3 DEF AddStep

LEMMA KeptNext == KeptInv /\ [Next]_vars => KeptInv'
<1>1. SUFFICES ASSUME KeptInv, [Next]_vars PROVE KeptInv'
  OBVIOUS
<1>2. CASE Start
  BY <1>1, <1>2, StartKeeps DEF Start, CheckAll
<1>3. CASE JobStep
  BY <1>1, <1>3, JobStepKeeps
<1>4. CASE Fault
  BY <1>1, <1>4, FaultKeeps
<1>5. ASSUME NEW n \in Names, Add(n) PROVE KeptInv'
  BY <1>1, <1>5, AddKeeps
<1>6. ASSUME NEW n \in Names, Push(n) \/ Reset(n) PROVE KeptInv'
  <2>1. UNCHANGED <<file, adder, job, added, overlapped>>
    BY <1>6 DEF Push, Reset, ghost
  <2> QED
    BY <1>1, <2>1, JobKeeps
<1>7. CASE AddStep
  BY <1>1, <1>7, AddStepKeeps
<1>8. CASE EditRules
  <2>1. UNCHANGED <<file, adder, job, added, overlapped>>
    BY <1>8 DEF EditRules, ghost
  <2> QED
    BY <1>1, <2>1, JobKeeps
<1>9. CASE UNCHANGED vars
  BY <1>1, <1>9, JobKeeps DEF vars, ghost
<1>10. ASSUME NEW a, NEW c, Grant(a, c) PROVE KeptInv'
  BY <1>1, <1>10, GrantKeeps
<1> QED
  BY <1>1, <1>2, <1>3, <1>4, <1>5, <1>6, <1>7, <1>8, <1>9, <1>10 DEF Next

(* A repository that was added stays in the configuration, whatever fetch  *)
(* and check commands write back and wherever commands are killed, unless  *)
(* a job was running without it when it was added.                         *)
THEOREM AddedReposStayAlways == Spec => []AddedReposStay
<1>1. KeptInv => AddedReposStay
  BY DEF KeptInv
<1> QED
  BY <1>1, KeptInit, KeptNext, PTL DEF Spec

-----------------------------------------------------------------------------
(***************************************************************************)
(* repositories.csv adds up.  Besides the types, a job that walks or is    *)
(* about to count has a repository to do it for, of which there is a       *)
(* clone; the row of that repository is all it changes, by what Due leaves *)
(* out for as long as it has not counted.                                  *)
(***************************************************************************)
JobTyped(j) ==
  /\ DOMAIN j = {"pc", "config", "todo", "checks", "new", "log"}
  /\ j.pc \in {"fetch", "check", "walk", "count", "write"}
  /\ j.config \subseteq Names /\ j.todo \subseteq Names /\ j.checks \subseteq Names
  /\ j.new \in Int
  /\ j.pc \in {"walk", "count"} => j.todo # {}

Adders == [pc : {"truncate", "write"}, name : Names, config : SUBSET Names]

Row  == [name : Names, commits_checked : Int]
Rows == Seq(Row)

BooksTyped ==
  /\ server \in [Names -> Int]
  /\ done \in [Names -> Int] /\ again \in [Names -> Int] /\ uncounted \in [Names -> Int]
  /\ local \in [Names -> Int \cup {NONE}]
  /\ rows \in Rows

CommandsTyped ==
  /\ Read \subseteq Names
  /\ job = Idle \/ JobTyped(job)
  /\ adder = Idle \/ adder \in Adders
  /\ job.pc = "walk" => local[NextOf(job.todo)] \in Int

TotalsInv == BooksTyped /\ CommandsTyped /\ TotalsAddUp

LEMMA NextIsTodo == ASSUME NEW todo \in SUBSET Names, todo # {} PROVE NextOf(todo) \in todo
<1>1. \E n \in todo : \A m \in todo : n <= m
  BY NamesAssumption, LeastExists
<1> QED
  BY <1>1 DEF NextOf

LEMMA Working ==
  ASSUME TotalsInv, job.pc \in {"walk", "count"}
  PROVE  /\ JobTyped(job) /\ NextOf(job.todo) \in job.todo /\ NextOf(job.todo) \in Names
         /\ job.pc = "walk" => local[NextOf(job.todo)] \in Int
<1>1. JobTyped(job)
  BY DEF TotalsInv, CommandsTyped, Idle
<1> QED
  BY <1>1, NextIsTodo DEF JobTyped, TotalsInv, CommandsTyped

\* What the checks that were not lost have checked.
Owed(n) == done[n] + again[n] - uncounted[n]

(* While no count is pending, the totals stay right as long as the books   *)
(* owe the same.                                                           *)
LEMMA NotCounting ==
  ASSUME TotalsAddUp, UNCHANGED rows, \A n \in Names : Owed(n)' = Owed(n),
         job.pc # "count", job'.pc # "count"
  PROVE  TotalsAddUp'
<1>1. ASSUME NEW n \in Names
      PROVE  Due(n) = Owed(n) - 0
  <2>1. (IF job.pc = "count" /\ NextOf(job.todo) = n THEN job.new ELSE 0) = 0
    OBVIOUS
  <2> QED
    BY <2>1, Zenon DEF Due, Owed
<1>2. ASSUME NEW n \in Names
      PROVE  Due(n)' = Owed(n)' - 0
  <2>1. (IF job.pc = "count" /\ NextOf(job.todo) = n THEN job.new ELSE 0)' = 0
    OBVIOUS
  <2> QED
    BY <2>1, Zenon DEF Due, Owed
<1> QED
  BY <1>1, <1>2 DEF TotalsAddUp, OneRowEach

LEMMA TotalsInit == Init => TotalsInv
<1>1. SUFFICES ASSUME Init PROVE TotalsInv
  OBVIOUS
<1>2. job = Idle /\ Idle.pc = "idle" /\ rows = << >> /\ Read = {} /\ adder = Idle
  BY <1>1 DEF Init, Idle, Read
<1>3. BooksTyped
  BY <1>1, <1>2 DEF Init, BooksTyped, Rows
<1>4. \A n \in Names : Due(n) = 0
  BY <1>1, <1>2 DEF Init, Due
<1>5. TotalsAddUp
  BY <1>2, <1>4 DEF TotalsAddUp, OneRowEach
<1> QED
  BY <1>2, <1>3, <1>5 DEF TotalsInv, CommandsTyped

LEMMA StartTotals ==
  ASSUME NEW fetches \in SUBSET Names, NEW checks \in SUBSET Names, TotalsInv,
         StartJob(fetches, checks)
  PROVE  TotalsInv'
<1>1. job.pc = "idle" /\ job'.pc = "fetch" /\ JobTyped(job') /\ Read' = Read
  BY DEF StartJob, ReadConfig, Whole, Read, JobTyped, TotalsInv, CommandsTyped
<1>2. UNCHANGED <<server, done, again, uncounted, local, rows, adder>>
  BY DEF StartJob, world, repos, ghost
<1>3. TotalsAddUp'
  BY <1>1, <1>2, NotCounting DEF TotalsInv, Owed
<1> QED
  BY <1>1, <1>2, <1>3 DEF TotalsInv, BooksTyped, CommandsTyped

(* A walk adds to the checkpoint and to what is checked again as many      *)
(* commits as it goes over.                                                *)
LEMMA SavesIs ==
  ASSUME TotalsInv, NEW n \in Names, local[n] \in Int, SavesCheckpoint(n)
  PROVE  /\ done' \in [Names -> Int] /\ again' \in [Names -> Int] /\ Walked(n) \in Int
         /\ \A m \in Names :
              done'[m] + again'[m] = done[m] + again[m] + IF m = n THEN Walked(n) ELSE 0
<1>1. /\ done \in [Names -> Int] /\ again \in [Names -> Int]
      /\ done' = [done EXCEPT ![n] = local[n]]
      /\ again' = [again EXCEPT ![n] = @ + Rewalked(n)]
  BY DEF TotalsInv, BooksTyped, SavesCheckpoint
<1>2. /\ Walked(n) \in Int /\ Rewalked(n) \in Int
      /\ local[n] + Rewalked(n) = done[n] + Walked(n)
  BY <1>1 DEF Walked, Rewalked
<1> QED
  BY <1>1, <1>2

(* The commits that were walked are due until they are counted, and not    *)
(* due before they are saved.                                              *)
LEMMA SavesTotals == TotalsInv /\ CheckSaves => TotalsInv'
<1>1. SUFFICES ASSUME TotalsInv, CheckSaves PROVE TotalsInv'
  OBVIOUS
<1> DEFINE n == NextOf(job.todo)
<1>2. /\ job.pc = "walk" /\ SavesCheckpoint(n)
      /\ UNCHANGED <<server, file, local, uncounted, rows, adder>>
      /\ job' = IF Walked(n) = 0
                THEN [job EXCEPT !.pc = "check", !.todo = @ \ {n}, !.log = <<>>]
                ELSE [job EXCEPT !.pc = "count", !.new = Walked(n), !.log = <<>>]
  BY <1>1 DEF CheckSaves, world
<1>3. JobTyped(job) /\ n \in job.todo /\ n \in Names /\ local[n] \in Int
  BY <1>1, <1>2, Working
<1>4. /\ BooksTyped' /\ Walked(n) \in Int
      /\ \A m \in Names : Owed(m)' = Owed(m) + IF m = n THEN Walked(n) ELSE 0
  <2>1. /\ done' \in [Names -> Int] /\ again' \in [Names -> Int] /\ Walked(n) \in Int
        /\ \A m \in Names :
             done'[m] + again'[m] = done[m] + again[m] + IF m = n THEN Walked(n) ELSE 0
    BY <1>1, <1>2, <1>3, SavesIs
  <2>2. BooksTyped
    BY <1>1 DEF TotalsInv
  <2> HIDE DEF n
  <2>3. ASSUME NEW m \in Names
        PROVE  Owed(m)' = Owed(m) + IF m = n THEN Walked(n) ELSE 0
    <3>1. /\ done[m] \in Int /\ again[m] \in Int /\ uncounted[m] \in Int
          /\ done'[m] \in Int /\ again'[m] \in Int /\ uncounted'[m] = uncounted[m]
          /\ done'[m] + again'[m] = done[m] + again[m] + IF m = n THEN Walked(n) ELSE 0
      BY <1>2, <2>1, <2>2 DEF BooksTyped
    <3> DEFINE w == IF m = n THEN Walked(n) ELSE 0
    <3>2. w \in Int
      BY <2>1
    <3> HIDE DEF w
    <3>3. done'[m] + again'[m] - uncounted'[m] = done[m] + again[m] - uncounted[m] + w
      <4>1. done'[m] + again'[m] = done[m] + again[m] + w
        BY <3>1 DEF w
      <4> QED
        BY <3>1, <3>2, <4>1
    <3> QED
      BY <3>3 DEF Owed, w
  <2> QED
    BY <1>2, <2>1, <2>2, <2>3 DEF BooksTyped
<1>5. CASE Walked(n) = 0
  <2>1. job' = [job EXCEPT !.pc = "check", !.todo = @ \ {n}, !.log = <<>>]
    BY <1>2, <1>5
  <2>2. JobTyped(job') /\ job'.pc = "check"
    BY <1>3, <2>1 DEF JobTyped
  <2>3. \A m \in Names : Owed(m)' = Owed(m)
    BY <1>1, <1>4, <1>5 DEF Owed, TotalsInv, BooksTyped
  <2>4. TotalsAddUp'
    BY <1>1, <1>2, <2>2, <2>3, NotCounting DEF TotalsInv
  <2> QED
    BY <1>1, <1>2, <1>4, <2>2, <2>4 DEF TotalsInv, CommandsTyped, Read
<1>6. CASE Walked(n) # 0
  <2>1. job' = [job EXCEPT !.pc = "count", !.new = Walked(n), !.log = <<>>]
    BY <1>2, <1>6
  <2>2. /\ JobTyped(job') /\ job'.pc = "count" /\ job'.new = Walked(n)
        /\ job'.todo = job.todo
    BY <1>3, <1>4, <2>1 DEF JobTyped
  <2>3. ASSUME NEW m \in Names PROVE Due(m)' = Due(m)
    <3>1. /\ Owed(m) \in Int /\ Due(m) = Owed(m)
      BY <1>1, <1>2 DEF Due, Owed, TotalsInv, BooksTyped
    <3>2. Due(m)' = Owed(m)' - IF m = n THEN Walked(n) ELSE 0
      <4>1. NextOf(job.todo)' = n
        BY <2>2
      <4>2. (IF job.pc = "count" /\ NextOf(job.todo) = m THEN job.new ELSE 0)'
              = IF m = n THEN Walked(n) ELSE 0
        BY <2>2, <4>1
      <4> QED
        BY <4>2, Zenon DEF Due, Owed
    <3> HIDE DEF n
    <3> QED
      BY <1>4, <3>1, <3>2
  <2>4. TotalsAddUp'
    BY <1>1, <1>2, <2>3 DEF TotalsInv, TotalsAddUp, OneRowEach
  <2> QED
    BY <1>1, <1>2, <1>4, <2>2, <2>4 DEF TotalsInv, CommandsTyped, Read
<1> QED
  BY <1>5, <1>6

(* One row is changed or appended, by what was due for it.                 *)
LEMMA CountTotals == TotalsInv /\ Count => TotalsInv'
<1>1. SUFFICES ASSUME TotalsInv, Count PROVE TotalsInv'
  OBVIOUS
<1> DEFINE n == NextOf(job.todo)
           new == job.new
<1>2. /\ job.pc = "count"
      /\ UNCHANGED <<server, file, local, uncounted, done, again, adder>>
      /\ rows' = Upserted(n, new)
      /\ job' = [job EXCEPT !.pc = "check", !.todo = @ \ {n}, !.new = 0]
  BY <1>1 DEF Count, world, repos, ghost
<1>3. n \in Names /\ new \in Int /\ JobTyped(job') /\ job'.pc = "check"
  <2>1. JobTyped(job) /\ n \in Names
    BY <1>1, <1>2, Working
  <2> HIDE DEF n
  <2> QED
    BY <1>2, <2>1 DEF JobTyped
<1>4. ASSUME NEW m \in Names
      PROVE  /\ Due(m)' = Due(m) + IF m = n THEN new ELSE 0
             /\ Due(m) \in Int
  BY <1>1, <1>2, <1>3 DEF Due, TotalsInv, BooksTyped
<1> HIDE DEF n, new
<1>5. rows \in Rows /\ TotalsAddUp
  BY <1>1 DEF TotalsInv, BooksTyped
<1>6. rows' \in Rows /\ TotalsAddUp'
  <2>1. CASE \E k \in DOMAIN rows : rows[k].name = n
    <3>1. rows' = [k \in DOMAIN rows |->
             IF rows[k].name = n THEN [rows[k] EXCEPT !.commits_checked = @ + new]
             ELSE rows[k]]
      BY <1>2, <2>1 DEF Upserted
    <3>2. \A k \in DOMAIN rows : rows[k] \in Row
      BY <1>5 DEF Rows
    <3>3. /\ DOMAIN rows' = DOMAIN rows
          /\ \A k \in DOMAIN rows :
               /\ rows'[k].name = rows[k].name
               /\ rows'[k].commits_checked =
                    rows[k].commits_checked + IF rows[k].name = n THEN new ELSE 0
               /\ rows'[k] \in Row
      BY <1>3, <3>1, <3>2 DEF Row
    <3>4. rows' \in Rows
      <4>1. DOMAIN rows = 1 .. Len(rows) /\ Len(rows) \in Nat
        BY <1>5 DEF Rows
      <4>2. rows' \in [1 .. Len(rows) -> Row]
        BY <3>1, <3>3, <4>1
      <4> QED
        BY <4>1, <4>2 DEF Rows
    <3>5. OneRowEach'
      BY <1>5, <3>3 DEF TotalsAddUp, OneRowEach
    <3>6. ASSUME NEW m \in Names
          PROVE  \/ \E k \in DOMAIN rows' : rows'[k].name = m
                                          /\ rows'[k].commits_checked = Due(m)'
                 \/ (\A k \in DOMAIN rows' : rows'[k].name # m) /\ Due(m)' = 0
      <4>1. CASE \E k \in DOMAIN rows : rows[k].name = m
        <5>1. PICK k \in DOMAIN rows : rows[k].name = m
          BY <4>1
        <5>2. rows[k].commits_checked = Due(m)
          BY <1>5, <5>1 DEF TotalsAddUp, OneRowEach
        <5> QED
          BY <1>4, <3>3, <5>1, <5>2
      <4>2. CASE \A k \in DOMAIN rows : rows[k].name # m
        <5>1. m # n /\ Due(m) = 0
          BY <1>5, <2>1, <4>2 DEF TotalsAddUp
        <5> QED
          BY <1>4, <3>3, <4>2, <5>1
      <4> QED
        BY <4>1, <4>2
    <3> QED
      BY <3>4, <3>5, <3>6 DEF TotalsAddUp
  <2>2. CASE \A k \in DOMAIN rows : rows[k].name # n
    <3> DEFINE row == [name |-> n, commits_checked |-> new]
    <3>1. rows' = Append(rows, row)
      BY <1>2, <2>2 DEF Upserted
    <3>2. row \in Row /\ row.name = n /\ row.commits_checked = new
      BY <1>3 DEF Row
    <3> HIDE DEF row
    <3>3. /\ rows' \in Rows /\ DOMAIN rows' = DOMAIN rows \cup {Len(rows) + 1}
          /\ Len(rows) + 1 \notin DOMAIN rows
          /\ rows'[Len(rows) + 1] = row
          /\ \A k \in DOMAIN rows : rows'[k] = rows[k]
      BY <1>5, <3>1, <3>2 DEF Rows
    <3>4. OneRowEach'
      BY <1>5, <2>2, <3>2, <3>3 DEF TotalsAddUp, OneRowEach
    <3>5. Due(n) = 0
      BY <1>3, <1>5, <2>2 DEF TotalsAddUp
    <3>6. ASSUME NEW m \in Names
          PROVE  \/ \E k \in DOMAIN rows' : rows'[k].name = m
                                          /\ rows'[k].commits_checked = Due(m)'
                 \/ (\A k \in DOMAIN rows' : rows'[k].name # m) /\ Due(m)' = 0
      <4>1. CASE m = n
        BY <1>3, <1>4, <3>2, <3>3, <3>5, <4>1
      <4>2. CASE m # n
        <5>1. Due(m)' = Due(m)
          BY <1>4, <4>2
        <5>2. CASE \E k \in DOMAIN rows : rows[k].name = m
                                          /\ rows[k].commits_checked = Due(m)
          BY <3>3, <5>1, <5>2
        <5>3. CASE (\A k \in DOMAIN rows : rows[k].name # m) /\ Due(m) = 0
          BY <3>2, <3>3, <4>2, <5>1, <5>3
        <5> QED
          BY <1>5, <5>2, <5>3 DEF TotalsAddUp
      <4> QED
        BY <4>1, <4>2
    <3> QED
      BY <3>3, <3>4, <3>6 DEF TotalsAddUp
  <2> QED
    BY <2>1, <2>2
<1>7. BooksTyped'
  BY <1>1, <1>2, <1>6 DEF TotalsInv, BooksTyped
<1> QED
  BY <1>1, <1>2, <1>3, <1>6, <1>7 DEF TotalsInv, CommandsTyped, Read

(* Steps that leave the rows alone, owe the same and let the job go on      *)
(* with something else than a count, or end it.                             *)
LEMMA JobGoesOn ==
  ASSUME TotalsInv, UNCHANGED <<server, rows, adder>>, Read' \subseteq Names,
         job.pc # "count",
         \/ job' = Idle
         \/ JobTyped(job') /\ job'.pc # "count",
         job'.pc = "walk" => local'[NextOf(job'.todo)] \in Int,
         local' \in [Names -> Int \cup {NONE}],
         done' \in [Names -> Int], again' \in [Names -> Int], uncounted' \in [Names -> Int],
         \A n \in Names : Owed(n)' = Owed(n)
  PROVE  TotalsInv'
<1>1. job'.pc # "count"
  BY DEF Idle
<1>2. TotalsAddUp'
  BY <1>1, NotCounting DEF TotalsInv
<1>3. NextOf(job.todo)' = NextOf(job'.todo)
  OBVIOUS
<1>4. job.pc' = "walk" => local'[NextOf(job.todo)'] \in Int
  BY <1>3
<1> QED
  BY <1>1, <1>2, <1>4 DEF TotalsInv, BooksTyped, CommandsTyped

LEMMA LoadsTotals == TotalsInv /\ CheckLoads => TotalsInv'
<1>1. SUFFICES ASSUME TotalsInv, CheckLoads PROVE TotalsInv'
  OBVIOUS
<1> DEFINE n == NextOf(job.todo)
<1>2. /\ job.pc = "check" /\ job.todo # {}
      /\ UNCHANGED <<server, file, local, done, again, uncounted, rows, adder>>
  BY <1>1 DEF CheckLoads, world, ghost
<1>3. JobTyped(job)
  BY <1>1, <1>2 DEF TotalsInv, CommandsTyped, Idle
<1>4. n \in Names
  BY <1>2, <1>3, NextIsTodo DEF JobTyped
<1>5. \/ job' = Idle
      \/ local[n] # NONE /\ job' = [job EXCEPT !.pc = "walk", !.log = KeptLog(n)]
  BY <1>1 DEF CheckLoads
<1>6. job' # Idle => JobTyped(job') /\ job'.pc = "walk" /\ job'.todo = job.todo
  BY <1>2, <1>3, <1>5 DEF JobTyped
<1>7. job'.pc = "walk" => local'[NextOf(job'.todo)] \in Int
  <2>1. CASE job' = Idle
    BY <2>1 DEF Idle
  <2>2. CASE job' # Idle
    <3>1. local[n] \in Int
      BY <1>1, <1>4, <1>5, <2>2 DEF TotalsInv, BooksTyped
    <3> QED
      BY <1>2, <1>6, <2>2, <3>1
  <2> QED
    BY <2>1, <2>2
<1>8. Read' \subseteq Names /\ BooksTyped /\ job.pc # "count"
  BY <1>1, <1>2 DEF TotalsInv, CommandsTyped, Read
<1>9. \A m \in Names : Owed(m)' = Owed(m)
  BY <1>2 DEF Owed
<1>10. \/ job' = Idle
       \/ JobTyped(job') /\ job'.pc # "count"
  BY <1>6
<1> QED
  BY <1>1, <1>2, <1>7, <1>8, <1>9, <1>10, JobGoesOn DEF BooksTyped

LEMMA GrantTotals == ASSUME NEW a, NEW c, TotalsInv, Grant(a, c) PROVE TotalsInv'
<1>1. /\ job.pc = "walk" /\ \E log : job' = [job EXCEPT !.log = log]
      /\ UNCHANGED <<server, file, local, done, again, uncounted, rows, adder>>
  BY DEF Grant, world, repos, ghost
<1>2. JobTyped(job) /\ local[NextOf(job.todo)] \in Int
  BY <1>1, Working
<1>3. JobTyped(job') /\ job'.pc = "walk" /\ job'.todo = job.todo
  BY <1>1, <1>2 DEF JobTyped
<1>4. Read' \subseteq Names /\ BooksTyped
  BY <1>1 DEF TotalsInv, CommandsTyped, Read
<1>5. \A m \in Names : Owed(m)' = Owed(m)
  BY <1>1 DEF Owed
<1> QED
  BY <1>1, <1>2, <1>3, <1>4, <1>5, JobGoesOn DEF BooksTyped

(* What was checked and not counted is lost with the job.                  *)
LEMMA StopTotals == TotalsInv /\ JobStops => TotalsInv'
<1>1. SUFFICES ASSUME TotalsInv, JobStops PROVE TotalsInv'
  OBVIOUS
<1>2. /\ job' = Idle /\ Idle.pc = "idle"
      /\ UNCHANGED <<server, file, local, done, again, rows, adder>>
  BY <1>1 DEF JobStops, Idle, world, repos
<1>3. CASE job.pc = "count"
  <2>1. JobTyped(job) /\ NextOf(job.todo) \in Names /\ job.new \in Int
    BY <1>1, <1>3, Working DEF JobTyped
  <2>2. uncounted' = [uncounted EXCEPT ![NextOf(job.todo)] = @ + job.new]
    BY <1>1, <1>3 DEF JobStops
  <2>3. BooksTyped'
    BY <1>1, <1>2, <2>1, <2>2 DEF TotalsInv, BooksTyped
  <2>4. ASSUME NEW m \in Names PROVE Due(m)' = Due(m)
    <3>1. CASE m = NextOf(job.todo)
      BY <1>1, <1>2, <1>3, <2>1, <2>2, <3>1 DEF Due, TotalsInv, BooksTyped
    <3>2. CASE m # NextOf(job.todo)
      BY <1>1, <1>2, <1>3, <2>1, <2>2, <3>2 DEF Due, TotalsInv, BooksTyped
    <3> QED
      BY <3>1, <3>2
  <2>5. TotalsAddUp'
    BY <1>1, <1>2, <2>4 DEF TotalsInv, TotalsAddUp, OneRowEach
  <2> QED
    BY <1>1, <1>2, <2>3, <2>5 DEF TotalsInv, CommandsTyped, Read
<1>4. CASE job.pc # "count"
  <2>1. UNCHANGED uncounted
    BY <1>1, <1>4 DEF JobStops
  <2>2. \A m \in Names : Owed(m)' = Owed(m)
    BY <1>2, <2>1 DEF Owed
  <2>3. Read' \subseteq Names /\ BooksTyped
    BY <1>1, <1>2 DEF TotalsInv, CommandsTyped, Read
  <2> QED
    BY <1>1, <1>2, <1>4, <2>1, <2>2, <2>3, JobGoesOn DEF BooksTyped
<1> QED
  BY <1>3, <1>4

(* A check that dies may lose its checkpoint with what that stood for, or  *)
(* its count.                                                              *)
LEMMA CheckStopTotals == TotalsInv /\ CheckStops => TotalsInv'
<1>1. SUFFICES ASSUME TotalsInv, CheckStops PROVE TotalsInv'
  OBVIOUS
<1> DEFINE n == NextOf(job.todo)
<1>2. /\ job.pc = "walk" /\ job' = Idle /\ job'.pc = "idle"
      /\ UNCHANGED <<server, file, local, rows, adder>>
      /\ RetireStops(n) \/ CheckpointStops(n) \/ SaveStops(n)
  BY <1>1 DEF CheckStops, Idle, world
<1>3. n \in Names /\ local[n] \in Int
  BY <1>1, <1>2, Working
<1>4. BooksTyped /\ Read' \subseteq Names
  BY <1>1, <1>2 DEF TotalsInv, CommandsTyped, Read
<1> HIDE DEF n
<1>5. /\ done' \in [Names -> Int] /\ again' \in [Names -> Int]
      /\ uncounted' \in [Names -> Int]
      /\ \A m \in Names : Owed(m)' = Owed(m)
  <2>1. CASE RetireStops(n)
    BY <1>4, <2>1 DEF RetireStops, BooksTyped, Owed
  <2>2. CASE CheckpointStops(n)
    BY <1>3, <1>4, <2>2 DEF CheckpointStops, BooksTyped, Owed
  <2>3. CASE SaveStops(n)
    <3>1. /\ SavesCheckpoint(n)
          /\ uncounted' = [uncounted EXCEPT ![n] = @ + Walked(n)]
      BY <2>3 DEF SaveStops
    <3>2. /\ done' \in [Names -> Int] /\ again' \in [Names -> Int] /\ Walked(n) \in Int
          /\ \A m \in Names :
               done'[m] + again'[m] = done[m] + again[m] + IF m = n THEN Walked(n) ELSE 0
      BY <1>1, <1>3, <3>1, SavesIs
    <3>3. uncounted' \in [Names -> Int]
      BY <1>3, <1>4, <3>1, <3>2 DEF BooksTyped
    <3>4. ASSUME NEW m \in Names PROVE Owed(m)' = Owed(m)
      <4>1. /\ done[m] \in Int /\ again[m] \in Int /\ uncounted[m] \in Int
            /\ done'[m] \in Int /\ again'[m] \in Int
        BY <1>4, <3>2 DEF BooksTyped
      <4>2. CASE m = n
        <5>1. /\ uncounted'[m] = uncounted[m] + Walked(n)
              /\ done'[m] + again'[m] = done[m] + again[m] + Walked(n)
          BY <1>3, <1>4, <3>1, <3>2, <4>2 DEF BooksTyped
        <5> QED
          BY <3>2, <4>1, <5>1 DEF Owed
      <4>3. CASE m # n
        <5>1. /\ uncounted'[m] = uncounted[m]
              /\ done'[m] + again'[m] = done[m] + again[m]
          BY <1>3, <1>4, <3>1, <3>2, <4>1, <4>3 DEF BooksTyped
        <5> QED
          BY <4>1, <5>1 DEF Owed
      <4> QED
        BY <4>2, <4>3
    <3> QED
      BY <3>2, <3>3, <3>4
  <2> QED
    BY <1>2, <2>1, <2>2, <2>3
<1> QED
  BY <1>1, <1>2, <1>4, <1>5, JobGoesOn DEF BooksTyped

LEMMA JobStepTotals == TotalsInv /\ JobStep => TotalsInv'
<1>1. SUFFICES ASSUME TotalsInv, JobStep PROVE TotalsInv'
  OBVIOUS
<1>2. BooksTyped /\ Read \subseteq Names
  BY <1>1 DEF TotalsInv, CommandsTyped
<1>3. CASE Fetch
  <2>1. JobTyped(job) /\ job.pc = "fetch" /\ job.todo # {}
    BY <1>1, <1>3 DEF Fetch, TotalsInv, CommandsTyped, Idle
  <2>2. NextOf(job.todo) \in Names
    BY <2>1, NextIsTodo DEF JobTyped
  <2>3. local' \in [Names -> Int \cup {NONE}]
    BY <1>2, <1>3, <2>2 DEF Fetch, Pulled, BooksTyped
  <2>4. /\ \/ job' = Idle
           \/ JobTyped(job') /\ job'.pc # "count"
        /\ job'.pc # "walk"
    BY <1>3, <2>1 DEF Fetch, JobTyped, Idle
  <2>5. UNCHANGED <<file, server, done, again, uncounted, rows, adder>>
    BY <1>3 DEF Fetch, world, repos, ghost
  <2> QED
    BY <1>1, <1>2, <2>1, <2>3, <2>4, <2>5, JobGoesOn DEF BooksTyped, Owed, Read
<1>4. CASE Fetched
  <2>1. JobTyped(job) /\ job.pc = "fetch"
    BY <1>1, <1>4 DEF Fetched, TotalsInv, CommandsTyped, Idle
  <2>2. JobTyped(job') /\ job'.pc = "check"
    BY <1>4, <2>1 DEF Fetched, JobTyped
  <2>3. UNCHANGED <<file, server, local, done, again, uncounted, rows, adder>>
    BY <1>4 DEF Fetched, world, repos, ghost
  <2> QED
    BY <1>1, <1>2, <2>1, <2>2, <2>3, JobGoesOn DEF BooksTyped, Owed, Read
<1>5. CASE CheckLoads
  BY <1>1, <1>5, LoadsTotals
<1>6. CASE CheckSaves
  BY <1>1, <1>6, SavesTotals
<1>7. CASE Count
  BY <1>1, <1>7, CountTotals
<1>8. CASE Truncate
  <2>1. JobTyped(job) /\ job.pc = "check"
    BY <1>1, <1>8 DEF Truncate, TotalsInv, CommandsTyped, Idle
  <2>2. JobTyped(job') /\ job'.pc = "write" /\ Read' = {}
    BY <1>8, <2>1 DEF Truncate, JobTyped, Read, Torn
  <2>3. UNCHANGED <<server, local, done, again, uncounted, rows, adder>>
    BY <1>8 DEF Truncate, world, repos, ghost
  <2> QED
    BY <1>1, <1>2, <2>1, <2>2, <2>3, JobGoesOn DEF BooksTyped, Owed
<1>9. CASE Write
  <2>1. JobTyped(job) /\ job.pc = "write"
    BY <1>1, <1>9 DEF Write, TotalsInv, CommandsTyped, Idle
  <2>2. job' = Idle /\ job'.pc = "idle" /\ Read' \subseteq Names
    BY <1>9, <2>1 DEF Write, JobTyped, Read, Whole, Idle
  <2>3. UNCHANGED <<server, local, done, again, uncounted, rows, adder>>
    BY <1>9 DEF Write, world, repos, ghost
  <2> QED
    BY <1>1, <1>2, <2>1, <2>2, <2>3, JobGoesOn DEF BooksTyped, Owed
<1> QED
  BY <1>1, <1>3, <1>4, <1>5, <1>6, <1>7, <1>8, <1>9 DEF JobStep

(* The steps of the operator and of the remotes owe the same, and leave    *)
(* clones where they are or make them.                                     *)
LEMMA OthersTotals ==
  ASSUME TotalsInv, UNCHANGED <<rows, job>>,
         Read' \subseteq Names,
         adder' = Idle \/ adder' \in Adders,
         server' \in [Names -> Int], local' \in [Names -> Int \cup {NONE}],
         \A n \in Names : local[n] \in Int => local'[n] \in Int,
         done' \in [Names -> Int], again' \in [Names -> Int], UNCHANGED uncounted,
         \A n \in Names : Owed(n)' = Owed(n)
  PROVE  TotalsInv'
<1>1. BooksTyped /\ rows \in Rows /\ uncounted \in [Names -> Int]
  BY DEF TotalsInv, BooksTyped
<1>2. TotalsAddUp'
  <2>1. NextOf(job.todo)' = NextOf(job.todo)
    OBVIOUS
  <2>2. ASSUME NEW n \in Names PROVE Due(n)' = Due(n)
    <3>1. (IF job.pc = "count" /\ NextOf(job.todo) = n THEN job.new ELSE 0)'
            = IF job.pc = "count" /\ NextOf(job.todo) = n THEN job.new ELSE 0
      BY <2>1
    <3>2. Owed(n)' = Owed(n)
      OBVIOUS
    <3> QED
      BY <3>1, <3>2, Zenon DEF Due, Owed
  <2> QED
    BY <2>2 DEF TotalsInv, TotalsAddUp, OneRowEach
<1>3. job.pc = "walk" => NextOf(job.todo) \in Names /\ local[NextOf(job.todo)] \in Int
  BY Working
<1>4. (job.pc = "walk" => local[NextOf(job.todo)] \in Int)'
  BY <1>3
<1> QED
  BY <1>1, <1>2, <1>4 DEF TotalsInv, BooksTyped, CommandsTyped

LEMMA TotalsNext == TotalsInv /\ [Next]_vars => TotalsInv'
<1>1. SUFFICES ASSUME TotalsInv, [Next]_vars PROVE TotalsInv'
  OBVIOUS
<1> BooksTyped /\ Read \subseteq Names /\ (adder = Idle \/ adder \in Adders)
  BY <1>1 DEF TotalsInv, CommandsTyped
<1>2. CASE Start
  BY <1>1, <1>2, StartTotals DEF Start, CheckAll
<1>3. CASE JobStep
  BY <1>1, <1>3, JobStepTotals
<1>4. CASE JobStops
  BY <1>1, <1>4, StopTotals
<1>5. CASE InvalidationStops
  <2>1. /\ job' = Idle /\ job'.pc = "idle" /\ job.pc = "check"
        /\ UNCHANGED <<server, file, local, done, again, uncounted, rows, adder>>
    BY <1>5 DEF InvalidationStops, Idle, world, ghost
  <2> QED
    BY <1>1, <2>1, JobGoesOn DEF BooksTyped, Owed, Read
<1>6. CASE CheckStops
  BY <1>1, <1>6, CheckStopTotals
<1>7. ASSUME NEW n \in Names, Add(n) PROVE TotalsInv'
  <2>1. UNCHANGED <<done, again, uncounted, rows, job, server>> /\ Read' = Read
    BY <1>7 DEF Add, ReadConfig, Whole, Read, world, repos, ghost
  <2>2. adder' \in Adders
    BY <1>7 DEF Add, Adders, Inserted
  <2>3. local' = local \/ local' = [local EXCEPT ![n] = server[n]]
    BY <1>7 DEF Add
  <2>4. /\ local' \in [Names -> Int \cup {NONE}]
        /\ \A m \in Names : local[m] \in Int => local'[m] \in Int
    BY <2>3 DEF BooksTyped
  <2> QED
    BY <1>1, <2>1, <2>2, <2>4, OthersTotals DEF BooksTyped, Owed
<1>8. ASSUME NEW n \in Names, Push(n) PROVE TotalsInv'
  <2>1. UNCHANGED <<done, again, uncounted, rows, job, file, adder, local>>
    BY <1>8 DEF Push, repos, ghost
  <2>2. server' \in [Names -> Int]
    BY <1>8 DEF Push, BooksTyped
  <2> QED
    BY <1>1, <2>1, <2>2, OthersTotals DEF BooksTyped, Read, Owed
<1>9. ASSUME NEW n \in Names, Reset(n) PROVE TotalsInv'
  <2>1. /\ UNCHANGED <<uncounted, rows, job, file, adder, local, server>>
        /\ done' = [done EXCEPT ![n] = 0] /\ again' = [again EXCEPT ![n] = @ + done[n]]
    BY <1>9 DEF Reset, world
  <2>2. /\ done' \in [Names -> Int] /\ again' \in [Names -> Int]
        /\ \A m \in Names : Owed(m)' = Owed(m)
    BY <2>1 DEF BooksTyped, Owed
  <2> QED
    BY <1>1, <2>1, <2>2, OthersTotals DEF BooksTyped, Read
<1>10. CASE AddTruncates
  <2>1. UNCHANGED <<done, again, uncounted, rows, job, server, local>> /\ Read' = {}
    BY <1>10 DEF AddTruncates, Torn, Read, world, repos, ghost
  <2>2. adder' \in Adders
    BY <1>10 DEF AddTruncates, Adders, Idle
  <2> QED
    BY <1>1, <2>1, <2>2, OthersTotals DEF BooksTyped, Owed
<1>11. CASE AddWrites
  <2>1. UNCHANGED <<done, again, uncounted, rows, job, server, local>> /\ adder' = Idle
    BY <1>11 DEF AddWrites, world, repos
  <2>2. Read' \subseteq Names
    BY <1>11 DEF AddWrites, Whole, Read, Adders, Idle
  <2> QED
    BY <1>1, <2>1, <2>2, OthersTotals DEF BooksTyped, Owed
<1>12. CASE AddStops
  <2>1. UNCHANGED <<done, again, uncounted, rows, job, server, local, file>> /\ adder' = Idle
    BY <1>12 DEF AddStops, world, repos, ghost
  <2> QED
    BY <1>1, <2>1, OthersTotals DEF BooksTyped, Read, Owed
<1>13. CASE EditRules
  <2>1. UNCHANGED <<done, again, uncounted, rows, job, server, local, file, adder>>
    BY <1>13 DEF EditRules, repos, ghost
  <2> QED
    BY <1>1, <2>1, OthersTotals DEF BooksTyped, Read, Owed
<1>14. CASE UNCHANGED vars
  <2>1. UNCHANGED <<done, again, uncounted, rows, job, server, local, file, adder>>
    BY <1>14 DEF vars, world, repos, ghost
  <2> QED
    BY <1>1, <2>1, OthersTotals DEF BooksTyped, Read, Owed
<1>15. ASSUME NEW a, NEW c, Grant(a, c) PROVE TotalsInv'
  BY <1>1, <1>15, GrantTotals
<1> QED
  BY <1>1, <1>2, <1>3, <1>4, <1>5, <1>6, <1>7, <1>8, <1>9, <1>10, <1>11, <1>12, <1>13,
     <1>14, <1>15 DEF Next, AddStep, Fault

(* repositories.csv has one row for a repository, and its running total    *)
(* counts what its checkpoint stands for and once more what a backfill or  *)
(* a reset checks again, but not the checks that ended between their       *)
(* checkpoint and the count, however commands are interleaved and killed.  *)
THEOREM TotalsAddUpAlways == Spec => []TotalsAddUp
<1>1. TotalsInv => TotalsAddUp
  BY DEF TotalsInv
<1> QED
  BY <1>1, TotalsInit, TotalsNext, PTL DEF Spec

-----------------------------------------------------------------------------
(***************************************************************************)
(* The site adds up.  First sums: over the keys of a function on a finite  *)
(* set, of how many elements have a key.                                   *)
(***************************************************************************)
Summing(g) ==
  CHOOSE iter : iter = [s \in SUBSET DOMAIN g |->
      IF s = {} THEN 0 ELSE LET x == CHOOSE x \in s : TRUE IN g[x] + iter[s \ {x}]]

LEMMA SumIs == ASSUME NEW g PROVE SumFunction(g) = Summing(g)[DOMAIN g]
  BY DEF SumFunction, SumFunctionOnSet, FoldFunctionOnSet, MapThenFoldSet, Summing

\* The elements with a key in s.
Having(f, s) == {x \in DOMAIN f : f[x] \in s}

LEMMA HavingParts ==
  ASSUME NEW f, IsFiniteSet(DOMAIN f), NEW s, NEW x \in s
  PROVE  Cardinality(Having(f, s)) = Cardinality(Having(f, {x})) + Cardinality(Having(f, s \ {x}))
<1>1. /\ Having(f, s) = Having(f, {x}) \cup Having(f, s \ {x})
      /\ Having(f, {x}) \cap Having(f, s \ {x}) = {}
  BY DEF Having
<1>2. IsFiniteSet(Having(f, {x})) /\ IsFiniteSet(Having(f, s \ {x}))
  <2>1. Having(f, {x}) \in SUBSET DOMAIN f /\ Having(f, s \ {x}) \in SUBSET DOMAIN f
    BY DEF Having
  <2> QED
    BY <2>1, FS_Subset
<1> QED
  BY <1>1, <1>2, DisjointUnion

LEMMA SumOfParts ==
  ASSUME NEW f, IsFiniteSet(DOMAIN f), NEW T, IsFiniteSet(T), NEW g, DOMAIN g = T,
         \A k \in T : g[k] = Cardinality(Having(f, {k}))
  PROVE  SumFunction(g) = Cardinality(Having(f, T))
<1> DEFINE some(s) == CHOOSE x \in s : TRUE
           Sums(iter) == iter = [s \in SUBSET DOMAIN g |->
                           IF s = {} THEN 0 ELSE LET x == CHOOSE x \in s : TRUE
                                                 IN  g[x] + iter[s \ {x}]]
           h == [s \in SUBSET T |-> Cardinality(Having(f, s))]
           iter == Summing(g)
<1>1. h[{}] = 0
  BY FS_EmptySet DEF Having
<1>2. \A s \in SUBSET T : s # {} => /\ some(s) \in s /\ some(s) \in T
                                    /\ h[s] = g[some(s)] + h[s \ {some(s)}]
  <2> SUFFICES ASSUME NEW s \in SUBSET T, s # {}
               PROVE  /\ some(s) \in s /\ some(s) \in T
                      /\ h[s] = g[some(s)] + h[s \ {some(s)}]
    OBVIOUS
  <2>1. some(s) \in s /\ some(s) \in T
    OBVIOUS
  <2> HIDE DEF some
  <2> DEFINE x == some(s)
             rest == s \ {x}
  <2>2. rest \in SUBSET T /\ h[s] = Cardinality(Having(f, s))
        /\ h[rest] = Cardinality(Having(f, rest)) /\ g[x] = Cardinality(Having(f, {x}))
    BY <2>1
  <2>3. Cardinality(Having(f, s)) = Cardinality(Having(f, {x})) + Cardinality(Having(f, rest))
    BY <2>1, HavingParts
  <2> HIDE DEF h, x
  <2> QED
    BY <2>1, <2>2, <2>3 DEF x
<1>3. Sums(h)
  BY <1>1, <1>2
<1>4. Sums(iter)
  <2>1. iter = CHOOSE i : Sums(i)
    BY DEF Summing
  <2> HIDE DEF Sums, iter, h
  <2> QED
    BY <1>3, <2>1
<1> HIDE DEF h, iter
<1>5. /\ iter[{}] = 0
      /\ \A s \in SUBSET T : s # {} => iter[s] = g[some(s)] + iter[s \ {some(s)}]
  BY <1>4
<1> DEFINE Bad == {Cardinality(s) : s \in {t \in SUBSET T : iter[t] # h[t]}}
<1>6. \A s \in SUBSET T : IsFiniteSet(s) /\ Cardinality(s) \in Nat
  BY FS_Subset, FS_CardinalityType
<1>7. ASSUME NEW s \in SUBSET T, iter[s] # h[s] PROVE FALSE
  <2>1. Bad \in SUBSET Nat /\ Bad # {}
    BY <1>6, <1>7
  <2>2. PICK n \in Bad : \A m \in Bad : n <= m
    <3> HIDE DEF Bad
    <3> QED
      BY <2>1, LeastExists
  <2>3. PICK t \in SUBSET T : n = Cardinality(t) /\ iter[t] # h[t]
    BY <2>2
  <2>4. t # {}
    BY <1>1, <1>5, <2>3
  <2> DEFINE x == some(t)
  <2>5. x \in t /\ x \in T /\ h[t] = g[x] + h[t \ {x}] /\ iter[t] = g[x] + iter[t \ {x}]
    BY <1>2, <1>5, <2>4
  <2> HIDE DEF x
  <2>6. t \ {x} \in SUBSET T /\ Cardinality(t \ {x}) = n - 1
    BY <1>6, <2>3, <2>5, FS_RemoveElement
  <2>7. n \in Nat /\ n - 1 \notin Bad
    BY <2>1, <2>2
  <2>8. iter[t \ {x}] = h[t \ {x}]
    BY <2>6, <2>7
  <2> QED
    BY <2>3, <2>5, <2>8
<1>8. iter[T] = h[T] /\ h[T] = Cardinality(Having(f, T))
  BY <1>7 DEF h
<1> QED
  BY <1>8, SumIs DEF iter

-----------------------------------------------------------------------------
(* A set in a strict order, listed by how many come before.                *)
Orders(S, R) ==
  /\ \A x \in S : <<x, x>> \notin R
  /\ \A x, y, z \in S : <<x, y>> \in R /\ <<y, z>> \in R => <<x, z>> \in R
  /\ \A x, y \in S : x # y => <<x, y>> \in R \/ <<y, x>> \in R

Under(S, R, e) == {x \in S : <<x, e>> \in R}

LEMMA Ranks ==
  ASSUME NEW S, IsFiniteSet(S), NEW R, Orders(S, R)
  PROVE  /\ Cardinality(S) \in Nat
         /\ \A k \in 1 .. Cardinality(S) : \E e \in S : Cardinality(Under(S, R, e)) = k - 1
         /\ \A d, e \in S : Cardinality(Under(S, R, d)) = Cardinality(Under(S, R, e)) => d = e
         /\ \A e \in S : IsFiniteSet(Under(S, R, e))
                        /\ Cardinality(Under(S, R, e)) + 1 \in 1 .. Cardinality(S)
<1> DEFINE n == Cardinality(S)
           U(e) == Under(S, R, e)
           rank == [e \in S |-> Cardinality(U(e)) + 1]
<1>1. n \in Nat /\ \A e \in S : IsFiniteSet(U(e)) /\ Cardinality(U(e)) \in Nat /\ U(e) \in SUBSET S
  <2>1. \A e \in S : U(e) \in SUBSET S
    BY DEF Under
  <2> HIDE DEF U
  <2> QED
    BY <2>1, FS_Subset, FS_CardinalityType
<1>2. ASSUME NEW e \in S PROVE Cardinality(U(e)) + 1 \in 1 .. n
  <2>1. U(e) \in SUBSET S /\ U(e) # S
    BY DEF Under, Orders
  <2> HIDE DEF U
  <2>2. Cardinality(U(e)) <= n /\ Cardinality(U(e)) # n
    BY <2>1, FS_Subset
  <2> QED
    BY <1>1, <2>2
<1>3. ASSUME NEW d \in S, NEW e \in S, <<d, e>> \in R
      PROVE  Cardinality(U(d)) < Cardinality(U(e))
  <2>1. U(d) \in SUBSET U(e) /\ U(d) # U(e)
    BY <1>3 DEF Under, Orders
  <2> HIDE DEF U
  <2>2. Cardinality(U(d)) <= Cardinality(U(e)) /\ Cardinality(U(d)) # Cardinality(U(e))
    BY <1>1, <2>1, FS_Subset
  <2> QED
    BY <1>1, <2>2
<1>4. \A d, e \in S : Cardinality(U(d)) = Cardinality(U(e)) => d = e
  <2> SUFFICES ASSUME NEW d \in S, NEW e \in S, d # e, Cardinality(U(d)) = Cardinality(U(e))
               PROVE  FALSE
    OBVIOUS
  <2>1. <<d, e>> \in R \/ <<e, d>> \in R
    BY DEF Orders
  <2> HIDE DEF U
  <2> QED
    BY <1>1, <1>3, <2>1
<1> HIDE DEF U
<1>5. rank \in [S -> 1 .. n] /\ \A d, e \in S : rank[d] = rank[e] => d = e
  BY <1>1, <1>2, <1>4
<1>6. \A k \in 1 .. n : \E e \in S : rank[e] = k
  <2>1. rank \in Injection(S, 1 .. n)
    BY <1>5 DEF Injection, IsInjective
  <2>2. IsFiniteSet(1 .. n) /\ Cardinality(1 .. n) = n
    <3> HIDE DEF n
    <3> QED
      BY <1>1, FS_Interval
  <2> HIDE DEF rank
  <2>3. rank \in Surjection(S, 1 .. n)
    BY <2>1, <2>2, FS_Injection
  <2> QED
    BY <2>3 DEF Surjection
<1> QED
  BY <1>1, <1>2, <1>4, <1>5, <1>6 DEF U

LEMMA ListedOnce ==
  ASSUME NEW S, IsFiniteSet(S), NEW R, Orders(S, R), NEW l,
         \A k \in 1 .. Cardinality(S) : (\E e \in S : Cardinality(Under(S, R, e)) = k - 1) =>
            l[k] \in S /\ Cardinality(Under(S, R, l[k])) = k - 1
  PROVE  /\ Cardinality(S) \in Nat
         /\ \A k \in 1 .. Cardinality(S) : l[k] \in S
         /\ \A e \in S : \E k \in 1 .. Cardinality(S) : l[k] = e
         /\ \A j, k \in 1 .. Cardinality(S) : l[j] = l[k] => j = k
<1> DEFINE n == Cardinality(S)
           rank(e) == Cardinality(Under(S, R, e)) + 1
<1>1. /\ n \in Nat /\ \A k \in 1 .. n : l[k] \in S /\ Cardinality(Under(S, R, l[k])) = k - 1
      /\ \A e \in S : rank(e) \in 1 .. n /\ Cardinality(Under(S, R, e)) \in Nat
  BY Ranks, FS_CardinalityType
<1>2. \A e \in S : l[rank(e)] = e
  <2> SUFFICES ASSUME NEW e \in S PROVE l[rank(e)] = e
    OBVIOUS
  <2> DEFINE k == rank(e)
  <2>1. k \in 1 .. n /\ k - 1 = Cardinality(Under(S, R, e))
    BY <1>1
  <2> HIDE DEF k
  <2>2. l[k] \in S /\ Cardinality(Under(S, R, l[k])) = k - 1
    BY <1>1, <2>1
  <2>3. l[k] = e
    BY <2>1, <2>2, Ranks
  <2> QED
    BY <2>3 DEF k
<1>3. \A k \in 1 .. n : k \in Int /\ Cardinality(Under(S, R, l[k])) = k - 1
  BY <1>1
<1> HIDE DEF n
<1>4. \A j, k \in 1 .. n : l[j] = l[k] => j = k
  BY <1>3
<1> QED
  BY <1>1, <1>2, <1>4 DEF n

-----------------------------------------------------------------------------
(* What the site takes for active is what the log does.                    *)
TakesBack(log, j, k) == log[k].ach = log[j].ach /\ log[k].user = log[j].user

\* The grants among the first i events that none of these takes back.
ActiveIn(log, i) ==
  {k \in 1 .. i : log[k].event = "grant"
                  /\ \A j \in (k + 1) .. i : log[j].event = "revoke" => ~TakesBack(log, j, k)}

LEMMA StillActiveIs ==
  ASSUME NEW log, NEW n \in Nat, Len(log) = n,
         \A i \in 1 .. n : log[i].event \in {"grant", "revoke"}
  PROVE  StillActive(log) = ActiveIn(log, n)
<1> DEFINE Loop(g) == g = [i \in 0 .. Len(log) |->
                        IF i = 0 THEN {}
                        ELSE IF log[i].event = "grant" THEN g[i - 1] \cup {i}
                        ELSE {k \in g[i - 1] : ~(log[k].ach = log[i].ach /\ log[k].user = log[i].user)}]
           h == [i \in 0 .. n |-> ActiveIn(log, i)]
           after == CHOOSE g : Loop(g)
<1>1. ActiveIn(log, 0) = {}
  BY DEF ActiveIn
<1>2. ASSUME NEW i \in 1 .. n
      PROVE  ActiveIn(log, i) =
               IF log[i].event = "grant" THEN ActiveIn(log, i - 1) \cup {i}
               ELSE {k \in ActiveIn(log, i - 1) : ~TakesBack(log, i, k)}
  <2>1. \A k \in 1 .. i - 1 : (k + 1) .. i = ((k + 1) .. i - 1) \cup {i}
    OBVIOUS
  <2>2. 1 .. i = (1 .. i - 1) \cup {i} /\ (i + 1) .. i = {} /\ i \notin 1 .. i - 1
    OBVIOUS
  <2>3. CASE log[i].event = "grant"
    <3>1. log[i].event # "revoke"
      BY <2>3
    <3>2. \A k \in 1 .. i - 1 : k \in ActiveIn(log, i) <=> k \in ActiveIn(log, i - 1)
      BY <2>1, <2>2, <3>1 DEF ActiveIn
    <3>3. i \in ActiveIn(log, i)
      BY <2>2, <2>3 DEF ActiveIn
    <3>4. ActiveIn(log, i) \in SUBSET (1 .. i) /\ ActiveIn(log, i - 1) \in SUBSET (1 .. i - 1)
      BY DEF ActiveIn
    <3> QED
      BY <2>2, <2>3, <3>2, <3>3, <3>4
  <2>4. CASE log[i].event # "grant"
    <3>1. log[i].event = "revoke"
      BY <2>4
    <3>2. \A k \in 1 .. i - 1 :
            k \in ActiveIn(log, i) <=> k \in ActiveIn(log, i - 1) /\ ~TakesBack(log, i, k)
      BY <2>1, <2>2, <3>1 DEF ActiveIn
    <3>3. i \notin ActiveIn(log, i)
      BY <2>4 DEF ActiveIn
    <3>4. ActiveIn(log, i) \in SUBSET (1 .. i) /\ ActiveIn(log, i - 1) \in SUBSET (1 .. i - 1)
      BY DEF ActiveIn
    <3> QED
      BY <2>2, <2>4, <3>2, <3>3, <3>4
  <2> QED
    BY <2>3, <2>4
<1>3. \A i \in 0 .. n : i # 0 => i \in 1 .. n /\ i - 1 \in 0 .. n
  OBVIOUS
<1>4. Loop(h)
  <2> DEFINE Taken(g, i) == IF i = 0 THEN {}
                           ELSE IF log[i].event = "grant" THEN g[i - 1] \cup {i}
                           ELSE {k \in g[i - 1] : ~TakesBack(log, i, k)}
  <2>1. \A i \in 0 .. n : h[i] = ActiveIn(log, i)
    OBVIOUS
  <2>2. h = [i \in 0 .. n |-> h[i]]
    OBVIOUS
  <2> HIDE DEF h
  <2>3. ASSUME NEW i \in 0 .. n PROVE h[i] = Taken(h, i)
    <3>1. CASE i = 0
      BY <1>1, <2>1, <3>1
    <3>2. CASE i # 0
      <4>1. i \in 1 .. n /\ i - 1 \in 0 .. n
        BY <1>3, <3>2
      <4>2. h[i] = ActiveIn(log, i) /\ h[i - 1] = ActiveIn(log, i - 1)
        BY <2>1, <4>1
      <4> QED
        BY <1>2, <3>2, <4>1, <4>2
    <3> QED
      BY <3>1, <3>2
  <2>4. h = [i \in 0 .. Len(log) |-> Taken(h, i)]
    <3> HIDE DEF Taken
    <3> QED
      BY <2>2, <2>3
  <2> QED
    BY <2>4 DEF TakesBack
<1>5. Loop(after)
  <2> HIDE DEF Loop, h
  <2> QED
    BY <1>4
<1>6. StillActive(log) = after[n]
  BY DEF StillActive
<1> HIDE DEF after
<1>7. \A i \in 0 .. n : after[i] =
        IF i = 0 THEN {}
        ELSE IF log[i].event = "grant" THEN after[i - 1] \cup {i}
        ELSE {k \in after[i - 1] : ~TakesBack(log, i, k)}
  BY <1>5 DEF TakesBack
<1> DEFINE Bad == {i \in 0 .. n : after[i] # ActiveIn(log, i)}
<1>8. ASSUME Bad # {} PROVE FALSE
  <2>1. PICK i \in Bad : \A j \in Bad : i <= j
    <3>1. Bad \in SUBSET Nat
      OBVIOUS
    <3> HIDE DEF Bad
    <3> QED
      BY <1>8, <3>1, LeastExists
  <2>2. i \in 1 .. n /\ i - 1 \in 0 .. n /\ i # 0
    <3>1. i # 0
      BY <1>1, <1>7, <2>1
    <3> QED
      BY <1>3, <3>1
  <2>3. after[i - 1] = ActiveIn(log, i - 1)
    <3>1. i - 1 \notin Bad
      BY <2>1, <2>2
    <3> QED
      BY <2>2, <3>1
  <2>4. after[i] = IF log[i].event = "grant" THEN after[i - 1] \cup {i}
                   ELSE {k \in after[i - 1] : ~TakesBack(log, i, k)}
    BY <1>7, <2>2
  <2> QED
    BY <1>2, <2>1, <2>2, <2>3, <2>4
<1> QED
  BY <1>6, <1>8

LEMMA LogAgrees ==
  ASSUME NEW log, NEW n \in Nat, Len(log) = n, DOMAIN log = 1 .. n,
         \A i \in 1 .. n : log[i].event \in {"grant", "revoke"}
  PROVE  StillActive(log) = Log!ActiveGrants(log)
<1>1. \A i, j \in 1 .. n : j > i <=> j \in (i + 1) .. n
  OBVIOUS
<1>2. \A i \in 1 .. n : i \in ActiveIn(log, n) <=> i \in Log!ActiveGrants(log)
  BY <1>1 DEF ActiveIn, Log!ActiveGrants, Log!NotRevokedAfter, Log!IsRevoke, TakesBack
<1>3. ActiveIn(log, n) \in SUBSET (1 .. n) /\ Log!ActiveGrants(log) \in SUBSET (1 .. n)
  BY DEF ActiveIn, Log!ActiveGrants
<1> QED
  BY <1>2, <1>3, StillActiveIs

-----------------------------------------------------------------------------
(* Logs as checks write them: of known authors, for known achievements.    *)
Achs == Catalog \cup {Farmer}

EntryOf(n) == [event : {"grant", "revoke"}, ach : Achs, user : Authors,
               commit : 1 .. MaxCommits[n], time : Nat, name : DOMAIN Slugify]

Logs == {ls \in [Names -> UNION {Seq(EntryOf(n)) : n \in Names}] :
           \A n \in Names : ls[n] \in Seq(EntryOf(n))}

LEMMA EntriesAre ==
  ASSUME NEW ls \in Logs
  PROVE  /\ DOMAIN ls = Names
         /\ \A n \in Names : /\ Len(ls[n]) \in Nat /\ DOMAIN ls[n] = 1 .. Len(ls[n])
                             /\ \A i \in DOMAIN ls[n] : ls[n][i] \in EntryOf(n)
<1>1. DOMAIN ls = Names /\ \A n \in Names : ls[n] \in Seq(EntryOf(n))
  BY DEF Logs
<1>2. ASSUME NEW n \in Names
      PROVE  /\ Len(ls[n]) \in Nat /\ DOMAIN ls[n] = 1 .. Len(ls[n])
             /\ \A i \in DOMAIN ls[n] : ls[n][i] \in EntryOf(n)
  <2>1. Len(ls[n]) \in Nat /\ DOMAIN ls[n] = 1 .. Len(ls[n])
    BY <1>1, LenProperties
  <2> QED
    BY <1>1, <2>1, ElementOfSeq
<1> QED
  BY <1>1, <1>2

LEMMA EventsAre ==
  ASSUME NEW ls \in Logs
  PROVE  /\ IsFiniteSet(AllEvents(ls))
         /\ \A e : e \in AllEvents(ls) <=>
              /\ e = <<e[1], e[2]>> /\ e[1] \in Names /\ e[2] \in DOMAIN ls[e[1]]
         /\ \A e \in AllEvents(ls) : At(ls, e) \in EntryOf(e[1])
<1>1. /\ DOMAIN ls = Names
      /\ \A n \in Names : /\ Len(ls[n]) \in Nat /\ DOMAIN ls[n] = 1 .. Len(ls[n])
                          /\ \A i \in DOMAIN ls[n] : ls[n][i] \in EntryOf(n)
  BY EntriesAre
<1> DEFINE of == [n \in Names |-> {n} \X DOMAIN ls[n]]
           all == {{n} \X DOMAIN ls[n] : n \in Names}
<1>2. AllEvents(ls) = UNION all
  BY <1>1 DEF AllEvents
<1>3. IsFiniteSet(all)
  <2>1. of \in Surjection(Names, all)
    BY DEF Surjection
  <2> HIDE DEF of, all
  <2> QED
    BY <2>1, NamesAssumption, FS_Surjection
<1>4. \A T \in all : IsFiniteSet(T)
  <2> SUFFICES ASSUME NEW n \in Names PROVE IsFiniteSet({n} \X DOMAIN ls[n])
    OBVIOUS
  <2>1. IsFiniteSet({n})
    BY FS_Singleton
  <2>2. IsFiniteSet(DOMAIN ls[n])
    <3> DEFINE k == Len(ls[n])
    <3>1. k \in Nat /\ DOMAIN ls[n] = 1 .. k
      BY <1>1
    <3> HIDE DEF k
    <3>2. IsFiniteSet(1 .. k)
      BY <3>1, FS_Interval
    <3> QED
      BY <3>1, <3>2
  <2> QED
    BY <2>1, <2>2, FS_Product
<1>5. IsFiniteSet(AllEvents(ls))
  <2> HIDE DEF all
  <2> QED
    BY <1>2, <1>3, <1>4, FS_UNION
<1>6. \A e : e \in AllEvents(ls) <=>
        /\ e = <<e[1], e[2]>> /\ e[1] \in Names /\ e[2] \in DOMAIN ls[e[1]]
  BY <1>2
<1> QED
  BY <1>1, <1>5, <1>6 DEF At

LEMMA ActiveAre ==
  ASSUME NEW ls \in Logs
  PROVE  /\ ActiveGrants(ls) \in SUBSET AllEvents(ls) /\ IsFiniteSet(ActiveGrants(ls))
         /\ \A n \in Names : \A i : <<n, i>> \in ActiveGrants(ls) <=> i \in Log!ActiveGrants(ls[n])
<1>1. /\ DOMAIN ls = Names
      /\ \A n \in Names : /\ Len(ls[n]) \in Nat /\ DOMAIN ls[n] = 1 .. Len(ls[n])
                          /\ \A i \in DOMAIN ls[n] : ls[n][i] \in EntryOf(n)
  BY EntriesAre
<1>2. ASSUME NEW n \in Names PROVE StillActive(ls[n]) = Log!ActiveGrants(ls[n])
  <2> DEFINE l == ls[n]
             k == Len(l)
  <2>1. k \in Nat /\ DOMAIN l = 1 .. k /\ \A i \in 1 .. k : l[i].event \in {"grant", "revoke"}
    BY <1>1 DEF EntryOf
  <2> HIDE DEF l
  <2> QED
    BY <2>1, LogAgrees DEF l
<1>3. ActiveGrants(ls) = UNION {{n} \X Log!ActiveGrants(ls[n]) : n \in Names}
  BY <1>1, <1>2 DEF ActiveGrants
<1>4. \A n \in Names : \A i : <<n, i>> \in ActiveGrants(ls) <=> i \in Log!ActiveGrants(ls[n])
  BY <1>3
<1>5. ActiveGrants(ls) \in SUBSET AllEvents(ls)
  <2>1. \A n \in Names : Log!ActiveGrants(ls[n]) \in SUBSET DOMAIN ls[n]
    BY DEF Log!ActiveGrants
  <2> QED
    BY <1>1, <1>3, <2>1 DEF AllEvents
<1>6. IsFiniteSet(ActiveGrants(ls))
  BY <1>5, EventsAre, FS_Subset
<1> QED
  BY <1>4, <1>5, <1>6

-----------------------------------------------------------------------------
(* The users of the site.                                                  *)
Emails(ls) == {At(ls, e).user : e \in AllEvents(ls)}

SeenBefore(ls) ==
  {p \in Emails(ls) \X Emails(ls) :
     \/ FirstSeen(ls, p[1]) < FirstSeen(ls, p[2])
     \/ FirstSeen(ls, p[1]) = FirstSeen(ls, p[2]) /\ p[1] < p[2]}

LEMMA EmailsAre == ASSUME NEW ls \in Logs PROVE IsFiniteSet(Emails(ls)) /\ Emails(ls) \in SUBSET Nat
<1> DEFINE userOf == [e \in AllEvents(ls) |-> At(ls, e).user]
<1>1. userOf \in Surjection(AllEvents(ls), Emails(ls))
  BY DEF Surjection, Emails
<1> HIDE DEF userOf
<1>2. IsFiniteSet(Emails(ls))
  BY <1>1, EventsAre, FS_Surjection
<1>3. \A e \in AllEvents(ls) : At(ls, e).user \in Nat
  <2> SUFFICES ASSUME NEW e \in AllEvents(ls) PROVE At(ls, e).user \in Nat
    OBVIOUS
  <2>1. e[1] \in Names /\ At(ls, e) \in EntryOf(e[1])
    BY EventsAre
  <2>2. At(ls, e).user \in Authors
    BY <2>1 DEF EntryOf
  <2> QED
    BY <2>2, AuthorsAssumption
<1> QED
  BY <1>2, <1>3 DEF Emails

LEMMA FirstSeenIs == ASSUME NEW ls \in Logs, NEW u \in Emails(ls) PROVE FirstSeen(ls, u) \in Nat
<1> DEFINE times == {At(ls, e).time : e \in EventsOf(ls, u)}
<1>1. times \in SUBSET Nat /\ times # {}
  <2>1. \A e \in EventsOf(ls, u) : e \in AllEvents(ls) /\ At(ls, e) \in EntryOf(e[1])
    BY EventsAre DEF EventsOf
  <2>2. \A e \in EventsOf(ls, u) : At(ls, e).time \in Nat
    BY <2>1 DEF EntryOf
  <2>3. EventsOf(ls, u) # {}
    BY DEF Emails, EventsOf
  <2> QED
    BY <2>2, <2>3
<1> HIDE DEF times
<1>2. \E x \in times : \A y \in times : x <= y
  BY <1>1, LeastExists
<1>3. FirstOf(times) \in Nat
  BY <1>1, <1>2 DEF FirstOf
<1> QED
  BY <1>3 DEF FirstSeen, times

LEMMA SeenInOrder == ASSUME NEW ls \in Logs PROVE Orders(Emails(ls), SeenBefore(ls))
<1> DEFINE S == Emails(ls)
           t(u) == FirstSeen(ls, u)
           R == SeenBefore(ls)
<1>1. \A u \in S : u \in Nat /\ t(u) \in Nat
  BY EmailsAre, FirstSeenIs
<1>2. \A u, v \in S : <<u, v>> \in R <=> t(u) < t(v) \/ (t(u) = t(v) /\ u < v)
  BY DEF SeenBefore
<1> HIDE DEF S, t, R
<1>3. \A u \in S : <<u, u>> \notin R
  BY <1>1, <1>2
<1>4. \A u, v \in S : u # v => <<u, v>> \in R \/ <<v, u>> \in R
  BY <1>1, <1>2
<1>5. \A u, v, w \in S : <<u, v>> \in R /\ <<v, w>> \in R => <<u, w>> \in R
  BY <1>1, <1>2
<1> QED
  BY <1>3, <1>4, <1>5 DEF Orders, S, R

\* The events of a user, the latest first, those of one time as the files have them.
LaterFirst(ls, E) ==
  {p \in E \X E : \/ At(ls, p[1]).time > At(ls, p[2]).time
                  \/ At(ls, p[1]).time = At(ls, p[2]).time /\ Before(p[1], p[2])}

LEMMA LatestNameIs ==
  ASSUME NEW ls \in Logs, NEW u \in Emails(ls)
  PROVE  LatestName(ls, u) \in DOMAIN Slugify
<1> DEFINE E == EventsOf(ls, u)
           R == LaterFirst(ls, E)
           t(e) == At(ls, e).time
           latest == {e \in E : \A f \in E : t(f) <= t(e)}
           First(e) == \A f \in latest \ {e} : Before(e, f)
<1>1. /\ E \in SUBSET AllEvents(ls) /\ E # {}
      /\ \A e \in E : /\ e[1] \in Nat /\ e[2] \in Nat /\ e = <<e[1], e[2]>>
                      /\ t(e) \in Nat /\ At(ls, e).name \in DOMAIN Slugify
  <2>1. E \in SUBSET AllEvents(ls) /\ E # {}
    BY DEF EventsOf, Emails
  <2>2. ASSUME NEW e \in E
        PROVE  /\ e[1] \in Nat /\ e[2] \in Nat /\ e = <<e[1], e[2]>>
               /\ t(e) \in Nat /\ At(ls, e).name \in DOMAIN Slugify
    <3>1. e = <<e[1], e[2]>> /\ e[1] \in Names /\ e[2] \in DOMAIN ls[e[1]]
          /\ At(ls, e) \in EntryOf(e[1])
      BY <2>1, EventsAre
    <3>2. e[2] \in Nat
      BY <3>1, EntriesAre
    <3> QED
      BY <3>1, <3>2, NamesAssumption DEF EntryOf
  <2> HIDE DEF E
  <2> QED
    BY <2>1, <2>2
<1>2. IsFiniteSet(E)
  BY <1>1, EventsAre, FS_Subset
<1>3. \A e, f \in E : <<e, f>> \in R <=> t(e) > t(f) \/ (t(e) = t(f) /\ Before(e, f))
  BY DEF LaterFirst
<1> HIDE DEF E, R, t
<1>4. Orders(E, R)
  <2>1. \A e \in E : <<e, e>> \notin R
    BY <1>1, <1>3 DEF Before
  <2>2. \A e, f \in E : e # f => <<e, f>> \in R \/ <<f, e>> \in R
    <3>1. \A e, f \in E : e # f => e[1] # f[1] \/ e[2] # f[2]
      BY <1>1
    <3> QED
      BY <1>1, <1>3, <3>1 DEF Before
  <2>3. \A e, f, g \in E : <<e, f>> \in R /\ <<f, g>> \in R => <<e, g>> \in R
    BY <1>1, <1>3 DEF Before
  <2> QED
    BY <2>1, <2>2, <2>3 DEF Orders
<1>5. PICK e \in E : Under(E, R, e) = {}
  <2>1. Cardinality(E) \in Nat /\ Cardinality(E) # 0
    BY <1>1, <1>2, FS_CardinalityType, FS_EmptySet
  <2>2. 1 \in 1 .. Cardinality(E)
    BY <2>1
  <2>3. PICK e \in E : Cardinality(Under(E, R, e)) = 1 - 1
    BY <1>2, <1>4, <2>2, Ranks
  <2>4. IsFiniteSet(Under(E, R, e))
    BY <1>2, <1>4, Ranks
  <2> QED
    BY <2>3, <2>4, FS_EmptySet
<1>6. \A f \in E : f # e => <<e, f>> \in R
  BY <1>4, <1>5 DEF Orders, Under
<1>7. e \in latest /\ First(e)
  <2>1. \A f \in E : t(f) <= t(e)
    <3> SUFFICES ASSUME NEW f \in E PROVE t(f) <= t(e)
      OBVIOUS
    <3>1. f = e \/ t(e) > t(f) \/ t(e) = t(f)
      BY <1>3, <1>6
    <3>2. t(e) \in Nat /\ t(f) \in Nat
      BY <1>1
    <3> QED
      BY <3>1, <3>2
  <2>2. \A f \in latest : f # e => Before(e, f)
    <3> SUFFICES ASSUME NEW f \in latest, f # e PROVE Before(e, f)
      OBVIOUS
    <3>1. f \in E /\ t(e) <= t(f) /\ t(e) \in Nat /\ t(f) \in Nat
      BY <1>1
    <3>2. t(e) > t(f) \/ (t(e) = t(f) /\ Before(e, f))
      BY <1>3, <1>6, <3>1
    <3> QED
      BY <3>1, <3>2
  <2> QED
    BY <2>1, <2>2
<1> DEFINE chosen == CHOOSE d \in latest : First(d)
<1>8. chosen \in latest
  <2> HIDE DEF latest, First
  <2> QED
    BY <1>7
<1>9. LatestName(ls, u) = At(ls, chosen).name
  BY DEF LatestName, E, t
<1> QED
  BY <1>1, <1>8, <1>9

\* The slug of a user before it is numbered, and its number.
BaseOf(ls, us, k)  == Slugify[LatestName(ls, us[k].email)]
CountOf(ls, us, k) == Cardinality({j \in 1 .. k : BaseOf(ls, us, j) = BaseOf(ls, us, k)})

Users(ls) == Cardinality(Emails(ls))

LEMMA UsersAre ==
  ASSUME NEW ls \in Logs
  PROVE  LET us == DeriveUsers(ls)
             n  == Users(ls)
         IN  /\ n \in Nat /\ DOMAIN us = 1 .. n /\ Len(us) = n
             /\ \A k \in 1 .. n : us[k].email \in Emails(ls)
             /\ \A u \in Emails(ls) : \E k \in 1 .. n : us[k].email = u
             /\ \A j, k \in 1 .. n : us[j].email = us[k].email => j = k
             /\ \A k \in 1 .. n : us[k].slug = IF CountOf(ls, us, k) = 1 THEN BaseOf(ls, us, k)
                                               ELSE Append(BaseOf(ls, us, k), CountOf(ls, us, k))
<1> DEFINE S == Emails(ls)
           R == SeenBefore(ls)
           n == Users(ls)
           us == DeriveUsers(ls)
           Less(u, v) == \/ FirstSeen(ls, u) < FirstSeen(ls, v)
                         \/ FirstSeen(ls, u) = FirstSeen(ls, v) /\ u < v
           emails == [k \in 1 .. Cardinality(S) |->
                        CHOOSE e \in S : Cardinality({f \in S : Less(f, e)}) = k - 1]
           base(i)  == Slugify[LatestName(ls, emails[i])]
           count(i) == Cardinality({j \in 1 .. i : base(j) = base(i)})
<1>1. us = [i \in DOMAIN emails |->
              [email |-> emails[i], name |-> LatestName(ls, emails[i]),
               slug  |-> IF count(i) = 1 THEN base(i) ELSE Append(base(i), count(i))]]
  BY DEF DeriveUsers, Sorted, Emails
<1>2. \A e \in S : {f \in S : Less(f, e)} = Under(S, R, e)
  BY DEF Under, SeenBefore
<1>3. DOMAIN emails = 1 .. n
  BY DEF Users
<1>4. \A k \in 1 .. n : (\E e \in S : Cardinality(Under(S, R, e)) = k - 1) =>
        emails[k] \in S /\ Cardinality(Under(S, R, emails[k])) = k - 1
  <2> SUFFICES ASSUME NEW k \in 1 .. n, NEW e \in S, Cardinality(Under(S, R, e)) = k - 1
               PROVE  emails[k] \in S /\ Cardinality(Under(S, R, emails[k])) = k - 1
    OBVIOUS
  <2> DEFINE Kth(d) == Cardinality({f \in S : Less(f, d)}) = k - 1
  <2>1. Kth(e)
    BY <1>2
  <2>2. emails[k] = CHOOSE d \in S : Kth(d)
    BY DEF Users
  <2> HIDE DEF Kth, emails
  <2>3. emails[k] \in S /\ Kth(emails[k])
    BY <2>1, <2>2
  <2> QED
    BY <1>2, <2>3 DEF Kth
<1> HIDE DEF emails, S, R
<1>5. /\ n \in Nat
      /\ \A k \in 1 .. n : emails[k] \in S
      /\ \A e \in S : \E k \in 1 .. n : emails[k] = e
      /\ \A j, k \in 1 .. n : emails[j] = emails[k] => j = k
  <2>1. n = Cardinality(S) /\ IsFiniteSet(S) /\ Orders(S, R)
    BY EmailsAre, SeenInOrder DEF Users, S, R
  <2> HIDE DEF n
  <2> QED
    BY <1>4, <2>1, ListedOnce
<1>6. \A k \in 1 .. n : us[k].email = emails[k]
                        /\ us[k].slug = IF count(k) = 1 THEN base(k) ELSE Append(base(k), count(k))
  <2> HIDE DEF base, count
  <2> QED
    BY <1>1, <1>3
<1>7. DOMAIN us = 1 .. n
  BY <1>1, <1>3
<1>8. \A k \in 1 .. n : BaseOf(ls, us, k) = base(k) /\ CountOf(ls, us, k) = count(k)
  <2>1. \A k \in 1 .. n : BaseOf(ls, us, k) = base(k)
    BY <1>6 DEF BaseOf
  <2>2. \A k \in 1 .. n : \A j \in 1 .. k : j \in 1 .. n
    BY <1>5
  <2>3. ASSUME NEW k \in 1 .. n PROVE CountOf(ls, us, k) = count(k)
    <3>1. {j \in 1 .. k : BaseOf(ls, us, j) = BaseOf(ls, us, k)} = {j \in 1 .. k : base(j) = base(k)}
      <4> HIDE DEF base, us
      <4> QED
        BY <2>1, <2>2
    <3> QED
      BY <3>1 DEF CountOf
  <2> QED
    BY <2>1, <2>3
<1>9. Len(us) = n
  <2> DEFINE X == {us[k] : k \in 1 .. n}
  <2> HIDE DEF us, n
  <2>1. us \in [1 .. n -> X]
    <3>1. us = [k \in 1 .. n |-> us[k]]
      BY <1>1, <1>3
    <3> QED
      BY <3>1
  <2> HIDE DEF X
  <2>2. us \in Seq(X)
    BY <1>5, <2>1, SeqDef
  <2> QED
    BY <1>5, <1>7, <2>2, LenProperties
<1> HIDE DEF us, n, base, count
<1>10. \A k \in 1 .. n : us[k].slug = IF CountOf(ls, us, k) = 1 THEN BaseOf(ls, us, k)
                                      ELSE Append(BaseOf(ls, us, k), CountOf(ls, us, k))
  BY <1>6, <1>8
<1> QED
  BY <1>5, <1>6, <1>7, <1>9, <1>10 DEF us, n, S

\* A function on a finite set takes as many values as it has arguments if it takes none twice.
LEMMA ValuesCounted ==
  ASSUME NEW f, IsFiniteSet(DOMAIN f)
  PROVE  LET T == {f[x] : x \in DOMAIN f}
         IN  /\ IsFiniteSet(T)
             /\ Cardinality(T) = Cardinality(DOMAIN f) <=> \A x, y \in DOMAIN f : f[x] = f[y] => x = y
<1> DEFINE S == DOMAIN f
           T == {f[x] : x \in S}
<1> DEFINE g == [x \in S |-> f[x]]
<1>2. g \in Surjection(S, T)
  BY DEF Surjection
<1>3. g \in Injection(S, T) <=> \A x, y \in S : f[x] = f[y] => x = y
  BY DEF Injection, IsInjective
<1> HIDE DEF g, T
<1>4. /\ IsFiniteSet(T)
      /\ Cardinality(T) = Cardinality(S) <=> g \in Injection(S, T)
  BY <1>2, FS_Surjection
<1> QED
  BY <1>3, <1>4 DEF T

LEMMA SlugIsLonger ==
  ASSUME NEW name \in DOMAIN Slugify, NEW x
  PROVE  LET s == Slugify[name]
         IN  /\ Len(s) \in Nat \ {0} /\ Len(Append(s, x)) = Len(s) + 1
             /\ Append(s, x)[Len(s) + 1] = x
             /\ \A i \in 1 .. Len(s) : Append(s, x)[i] = s[i]
             /\ s = [i \in 1 .. Len(s) |-> s[i]]
<1> DEFINE s == Slugify[name]
           n == Len(s)
           X == {s[i] : i \in 1 .. n} \cup {x}
<1>1. n \in Nat \ {0} /\ s = [i \in 1 .. n |-> s[i]]
  BY SlugAssumption
<1> HIDE DEF s, n
<1>2. s \in [1 .. n -> X] /\ x \in X
  BY <1>1
<1> HIDE DEF X
<1>3. s \in Seq(X)
  BY <1>1, <1>2, SeqDef
<1>4. /\ Len(Append(s, x)) = n + 1 /\ Append(s, x)[n + 1] = x
      /\ \A i \in 1 .. n : Append(s, x)[i] = s[i]
  BY <1>2, <1>3, AppendProperties DEF n
<1> QED
  BY <1>1, <1>4 DEF s, n

\* A number makes a slug that nobody else has but one whose name is just that.
LEMMA SlugsDiffer ==
  ASSUME NEW ls \in Logs,
         \A i, j, k \in 1 .. Users(ls) : \A m \in 2 .. Users(ls) :
           LET base(h) == BaseOf(ls, DeriveUsers(ls), h)
           IN  ~(i # j /\ base(i) = base(j) /\ base(k) = Append(base(i), m))
  PROVE  \A j, k \in 1 .. Users(ls) : DeriveUsers(ls)[j].slug = DeriveUsers(ls)[k].slug => j = k
<1> DEFINE us == DeriveUsers(ls)
           n == Users(ls)
           base(k) == BaseOf(ls, us, k)
           Same(k) == {j \in 1 .. k : base(j) = base(k)}
           count(k) == CountOf(ls, us, k)
<1>1. /\ n \in Nat
      /\ \A k \in 1 .. n : us[k].email \in Emails(ls)
      /\ \A k \in 1 .. n : us[k].slug = IF count(k) = 1 THEN base(k) ELSE Append(base(k), count(k))
  BY UsersAre
<1>2. ASSUME NEW k \in 1 .. n
      PROVE  /\ count(k) = Cardinality(Same(k)) /\ IsFiniteSet(Same(k))
             /\ count(k) \in Nat \ {0} /\ k \in Same(k)
  <2>1. count(k) = Cardinality(Same(k))
    BY DEF CountOf
  <2>2. k \in Same(k) /\ Same(k) \in SUBSET (1 .. k)
    BY <1>1
  <2>3. IsFiniteSet(1 .. k)
    <3>1. 1 \in Int /\ k \in Int
      BY <1>1
    <3> QED
      BY <3>1, FS_Interval
  <2> HIDE DEF Same
  <2>4. IsFiniteSet(Same(k))
    BY <2>2, <2>3, FS_Subset
  <2>5. Cardinality(Same(k)) \in Nat /\ Cardinality(Same(k)) # 0
    BY <2>2, <2>4, FS_CardinalityType, FS_EmptySet
  <2> QED
    BY <2>1, <2>2, <2>4, <2>5
<1>3. ASSUME NEW j \in 1 .. n, NEW k \in 1 .. n, j < k, base(j) = base(k)
      PROVE  count(j) < count(k)
  <2>1. Same(j) \in SUBSET Same(k) /\ k \notin Same(j)
    <3>1. \A i \in 1 .. j : i \in 1 .. k
      BY <1>1, <1>3
    <3>2. k \notin 1 .. j
      BY <1>1, <1>3
    <3> HIDE DEF base
    <3> QED
      BY <1>3, <3>1, <3>2
  <2>2. /\ IsFiniteSet(Same(k)) /\ k \in Same(k)
        /\ count(j) = Cardinality(Same(j)) /\ count(k) = Cardinality(Same(k))
        /\ count(j) \in Nat /\ count(k) \in Nat
    BY <1>2
  <2> HIDE DEF Same
  <2>3. Cardinality(Same(j)) <= Cardinality(Same(k)) /\ Cardinality(Same(j)) # Cardinality(Same(k))
    BY <2>1, <2>2, FS_Subset
  <2> HIDE DEF count
  <2> QED
    BY <2>2, <2>3
<1>4. ASSUME NEW k \in 1 .. n, NEW x
      PROVE  /\ Len(base(k)) \in Nat /\ Len(Append(base(k), x)) = Len(base(k)) + 1
             /\ Append(base(k), x)[Len(base(k)) + 1] = x
             /\ \A i \in 1 .. Len(base(k)) : Append(base(k), x)[i] = base(k)[i]
             /\ base(k) = [i \in 1 .. Len(base(k)) |-> base(k)[i]]
  <2> DEFINE name == LatestName(ls, us[k].email)
  <2>1. name \in DOMAIN Slugify
    BY <1>1, LatestNameIs
  <2>2. base(k) = Slugify[name]
    BY DEF BaseOf
  <2> HIDE DEF name, base
  <2>3. LET s == Slugify[name]
        IN  /\ Len(s) \in Nat \ {0} /\ Len(Append(s, x)) = Len(s) + 1
            /\ Append(s, x)[Len(s) + 1] = x
            /\ \A i \in 1 .. Len(s) : Append(s, x)[i] = s[i]
            /\ s = [i \in 1 .. Len(s) |-> s[i]]
    BY <2>1, SlugIsLonger
  <2> QED
    BY <2>2, <2>3
<1>7. ASSUME NEW k \in 1 .. n, count(k) # 1
      PROVE  /\ count(k) \in 2 .. n
             /\ \E i \in 1 .. n : i # k /\ base(i) = base(k)
  <2>1. /\ count(k) = Cardinality(Same(k)) /\ IsFiniteSet(Same(k))
        /\ count(k) \in Nat \ {0} /\ k \in Same(k)
    BY <1>2
  <2>2. Same(k) \in SUBSET (1 .. k)
    OBVIOUS
  <2>3. IsFiniteSet(1 .. k) /\ Cardinality(1 .. k) = k
    <3>1. k \in Nat
      BY <1>1
    <3> QED
      BY <3>1, FS_Interval
  <2>4. \A i \in Same(k) : i \in 1 .. n /\ base(i) = base(k)
    BY <1>1
  <2>6. k \in Nat /\ k <= n /\ n \in Nat
    BY <1>1
  <2> HIDE DEF Same, count, base
  <2>5. Cardinality(Same(k)) <= k
    BY <2>2, <2>3, FS_Subset
  <2>7. count(k) \in 2 .. n
    BY <1>7, <2>1, <2>5, <2>6
  <2>8. Same(k) # {k}
    <3>1. Cardinality({k}) = 1
      BY FS_Singleton
    <3> QED
      BY <1>7, <2>1, <3>1
  <2> QED
    BY <2>1, <2>4, <2>7, <2>8
<1>8. ASSUME NEW i \in 1 .. n, NEW j \in 1 .. n, NEW k \in 1 .. n, NEW m \in 2 .. n,
             i # j, base(i) = base(j), base(k) = Append(base(i), m)
      PROVE  FALSE
  BY <1>8
<1> HIDE DEF us, n, base, count, Same
<1>5. ASSUME NEW j \in 1 .. n, NEW k \in 1 .. n, us[j].slug = us[k].slug
      PROVE  base(j) = base(k) /\ count(j) = count(k)
  <2>1. \A i \in 1 .. n : us[i].slug = IF count(i) = 1 THEN base(i) ELSE Append(base(i), count(i))
    BY <1>1
  <2>2. CASE count(j) = 1 /\ count(k) = 1
    BY <1>5, <2>1, <2>2
  <2>3. CASE count(j) = 1 /\ count(k) # 1
    <3>1. base(j) = Append(base(k), count(k))
      BY <1>5, <2>1, <2>3
    <3> QED
      BY <1>7, <1>8, <2>3, <3>1
  <2>4. CASE count(j) # 1 /\ count(k) = 1
    <3>1. base(k) = Append(base(j), count(j))
      BY <1>5, <2>1, <2>4
    <3> QED
      BY <1>7, <1>8, <2>4, <3>1
  <2>5. CASE count(j) # 1 /\ count(k) # 1
    <3> DEFINE bj == base(j)
               bk == base(k)
    <3>1. Append(bj, count(j)) = Append(bk, count(k))
      BY <1>5, <2>1, <2>5
    <3>2. /\ Len(bj) \in Nat /\ Len(Append(bj, count(j))) = Len(bj) + 1
          /\ Append(bj, count(j))[Len(bj) + 1] = count(j)
          /\ \A i \in 1 .. Len(bj) : Append(bj, count(j))[i] = bj[i]
          /\ bj = [i \in 1 .. Len(bj) |-> bj[i]]
      BY <1>4
    <3>3. /\ Len(bk) \in Nat /\ Len(Append(bk, count(k))) = Len(bk) + 1
          /\ Append(bk, count(k))[Len(bk) + 1] = count(k)
          /\ \A i \in 1 .. Len(bk) : Append(bk, count(k))[i] = bk[i]
          /\ bk = [i \in 1 .. Len(bk) |-> bk[i]]
      BY <1>4
    <3> DEFINE aj == Append(bj, count(j))
               ak == Append(bk, count(k))
    <3>7. /\ Len(bj) \in Nat /\ Len(aj) = Len(bj) + 1
          /\ Len(bk) \in Nat /\ Len(ak) = Len(bk) + 1 /\ aj = ak
      BY <3>1, <3>2, <3>3
    <3> HIDE DEF bj, bk, aj, ak
    <3>4. Len(bj) = Len(bk)
      BY <3>7
    <3>5. count(j) = count(k) /\ \A i \in 1 .. Len(bj) : bj[i] = bk[i]
      BY <3>1, <3>2, <3>3, <3>4
    <3>6. bj = bk
      BY <3>2, <3>3, <3>4, <3>5
    <3> QED
      BY <3>5, <3>6 DEF bj, bk
  <2> QED
    BY <2>2, <2>3, <2>4, <2>5
<1>6. ASSUME NEW j \in 1 .. n, NEW k \in 1 .. n, us[j].slug = us[k].slug PROVE j = k
  <2>1. base(j) = base(k) /\ count(j) = count(k) /\ count(j) \in Nat
    BY <1>2, <1>5, <1>6
  <2>2. ~(j < k) /\ ~(k < j)
    BY <1>3, <2>1
  <2> QED
    BY <1>1, <2>2
<1> QED
  BY <1>6 DEF us, n

-----------------------------------------------------------------------------
(* Each active grant is counted once for its user, its achievement and its *)
(* repository.                                                             *)
ByUser(ls, u) == {e \in ActiveGrants(ls) : At(ls, e).user = u}

LEMMA CountedByUser ==
  ASSUME NEW ls \in Logs, NEW g, DOMAIN g = 1 .. Users(ls),
         \A k \in 1 .. Users(ls) : g[k] = Cardinality(ByUser(ls, DeriveUsers(ls)[k].email))
  PROVE  SumFunction(g) = Cardinality(ActiveGrants(ls))
<1> DEFINE A == ActiveGrants(ls)
           us == DeriveUsers(ls)
           n == Users(ls)
           T == 1 .. n
           user(e) == At(ls, e).user
           f == [e \in A |-> CHOOSE k \in T : us[k].email = user(e)]
<1>1. /\ n \in Nat
      /\ \A u \in Emails(ls) : \E k \in T : us[k].email = u
      /\ \A j, k \in T : us[j].email = us[k].email => j = k
  BY UsersAre
<1>2. IsFiniteSet(A) /\ \A e \in A : user(e) \in Emails(ls)
  <2>1. IsFiniteSet(A) /\ A \in SUBSET AllEvents(ls)
    BY ActiveAre
  <2> QED
    BY <2>1 DEF Emails
<1>3. IsFiniteSet(T)
  BY <1>1, FS_Interval
<1> HIDE DEF A, us, T, user
<1>4. \A e \in A : f[e] \in T /\ us[f[e]].email = user(e)
  BY <1>1, <1>2
<1>5. DOMAIN f = A
  OBVIOUS
<1> HIDE DEF f
<1>6. \A k \in T : Having(f, {k}) = ByUser(ls, us[k].email)
  BY <1>1, <1>4, <1>5 DEF Having, ByUser, A, user
<1>7. Having(f, T) = A
  BY <1>4, <1>5 DEF Having
<1>8. \A k \in T : g[k] = Cardinality(Having(f, {k}))
  BY <1>6 DEF T, us
<1>9. DOMAIN g = T
  BY DEF T
<1>10. SumFunction(g) = Cardinality(Having(f, T))
  BY <1>2, <1>3, <1>5, <1>8, <1>9, SumOfParts
<1> QED
  BY <1>7, <1>10 DEF A

ByAchievement(ls, a) == {e \in ActiveGrants(ls) : At(ls, e).ach = a}

LEMMA CountedByAchievement ==
  ASSUME NEW ls \in Logs, NEW T \in SUBSET Achs,
         NEW g, DOMAIN g = T, \A a \in T : g[a] = Cardinality(ByAchievement(ls, a))
  PROVE  Cardinality(ActiveGrants(ls))
           = SumFunction(g) + Cardinality({e \in ActiveGrants(ls) : At(ls, e).ach \notin T})
<1> DEFINE A == ActiveGrants(ls)
           f == [e \in A |-> At(ls, e).ach]
           in == {e \in A : At(ls, e).ach \in T}
           out == {e \in A : At(ls, e).ach \notin T}
<1>1. IsFiniteSet(A) /\ DOMAIN f = A
  BY ActiveAre
<1>2. IsFiniteSet(T)
  <2>1. IsFiniteSet(Achs)
    BY NamesAssumption, FS_Singleton, FS_Union DEF Achs
  <2> QED
    BY <2>1, FS_Subset
<1>3. \A a \in T : Having(f, {a}) = ByAchievement(ls, a)
  BY DEF Having, ByAchievement
<1>4. Having(f, T) = in
  BY DEF Having
<1>5. A = in \cup out /\ in \cap out = {} /\ in \in SUBSET A /\ out \in SUBSET A
  OBVIOUS
<1> HIDE DEF A, f, in, out
<1>6. \A a \in T : g[a] = Cardinality(Having(f, {a}))
  BY <1>3
<1>7. SumFunction(g) = Cardinality(Having(f, T))
  BY <1>1, <1>2, <1>6, SumOfParts
<1>8. IsFiniteSet(in) /\ IsFiniteSet(out)
  BY <1>1, <1>5, FS_Subset
<1>9. Cardinality(A) = Cardinality(in) + Cardinality(out)
  BY <1>5, <1>8, DisjointUnion
<1> QED
  BY <1>4, <1>7, <1>9 DEF A, out

ByRepository(ls, n) == {e \in ActiveGrants(ls) : e[1] = n}

LEMMA CountedByRepository ==
  ASSUME NEW ls \in Logs, NEW rs \in Rows,
         \A j, k \in DOMAIN rs : rs[j].name = rs[k].name => j = k,
         NEW g, DOMAIN g = DOMAIN rs,
         \A k \in DOMAIN rs : g[k] = Cardinality(ByRepository(ls, rs[k].name))
  PROVE  LET shown == {rs[k].name : k \in DOMAIN rs}
         IN  Cardinality(ActiveGrants(ls))
               = SumFunction(g) + Cardinality({e \in ActiveGrants(ls) : e[1] \notin shown})
<1> DEFINE A == ActiveGrants(ls)
           T == DOMAIN rs
           f == [e \in A |-> IF \E k \in T : rs[k].name = e[1]
                             THEN CHOOSE k \in T : rs[k].name = e[1] ELSE 0]
           shown == {rs[k].name : k \in T}
           in == {e \in A : e[1] \in shown}
           out == {e \in A : e[1] \notin shown}
<1>1. IsFiniteSet(A)
  BY ActiveAre
<1>2. IsFiniteSet(T) /\ 0 \notin T
  <2> DEFINE n == Len(rs)
  <2>1. n \in Nat /\ T = 1 .. n
    BY DEF Rows
  <2> HIDE DEF n, T
  <2>2. IsFiniteSet(1 .. n)
    BY <2>1, FS_Interval
  <2> QED
    BY <2>1, <2>2
<1>3. DOMAIN f = A /\ \A e \in A : \/ f[e] \in T /\ rs[f[e]].name = e[1]
                                   \/ f[e] = 0 /\ \A k \in T : rs[k].name # e[1]
  <2> HIDE DEF A, T
  <2> QED
    OBVIOUS
<1> HIDE DEF f, A, T
<1>4. \A k \in T : Having(f, {k}) = ByRepository(ls, rs[k].name)
  <2>1. \A j, k \in T : rs[j].name = rs[k].name => j = k
    BY DEF T
  <2> QED
    BY <1>2, <1>3, <2>1 DEF Having, ByRepository, A
<1>5. Having(f, T) = in
  BY <1>2, <1>3 DEF Having
<1>6. SumFunction(g) = Cardinality(in)
  <2>1. \A k \in T : g[k] = Cardinality(Having(f, {k}))
    BY <1>4 DEF T
  <2>2. DOMAIN g = T
    BY DEF T
  <2>3. IsFiniteSet(DOMAIN f)
    BY <1>1, <1>3
  <2> HIDE DEF in
  <2>4. SumFunction(g) = Cardinality(Having(f, T))
    BY <1>2, <2>1, <2>2, <2>3, SumOfParts
  <2> QED
    BY <1>5, <2>4
<1>7. A = in \cup out /\ in \cap out = {} /\ in \in SUBSET A /\ out \in SUBSET A
  OBVIOUS
<1> HIDE DEF in, out
<1>8. IsFiniteSet(in) /\ IsFiniteSet(out)
  BY <1>1, <1>7, FS_Subset
<1>9. Cardinality(A) = Cardinality(in) + Cardinality(out)
  BY <1>7, <1>8, DisjointUnion
<1> QED
  BY <1>6, <1>9 DEF out, A, T

-----------------------------------------------------------------------------
(* The figures of the site.                                                *)
Shows(site, ls, cat, rs) ==
  LET us == DeriveUsers(ls)
      n  == Users(ls)
  IN  /\ DOMAIN site.users = 1 .. n /\ Len(site.users) = n
      /\ \A k \in 1 .. n :
           /\ site.users[k].email = us[k].email
           /\ site.users[k].slug = us[k].slug
           /\ site.users[k].active_achievements = Cardinality(ByUser(ls, us[k].email))
      /\ \A a \in cat :
           /\ site.achievements[a].holders = ByAchievement(ls, a)
           /\ site.achievements[a].unique_holders =
                Cardinality({SlugOf(us, At(ls, e).user) : e \in ByAchievement(ls, a)})
      /\ \A k \in DOMAIN rs :
           site.repositories[k].total_achievements = Cardinality(ByRepository(ls, rs[k].name))

LEMMA SiteIs ==
  ASSUME NEW ls \in Logs, NEW cat, NEW rs
  PROVE  Shows(Aggregate(cat, rs, ls), ls, cat, rs)
<1> DEFINE site == Aggregate(cat, rs, ls)
           us == DeriveUsers(ls)
           n == Users(ls)
<1>1. n \in Nat /\ DOMAIN us = 1 .. n
  BY UsersAre
<1>2. /\ site.users = [k \in DOMAIN us |-> UserContext(ls, us[k])]
      /\ site.achievements = [a \in cat |-> AchievementContext(ls, us, a)]
      /\ site.repositories = [k \in DOMAIN rs |-> RepoContext(ls, rs[k])]
  BY DEF Aggregate
<1> HIDE DEF us, n, site
<1>3. \A k : /\ UserContext(ls, us[k]).email = us[k].email
             /\ UserContext(ls, us[k]).slug = us[k].slug
             /\ UserContext(ls, us[k]).active_achievements = Cardinality(ByUser(ls, us[k].email))
  BY DEF UserContext, ByUser
<1>4. \A a : /\ AchievementContext(ls, us, a).holders = ByAchievement(ls, a)
             /\ AchievementContext(ls, us, a).unique_holders =
                  Cardinality({SlugOf(us, At(ls, e).user) : e \in ByAchievement(ls, a)})
  BY DEF AchievementContext, ByAchievement
<1>5. \A k : RepoContext(ls, rs[k]).total_achievements = Cardinality(ByRepository(ls, rs[k].name))
  BY DEF RepoContext, ByRepository
<1>6. Len(site.users) = n
  <2> DEFINE v == site.users
             X == {v[k] : k \in 1 .. n}
  <2>1. v = [k \in 1 .. n |-> v[k]]
    BY <1>1, <1>2
  <2> HIDE DEF v
  <2>2. v \in [1 .. n -> X]
    BY <2>1
  <2> HIDE DEF X
  <2>3. v \in Seq(X) /\ DOMAIN v = 1 .. n
    BY <1>1, <2>2, SeqDef
  <2>4. Len(v) = n
    BY <1>1, <2>3, LenProperties
  <2> QED
    BY <2>4 DEF v
<1> QED
  BY <1>1, <1>2, <1>3, <1>4, <1>5, <1>6 DEF Shows, site, us, n

(* The holders of a repository are those of its log.                       *)
LEMMA HoldersAgree ==
  ASSUME NEW ls \in Logs, NEW a, NEW n \in Names
  PROVE  {e[2] : e \in {h \in ByAchievement(ls, a) : h[1] = n}}
           = {i \in Log!ActiveGrants(ls[n]) : ls[n][i].ach = a}
<1>1. \A e \in ActiveGrants(ls) : e = <<e[1], e[2]>>
  BY ActiveAre, EventsAre
<1>2. \A i : <<n, i>> \in ActiveGrants(ls) <=> i \in Log!ActiveGrants(ls[n])
  BY ActiveAre
<1>3. \A i : At(ls, <<n, i>>) = ls[n][i]
  BY DEF At
<1>4. \A i : <<n, i>> \in ByAchievement(ls, a) <=>
               i \in Log!ActiveGrants(ls[n]) /\ ls[n][i].ach = a
  BY <1>2, <1>3 DEF ByAchievement
<1>5. \A e \in ByAchievement(ls, a) : e = <<e[1], e[2]>>
  BY <1>1 DEF ByAchievement
<1> QED
  BY <1>4, <1>5

(* Users with slugs of their own are as many as their slugs.               *)
LEMMA HoldersBySlug ==
  ASSUME NEW ls \in Logs, NEW a,
         \A j, k \in 1 .. Users(ls) : DeriveUsers(ls)[j].slug = DeriveUsers(ls)[k].slug => j = k
  PROVE  Cardinality({SlugOf(DeriveUsers(ls), At(ls, e).user) : e \in ByAchievement(ls, a)})
           = Cardinality({At(ls, e).user : e \in ByAchievement(ls, a)})
<1> DEFINE us == DeriveUsers(ls)
           n == Users(ls)
           H == ByAchievement(ls, a)
           user(e) == At(ls, e).user
           U == {user(e) : e \in H}
           f == [u \in U |-> SlugOf(us, u)]
<1>1. /\ DOMAIN us = 1 .. n
      /\ \A u \in Emails(ls) : \E k \in 1 .. n : us[k].email = u
  BY UsersAre
<1>2. H \in SUBSET ActiveGrants(ls) /\ ActiveGrants(ls) \in SUBSET AllEvents(ls)
  BY ActiveAre DEF ByAchievement
<1>3. U \in SUBSET Emails(ls)
  BY <1>2 DEF Emails
<1>4. IsFiniteSet(U)
  BY <1>3, EmailsAre, FS_Subset
<1> HIDE DEF us, n, H, user
<1>5. \A u \in U : \E k \in 1 .. n : us[k].email = u /\ f[u] = us[k].slug
  <2> SUFFICES ASSUME NEW u \in U PROVE \E k \in 1 .. n : us[k].email = u /\ f[u] = us[k].slug
    OBVIOUS
  <2>1. \E k \in 1 .. n : us[k].email = u
    BY <1>1, <1>3
  <2>2. SlugOf(us, u) = us[CHOOSE k \in 1 .. n : us[k].email = u].slug
    BY <1>1 DEF SlugOf
  <2>3. f[u] = SlugOf(us, u)
    OBVIOUS
  <2> HIDE DEF f
  <2> QED
    BY <2>1, <2>2, <2>3
<1>6. DOMAIN f = U
  OBVIOUS
<1>7. {SlugOf(us, user(e)) : e \in H} = {f[u] : u \in U}
  OBVIOUS
<1> HIDE DEF U, f
<1>8. \A u, v \in U : f[u] = f[v] => u = v
  BY <1>5 DEF us, n
<1>9. Cardinality({f[u] : u \in DOMAIN f}) = Cardinality(DOMAIN f)
  BY <1>4, <1>6, <1>8, ValuesCounted
<1> QED
  BY <1>6, <1>7, <1>9 DEF U, us, user, H

(* As many slugs as users are slugs of their own.                          *)
LEMMA SlugsCounted ==
  ASSUME NEW ls \in Logs
  PROVE  LET us == DeriveUsers(ls)
             n  == Users(ls)
         IN  Cardinality({us[k].slug : k \in 1 .. n}) = n <=>
               \A j, k \in 1 .. n : us[j].slug = us[k].slug => j = k
<1> DEFINE us == DeriveUsers(ls)
           n == Users(ls)
           f == [k \in 1 .. n |-> us[k].slug]
<1>1. n \in Nat
  BY UsersAre
<1>2. IsFiniteSet(1 .. n) /\ Cardinality(1 .. n) = n
  <2> HIDE DEF n
  <2> QED
    BY <1>1, FS_Interval
<1>3. DOMAIN f = 1 .. n /\ \A k \in 1 .. n : f[k] = us[k].slug
  OBVIOUS
<1> HIDE DEF f, n, us
<1>4. IsFiniteSet(DOMAIN f)
  BY <1>2, <1>3
<1>5. Cardinality({f[k] : k \in DOMAIN f}) = Cardinality(DOMAIN f)
        <=> \A j, k \in DOMAIN f : f[j] = f[k] => j = k
  BY <1>4, ValuesCounted
<1>6. {f[k] : k \in DOMAIN f} = {us[k].slug : k \in 1 .. n}
  BY <1>3
<1> QED
  BY <1>2, <1>3, <1>5, <1>6 DEF n, us

LEMMA SiteFollows ==
  ASSUME logs \in Logs, rows \in Rows, OneRowEach, catalog \in SUBSET Achs
  PROVE  SiteAddsUp
<1> DEFINE site   == Aggregate(catalog, rows, logs)
           us     == DeriveUsers(logs)
           n      == Users(logs)
           users  == site.users
           slugs  == {users[k].slug : k \in DOMAIN users}
           active == ActiveGrants(logs)
           shown  == {rows[k].name : k \in DOMAIN rows}
           ofUsers        == [k \in DOMAIN users |-> users[k].active_achievements]
           ofAchievements == [a \in catalog |-> Cardinality(site.achievements[a].holders)]
           ofRepositories == [k \in DOMAIN rows |-> site.repositories[k].total_achievements]
<1>1. /\ DOMAIN users = 1 .. n /\ Len(users) = n
      /\ \A k \in 1 .. n : /\ users[k].email = us[k].email
                           /\ users[k].slug = us[k].slug
                           /\ users[k].active_achievements = Cardinality(ByUser(logs, us[k].email))
      /\ \A a \in catalog : /\ site.achievements[a].holders = ByAchievement(logs, a)
                            /\ site.achievements[a].unique_holders =
                                 Cardinality({SlugOf(us, At(logs, e).user) : e \in ByAchievement(logs, a)})
      /\ \A k \in DOMAIN rows :
           site.repositories[k].total_achievements = Cardinality(ByRepository(logs, rows[k].name))
  <2>1. Shows(site, logs, catalog, rows)
    BY SiteIs
  <2> HIDE DEF site
  <2> QED
    BY <2>1 DEF Shows
<1> HIDE DEF site
<1>2. \A a \in catalog : \A m \in Names :
        {e[2] : e \in {h \in site.achievements[a].holders : h[1] = m}}
          = {i \in Log!ActiveGrants(logs[m]) : logs[m][i].ach = a}
  <2> SUFFICES ASSUME NEW a \in catalog, NEW m \in Names
               PROVE  {e[2] : e \in {h \in site.achievements[a].holders : h[1] = m}}
                        = {i \in Log!ActiveGrants(logs[m]) : logs[m][i].ach = a}
    OBVIOUS
  <2>1. site.achievements[a].holders = ByAchievement(logs, a)
    BY <1>1
  <2>2. {e[2] : e \in {h \in ByAchievement(logs, a) : h[1] = m}}
          = {i \in Log!ActiveGrants(logs[m]) : logs[m][i].ach = a}
    BY HoldersAgree
  <2> QED
    BY <2>1, <2>2
<1>3. SumFunction(ofUsers) = Cardinality(active)
  <2>1. DOMAIN ofUsers = 1 .. n
        /\ \A k \in 1 .. n : ofUsers[k] = Cardinality(ByUser(logs, us[k].email))
    BY <1>1
  <2> HIDE DEF ofUsers
  <2> QED
    BY <2>1, CountedByUser
<1>4. Cardinality(active)
        = SumFunction(ofAchievements) + Cardinality({e \in active : At(logs, e).ach \notin catalog})
  <2>1. DOMAIN ofAchievements = catalog
        /\ \A a \in catalog : ofAchievements[a] = Cardinality(ByAchievement(logs, a))
    BY <1>1
  <2> HIDE DEF ofAchievements
  <2> QED
    BY <2>1, CountedByAchievement
<1>5. Cardinality(active) = SumFunction(ofRepositories) + Cardinality({e \in active : e[1] \notin shown})
  <2>1. DOMAIN ofRepositories = DOMAIN rows
        /\ \A k \in DOMAIN rows : ofRepositories[k] = Cardinality(ByRepository(logs, rows[k].name))
    BY <1>1
  <2>2. \A j, k \in DOMAIN rows : rows[j].name = rows[k].name => j = k
    BY DEF OneRowEach
  <2> HIDE DEF ofRepositories
  <2> QED
    BY <2>1, <2>2, CountedByRepository
<1>6. Cardinality(slugs) = n <=> \A j, k \in 1 .. n : us[j].slug = us[k].slug => j = k
  <2>1. slugs = {us[k].slug : k \in 1 .. n}
    BY <1>1
  <2> HIDE DEF slugs
  <2> QED
    BY <2>1, SlugsCounted
<1>7. \/ Cardinality(slugs) = Len(users)
      \/ NumberedNameTaken(users)
  <2> SUFFICES ASSUME ~NumberedNameTaken(users)
               PROVE  Cardinality(slugs) = Len(users)
    OBVIOUS
  <2> DEFINE base(k) == BaseOf(logs, us, k)
  <2>3. /\ DOMAIN users = 1 .. n /\ Len(users) = n
        /\ \A k \in 1 .. n : base(k) = Slugify[LatestName(logs, users[k].email)]
    BY <1>1 DEF BaseOf
  <2>4. \A i, j, k \in 1 .. n : \A m \in 2 .. n :
          ~(i # j /\ base(i) = base(j) /\ base(k) = Append(base(i), m))
    <3> SUFFICES ASSUME NEW i \in 1 .. n, NEW j \in 1 .. n, NEW k \in 1 .. n,
                        NEW m \in 2 .. n, i # j, base(i) = base(j),
                        base(k) = Append(base(i), m)
                 PROVE  NumberedNameTaken(users)
      OBVIOUS
    <3> HIDE DEF base, users, n
    <3>1. /\ i \in DOMAIN users /\ j \in DOMAIN users /\ k \in DOMAIN users
          /\ m \in 2 .. Len(users)
          /\ Slugify[LatestName(logs, users[i].email)] = Slugify[LatestName(logs, users[j].email)]
          /\ Slugify[LatestName(logs, users[k].email)]
               = Append(Slugify[LatestName(logs, users[i].email)], m)
      BY <2>3
    <3> QED
      BY <3>1, Zenon DEF NumberedNameTaken
  <2>1. \A i, j, k \in 1 .. n : \A m \in 2 .. n :
          LET b(h) == BaseOf(logs, us, h)
          IN  ~(i # j /\ b(i) = b(j) /\ b(k) = Append(b(i), m))
    BY <2>4
  <2> HIDE DEF slugs, users
  <2>2. \A j, k \in 1 .. n : us[j].slug = us[k].slug => j = k
    BY <2>1, SlugsDiffer
  <2> QED
    BY <1>1, <1>6, <2>2
<1>8. \A a \in catalog : Cardinality(slugs) = Len(users) =>
        site.achievements[a].unique_holders =
          Cardinality({At(logs, e).user : e \in site.achievements[a].holders})
  <2> SUFFICES ASSUME NEW a \in catalog, Cardinality(slugs) = Len(users)
               PROVE  site.achievements[a].unique_holders =
                        Cardinality({At(logs, e).user : e \in site.achievements[a].holders})
    OBVIOUS
  <2>1. \A j, k \in 1 .. n : us[j].slug = us[k].slug => j = k
    <3> HIDE DEF slugs, users
    <3> QED
      BY <1>1, <1>6
  <2>2. /\ site.achievements[a].holders = ByAchievement(logs, a)
        /\ site.achievements[a].unique_holders =
             Cardinality({SlugOf(us, At(logs, e).user) : e \in ByAchievement(logs, a)})
    BY <1>1
  <2> QED
    BY <2>1, <2>2, HoldersBySlug
<1>9. SumFunction(ofUsers)
        = SumFunction(ofAchievements) + Cardinality({e \in active : At(logs, e).ach \notin catalog})
  BY <1>3, <1>4
<1>10. SumFunction(ofUsers)
         = SumFunction(ofRepositories) + Cardinality({e \in active : e[1] \notin shown})
  BY <1>3, <1>5
<1> HIDE DEF ofUsers, ofAchievements, ofRepositories, slugs, shown, active, users
<1> QED
  BY <1>2, <1>7, <1>8, <1>9, <1>10
     DEF SiteAddsUp, site, users, slugs, active, shown, ofUsers, ofAchievements, ofRepositories

-----------------------------------------------------------------------------
(* What a check appends is of known authors and for known achievements:    *)
(* what it takes back is copied from the log.                              *)
LEMMA TakenBackIs ==
  ASSUME NEW n \in Names, NEW l \in Seq(EntryOf(n)), NEW a \in Achs, Log!HasHolder(l, a)
  PROVE  LET e == Log!Revocation(l, a, Log!HolderUser(l, a))
         IN  /\ e.event = "revoke" /\ e.ach = a
             /\ e.user \in Authors /\ e.commit \in 1 .. MaxCommits[n]
<1> DEFINE i == CHOOSE i \in Log!Holders(l, a) : TRUE
           u == Log!HolderUser(l, a)
           Latest(k) == /\ Log!IsGrant(l[k], a) /\ l[k].user = u
                        /\ \A j \in DOMAIN l : j > k => ~(Log!IsGrant(l[j], a) /\ l[j].user = u)
           latest == CHOOSE k \in DOMAIN l : Latest(k)
<1>1. \A k \in DOMAIN l : l[k] \in EntryOf(n)
  BY LenProperties, ElementOfSeq
<1>2. i \in DOMAIN l /\ Log!IsHolder(l, a, i)
  <2>1. i \in Log!Holders(l, a)
    BY DEF Log!HasHolder
  <2> HIDE DEF i
  <2> QED
    BY <2>1 DEF Log!Holders
<1>3. u = l[i].user
  BY DEF Log!HolderUser
<1> HIDE DEF i, u
<1>4. Latest(i)
  BY <1>2, <1>3 DEF Log!IsHolder
<1>5. latest \in DOMAIN l
  <2> HIDE DEF Latest
  <2> QED
    BY <1>2, <1>4
<1>6. Log!LatestGrant(l, a, u) = latest
  BY DEF Log!LatestGrant
<1> HIDE DEF latest
<1>7. u \in Authors /\ l[latest].commit \in 1 .. MaxCommits[n]
  BY <1>1, <1>2, <1>3, <1>5 DEF EntryOf
<1>8. Log!Revocation(l, a, u) =
        [event |-> "revoke", ach |-> a, user |-> u, commit |-> l[latest].commit]
  BY <1>6 DEF Log!Revocation
<1> QED
  BY <1>7, <1>8 DEF u

LEMMA DatedIs ==
  ASSUME NEW n \in Names, NEW e, NEW c \in 1 .. MaxCommits[n],
         e.event \in {"grant", "revoke"}, e.ach \in Achs, e.user \in Authors,
         e.commit \in 1 .. MaxCommits[n]
  PROVE  Dated(e, n, c) \in EntryOf(n)
<1>1. NameOf[n][e.commit] \in DOMAIN Slugify /\ c \in Nat
  BY AuthorsAssumption
<1> QED
  BY <1>1 DEF Dated, EntryOf

LEMMA NewEntries ==
  ASSUME NEW n \in Names, NEW l \in Seq(EntryOf(n)), NEW a \in Achs, NEW u \in Authors,
         NEW c \in 1 .. MaxCommits[n]
  PROVE  LET events == Log!Resolution(l, a, [user |-> u, commit |-> c])
         IN  [i \in DOMAIN events |-> Dated(events[i], n, c)] \in Seq(EntryOf(n))
<1> DEFINE g == [user |-> u, commit |-> c]
           events == Log!Resolution(l, a, g)
           back == Log!Revocation(l, a, Log!HolderUser(l, a))
           new == Log!GrantEvent(a, g)
           entries == [i \in DOMAIN events |-> Dated(events[i], n, c)]
<1> SUFFICES entries \in Seq(EntryOf(n))
  OBVIOUS
<1>1. Dated(new, n, c) \in EntryOf(n)
  <2>1. new.event = "grant" /\ new.ach = a /\ new.user = u /\ new.commit = c
    BY DEF Log!GrantEvent
  <2> HIDE DEF new
  <2> QED
    BY <2>1, DatedIs
<1>2. Log!HasHolder(l, a) => Dated(back, n, c) \in EntryOf(n)
  <2> SUFFICES ASSUME Log!HasHolder(l, a) PROVE Dated(back, n, c) \in EntryOf(n)
    OBVIOUS
  <2>1. /\ back.event = "revoke" /\ back.ach = a
        /\ back.user \in Authors /\ back.commit \in 1 .. MaxCommits[n]
    BY TakenBackIs
  <2> HIDE DEF back
  <2> QED
    BY <2>1, DatedIs
<1>3. \/ events = <<>>
      \/ Log!HasHolder(l, a) /\ events = <<back, new>>
      \/ events = <<new>>
  BY DEF Log!Resolution, Log!Supersedes
<1> HIDE DEF events, back, new
<1>4. CASE events = <<>>
  <2>1. entries = <<>>
    BY <1>4
  <2> HIDE DEF entries
  <2> QED
    BY <2>1
<1>5. CASE Log!HasHolder(l, a) /\ events = <<back, new>>
  <2>1. entries = <<Dated(back, n, c), Dated(new, n, c)>>
    BY <1>5
  <2> HIDE DEF entries
  <2> QED
    BY <1>1, <1>2, <1>5, <2>1
<1>6. CASE events = <<new>>
  <2>1. entries = <<Dated(new, n, c)>>
    BY <1>6
  <2> HIDE DEF entries
  <2> QED
    BY <1>1, <2>1
<1> QED
  BY <1>3, <1>4, <1>5, <1>6

(* The logs, and the one that a check works on, stay as checks write them, *)
(* also when they are pruned or cut short; and the catalog lists what      *)
(* there is.                                                               *)
Worked == job.pc = "walk" => job.log \in Seq(EntryOf(NextOf(job.todo)))

SiteInv ==
  TotalsInv /\ edition \in DOMAIN Editions /\ catalog \in SUBSET Achs /\ logs \in Logs /\ Worked

LEMMA EditionsAre ==
  /\ Len(Editions) \in Nat /\ DOMAIN Editions = 1 .. Len(Editions) /\ 1 \in DOMAIN Editions
  /\ \A k \in DOMAIN Editions : RulesOf(Editions[k]) \in SUBSET Catalog
<1>1. Editions \in Seq(SUBSET (Catalog \X Nat)) /\ Editions # <<>>
  BY RulesAssumption
<1>2. /\ Len(Editions) \in Nat /\ DOMAIN Editions = 1 .. Len(Editions) /\ 1 \in DOMAIN Editions
      /\ \A k \in DOMAIN Editions : Editions[k] \in SUBSET (Catalog \X Nat)
  BY <1>1
<1> QED
  BY <1>2 DEF RulesOf

LEMMA ListedIs == edition \in DOMAIN Editions => Listed \in SUBSET Achs
  BY EditionsAre DEF Listed, enabled, Log!MetaAchievements, Achs

LEMMA KeptLogIs ==
  ASSUME NEW n \in Names, logs \in Logs PROVE KeptLog(n) \in Seq(EntryOf(n))
<1> DEFINE rules == Invalidated(n)
           kept == Log!KeptRows(logs[n], rules)
<1>1. logs[n] \in Seq(EntryOf(n))
  BY DEF Logs
<1>2. kept \in SUBSET DOMAIN logs[n]
  BY DEF Log!KeptRows
<1> HIDE DEF kept
<1>3. Part(logs[n], kept) \in Seq(EntryOf(n))
  BY <1>1, <1>2, PartType
<1>4. Log!Pruned(logs[n], rules) = Part(logs[n], kept)
  BY DEF Log!Pruned, Log!NthOf, Log!RankIn, Log!Cardinality, Part, NthOf, RankIn, kept,
         Cardinality
<1> QED
  BY <1>1, <1>3, <1>4 DEF KeptLog

LEMMA LogReplaced ==
  ASSUME logs \in Logs, NEW n \in Names, NEW l \in Seq(EntryOf(n)),
         logs' = [logs EXCEPT ![n] = l]
  PROVE  logs' \in Logs
<1>1. DOMAIN logs = Names /\ \A m \in Names : logs[m] \in Seq(EntryOf(m))
  BY DEF Logs
<1>2. DOMAIN logs' = Names /\ \A m \in Names : logs'[m] \in Seq(EntryOf(m))
  BY <1>1
<1>3. logs' = [m \in Names |-> logs'[m]]
  BY <1>1
<1> QED
  BY <1>2, <1>3 DEF Logs

(* What is left of a log when its save is killed.                          *)
LEMMA LogLeftIs ==
  ASSUME logs \in Logs, NEW n \in Names, NEW l \in Seq(EntryOf(n)), NEW bad,
         LogLeft(n, l, bad)
  PROVE  logs' \in Logs
<1>1. PICK rest : /\ logs' = [logs EXCEPT ![n] = rest]
                  /\ rest = <<>> \/ \E k \in 0 .. Len(l) : rest = SubSeq(l, 1, k)
  BY DEF LogLeft
<1>2. rest \in Seq(EntryOf(n))
  <2>1. CASE rest = <<>>
    BY <2>1
  <2>2. ASSUME NEW k \in 0 .. Len(l), rest = SubSeq(l, 1, k) PROVE rest \in Seq(EntryOf(n))
    <3>1. Len(l) \in Nat /\ \A i \in 1 .. Len(l) : l[i] \in EntryOf(n)
      BY LenProperties, ElementOfSeq
    <3>2. SubSeq(l, 1, k) = [i \in 1 .. k |-> l[i]]
      BY <3>1
    <3>3. k \in Nat /\ \A i \in 1 .. k : i \in 1 .. Len(l)
      BY <3>1
    <3>4. \A i \in 1 .. k : l[i] \in EntryOf(n)
      BY <3>1, <3>3
    <3>5. SubSeq(l, 1, k) \in [1 .. k -> EntryOf(n)]
      BY <3>2, <3>4
    <3> QED
      BY <2>2, <3>3, <3>5, SeqDef
  <2> QED
    BY <1>1, <2>1, <2>2
<1> QED
  BY <1>1, <1>2, LogReplaced

LEMMA SiteInit == Init => SiteInv
<1>1. SUFFICES ASSUME Init PROVE SiteInv
  OBVIOUS
<1>2. TotalsInv
  BY <1>1, TotalsInit
<1>3. logs \in Logs
  <2>1. \A n \in Names : <<>> \in Seq(EntryOf(n))
    OBVIOUS
  <2>2. logs = [n \in Names |-> <<>>]
    BY <1>1 DEF Init
  <2> QED
    BY <2>1, <2>2 DEF Logs
<1>4. edition \in DOMAIN Editions /\ catalog \in SUBSET Achs /\ Worked
  BY <1>1, EditionsAre DEF Init, Idle, Worked
<1> QED
  BY <1>2, <1>3, <1>4 DEF SiteInv

LEMMA LoadsSite ==
  SiteInv /\ CheckLoads => catalog' \in SUBSET Achs /\ logs' \in Logs /\ Worked'
<1>1. SUFFICES ASSUME SiteInv, CheckLoads
               PROVE  catalog' \in SUBSET Achs /\ logs' \in Logs /\ Worked'
  OBVIOUS
<1> DEFINE n == NextOf(job.todo)
<1>2. JobTyped(job) /\ job.pc = "check" /\ job.todo # {} /\ logs \in Logs
      /\ edition \in DOMAIN Editions /\ catalog \in SUBSET Achs
  BY <1>1 DEF CheckLoads, SiteInv, TotalsInv, CommandsTyped, Idle
<1>3. n \in Names
  BY <1>2, NextIsTodo DEF JobTyped
<1>4. KeptLog(n) \in Seq(EntryOf(n))
  BY <1>2, <1>3, KeptLogIs
<1>5. CASE job' = Idle /\ UNCHANGED <<logs, catalog>>
  BY <1>2, <1>5 DEF Worked, Idle
<1>6. CASE /\ catalog' = Listed /\ logs' = [logs EXCEPT ![n] = KeptLog(n)]
           /\ \/ job' = [job EXCEPT !.pc = "walk", !.log = KeptLog(n)]
              \/ job' = Idle
  <2>1. logs' \in Logs
    <3>1. logs' = [logs EXCEPT ![n] = KeptLog(n)]
      BY <1>6
    <3> HIDE DEF n
    <3> QED
      BY <1>2, <1>3, <1>4, <3>1, LogReplaced
  <2>2. Worked'
    <3>1. CASE job' = Idle
      BY <3>1 DEF Worked, Idle
    <3>2. CASE job' = [job EXCEPT !.pc = "walk", !.log = KeptLog(n)]
      <4>1. job'.todo = job.todo /\ job'.log = KeptLog(n)
        BY <1>2, <3>2 DEF JobTyped
      <4> QED
        BY <1>4, <4>1 DEF Worked
    <3> QED
      BY <1>6, <3>1, <3>2
  <2> QED
    BY <1>2, <1>6, <2>1, <2>2, ListedIs
<1> QED
  BY <1>1, <1>5, <1>6 DEF CheckLoads

LEMMA GrantSite ==
  ASSUME NEW a, NEW c, SiteInv, Grant(a, c) PROVE Worked'
<1> DEFINE n == NextOf(job.todo)
           u == AuthorOf[n][c]
           events == Log!Resolution(job.log, a, [user |-> u, commit |-> c])
           new == [i \in DOMAIN events |-> Dated(events[i], n, c)]
<1>1. /\ job.pc = "walk" /\ <<a, c>> \in Asks[n]
      /\ job' = [job EXCEPT !.log = @ \o new]
  BY DEF Grant
<1>2. JobTyped(job) /\ n \in Names /\ job.log \in Seq(EntryOf(n))
  BY <1>1, Working DEF SiteInv, Worked
<1>3. a \in Achs /\ c \in 1 .. MaxCommits[n]
  <2>1. Asks[n] \subseteq (Catalog \cup {Farmer}) \X (1 .. MaxCommits[n])
    BY <1>2, AuthorsAssumption
  <2> QED
    BY <1>1, <2>1 DEF Achs
<1>4. u \in Authors
  BY <1>2, <1>3, AuthorsAssumption
<1> HIDE DEF n, u
<1>5. new \in Seq(EntryOf(n))
  BY <1>2, <1>3, <1>4, NewEntries
<1> HIDE DEF new
<1>6. job.log \o new \in Seq(EntryOf(n))
  BY <1>2, <1>5
<1>7. job'.todo = job.todo /\ job'.log = job.log \o new
  BY <1>1, <1>2 DEF JobTyped
<1> QED
  BY <1>6, <1>7 DEF Worked, n

LEMMA SavesSite ==
  SiteInv /\ CheckSaves => catalog' = catalog /\ logs' \in Logs /\ Worked'
<1>1. SUFFICES ASSUME SiteInv, CheckSaves PROVE catalog' = catalog /\ logs' \in Logs /\ Worked'
  OBVIOUS
<1> DEFINE n == NextOf(job.todo)
<1>2. /\ job.pc = "walk" /\ logs' = [logs EXCEPT ![n] = job.log] /\ UNCHANGED catalog
      /\ \/ \E rest : job' = [job EXCEPT !.pc = "check", !.todo = rest, !.log = <<>>]
         \/ \E new : job' = [job EXCEPT !.pc = "count", !.new = new, !.log = <<>>]
  BY <1>1 DEF CheckSaves
<1>3. JobTyped(job) /\ n \in Names /\ job.log \in Seq(EntryOf(n)) /\ logs \in Logs
  BY <1>1, <1>2, Working DEF SiteInv, Worked
<1>4. job'.pc # "walk"
  BY <1>2, <1>3 DEF JobTyped
<1>5. Worked'
  BY <1>4 DEF Worked
<1> HIDE DEF n
<1>6. logs' \in Logs
  BY <1>2, <1>3, LogReplaced
<1> QED
  BY <1>2, <1>5, <1>6

(* A check that is killed leaves its log, a part of it, or nothing.        *)
LEMMA StopsSite ==
  SiteInv /\ (InvalidationStops \/ CheckStops)
    => catalog' \in SUBSET Achs /\ logs' \in Logs /\ Worked'
<1>1. SUFFICES ASSUME SiteInv, InvalidationStops \/ CheckStops
               PROVE  catalog' \in SUBSET Achs /\ logs' \in Logs /\ Worked'
  OBVIOUS
<1> DEFINE n == NextOf(job.todo)
<1>2. /\ job.pc \in {"check", "walk"} /\ job.todo # {} /\ job' = Idle
      /\ logs \in Logs /\ edition \in DOMAIN Editions /\ catalog \in SUBSET Achs
  BY <1>1, Working DEF InvalidationStops, CheckStops, SiteInv
<1>3. n \in Names
  <2>1. JobTyped(job)
    BY <1>1, <1>2 DEF SiteInv, TotalsInv, CommandsTyped, Idle
  <2> QED
    BY <1>2, <2>1, NextIsTodo DEF JobTyped
<1>4. Worked'
  BY <1>2 DEF Worked, Idle
<1>5. CASE InvalidationStops
  <2>1. catalog' = Listed
    BY <1>5 DEF InvalidationStops
  <2>2. \/ UNCHANGED logs
        \/ LogLeft(n, KeptLog(n), torn[n] \ Invalidated(n))
    BY <1>5 DEF InvalidationStops
  <2>3. KeptLog(n) \in Seq(EntryOf(n))
    BY <1>2, <1>3, KeptLogIs
  <2> HIDE DEF n
  <2>4. logs' \in Logs
    BY <1>2, <1>3, <2>2, <2>3, LogLeftIs
  <2> QED
    BY <1>2, <1>4, <2>1, <2>4, ListedIs
<1>6. CASE CheckStops
  <2>1. UNCHANGED catalog /\ job.pc = "walk"
    BY <1>6 DEF CheckStops
  <2>2. job.log \in Seq(EntryOf(n))
    BY <1>1, <2>1 DEF SiteInv, Worked
  <2>3. \/ UNCHANGED logs
        \/ LogLeft(n, job.log, torn[n])
    BY <1>6 DEF CheckStops, RetireStops, CheckpointStops, SaveStops
  <2> HIDE DEF n
  <2>4. logs' \in Logs
    BY <1>2, <1>3, <2>2, <2>3, LogLeftIs
  <2> QED
    BY <1>2, <1>4, <2>1, <2>4
<1> QED
  BY <1>1, <1>5, <1>6

LEMMA SiteNext == SiteInv /\ [Next]_vars => SiteInv'
<1>1. SUFFICES ASSUME SiteInv, [Next]_vars PROVE SiteInv'
  OBVIOUS
<1>2. TotalsInv'
  BY <1>1, TotalsNext DEF SiteInv
<1>3. TotalsInv /\ logs \in Logs /\ catalog \in SUBSET Achs /\ Worked /\ edition \in DOMAIN Editions
  BY <1>1 DEF SiteInv
<1>4. edition' \in DOMAIN Editions
  <2>1. CASE EditRules
    BY <1>3, <2>1, EditionsAre DEF EditRules
  <2>2. CASE ~EditRules
    <3>1. UNCHANGED edition
      BY <1>1, <2>2
         DEF Next, vars, world, Start, CheckAll, StartJob, JobStep, Fetch, Fetched, CheckLoads,
             CheckSaves, Count, Truncate, Write, AddStep, AddTruncates, AddWrites, Fault,
             JobStops, InvalidationStops, CheckStops, AddStops, Grant, Add, Push, Reset
    <3> QED
      BY <1>3, <3>1
  <2> QED
    BY <2>1, <2>2
<1> SUFFICES catalog' \in SUBSET Achs /\ logs' \in Logs /\ Worked'
  BY <1>2, <1>4 DEF SiteInv
<1>5. ASSUME UNCHANGED <<logs, catalog>>, UNCHANGED job \/ job'.pc # "walk"
      PROVE  catalog' \in SUBSET Achs /\ logs' \in Logs /\ Worked'
  BY <1>3, <1>5 DEF Worked
<1>6. CASE Start
  BY <1>5, <1>6 DEF Start, CheckAll, StartJob, repos
<1>7. CASE CheckLoads
  BY <1>1, <1>7, LoadsSite
<1>8. CASE CheckSaves
  BY <1>1, <1>3, <1>8, SavesSite
<1>9. CASE Fetch \/ Fetched \/ Count \/ Truncate \/ Write
  <2>1. UNCHANGED <<logs, catalog>>
    BY <1>9 DEF Fetch, Fetched, Count, Truncate, Write, repos
  <2>2. job = Idle \/ JobTyped(job)
    BY <1>3 DEF TotalsInv, CommandsTyped
  <2>3. ASSUME Fetch PROVE job'.pc # "walk"
    <3>1. CASE job' = Idle
      BY <3>1 DEF Idle
    <3>2. CASE job' = [job EXCEPT !.todo = @ \ {NextOf(job.todo)}]
      <4>1. JobTyped(job)
        BY <2>2, <2>3 DEF Fetch, Idle
      <4> QED
        BY <2>3, <3>2, <4>1 DEF Fetch, JobTyped
    <3> QED
      BY <2>3, <3>1, <3>2 DEF Fetch
  <2>4. ASSUME Fetched \/ Count \/ Truncate \/ Write PROVE job'.pc # "walk"
    <3>1. JobTyped(job)
      BY <2>2, <2>4 DEF Fetched, Count, Truncate, Write, Idle
    <3>2. CASE Fetched \/ Count
      BY <3>1, <3>2 DEF Fetched, Count, JobTyped
    <3>3. CASE Truncate
      BY <3>1, <3>3 DEF Truncate, JobTyped
    <3>4. CASE Write
      BY <3>4 DEF Write, Idle
    <3> QED
      BY <2>4, <3>2, <3>3, <3>4
  <2>5. job'.pc # "walk"
    BY <1>9, <2>3, <2>4
  <2> QED
    BY <1>5, <2>1, <2>5
<1>10. CASE InvalidationStops \/ CheckStops
  BY <1>1, <1>10, StopsSite
<1>11. CASE JobStops \/ AddStep \/ AddStops \/ EditRules \/ UNCHANGED vars
  BY <1>5, <1>11
     DEF JobStops, AddStep, AddTruncates, AddWrites, AddStops, EditRules, vars, repos, Idle
<1>12. ASSUME NEW n \in Names, Add(n) \/ Push(n) PROVE catalog' \in SUBSET Achs /\ logs' \in Logs /\ Worked'
  BY <1>5, <1>12 DEF Add, Push, repos
<1>13. ASSUME NEW n \in Names, Reset(n) PROVE catalog' \in SUBSET Achs /\ logs' \in Logs /\ Worked'
  <2>1. <<>> \in Seq(EntryOf(n))
    OBVIOUS
  <2>2. logs' = [logs EXCEPT ![n] = <<>>] /\ UNCHANGED <<catalog, job>>
    BY <1>13 DEF Reset
  <2>3. logs' \in Logs
    BY <1>3, <2>1, <2>2, LogReplaced
  <2> QED
    BY <1>3, <2>2, <2>3 DEF Worked
<1>14. ASSUME NEW a, NEW c, Grant(a, c) PROVE catalog' \in SUBSET Achs /\ logs' \in Logs /\ Worked'
  <2>1. UNCHANGED <<logs, catalog>>
    BY <1>14 DEF Grant, repos
  <2> QED
    BY <1>1, <1>3, <1>14, <2>1, GrantSite
<1> QED
  BY <1>1, <1>6, <1>7, <1>8, <1>9, <1>10, <1>11, <1>12, <1>13, <1>14 DEF Next, JobStep, Fault

LEMMA SiteIsRight == SiteInv => SiteAddsUp
  BY SiteFollows DEF SiteInv, TotalsInv, BooksTyped, TotalsAddUp

(* Whenever no command runs, the site shows the holders the logs would     *)
(* give; the grants it counts for the users are those it counts for the    *)
(* achievements and those of rules that were disabled, and those it counts *)
(* for the repositories and those of repositories that were never counted; *)
(* users have pages of their own unless the name of one is the numbered    *)
(* name of two others, and holders are counted right if all users do       *)
(* (commands/render/aggregate.rs and users.rs, for any repositories,       *)
(* authors and rules, any edits of these, and any order in which checks    *)
(* are run or killed).                                                     *)
THEOREM SiteAddsUpAlways == Spec => []SiteAddsUp
  BY SiteInit, SiteNext, SiteIsRight, PTL DEF Spec

-----------------------------------------------------------------------------
(* A thread that has tried k candidates since the first match has taken at *)
(* least k turns since it last looked at the flag.                         *)
Lags(t) ==
  /\ DOMAIN worker[t] = {"pc", "next", "end", "since", "result"}
  /\ worker[t].since \in 0 .. BatchSize - 1
  /\ late[t] \in Nat
  /\ late[t] <= worker[t].since + (IF worker[t].pc = "try" THEN 0 ELSE 1)

(* Until the flag is raised there is no match, and nobody is late.         *)
Unfound == ~found => \A t \in DOMAIN worker : worker[t].result = Nothing /\ late[t] = 0

LagInv ==
  /\ DOMAIN late = DOMAIN worker
  /\ \A t \in DOMAIN worker : Lags(t)
  /\ Unfound

LEMMA LagInit == SearchInit => LagInv
<1>1. SUFFICES ASSUME SearchInit PROVE LagInv
  OBVIOUS
<1>2. DOMAIN worker = {} /\ DOMAIN late = {}
  BY <1>1 DEF SearchInit
<1> QED
  BY <1>2 DEF LagInv, Unfound

LEMMA SpawnKeepsLag == LagInv /\ Spawn => LagInv'
<1>1. SUFFICES ASSUME LagInv, Spawn, args.threads # 0 PROVE LagInv'
  BY DEF Spawn, LagInv, Unfound, Lags
<1> DEFINE Threads == 1 .. args.threads
<1>2. /\ DOMAIN worker' = Threads /\ DOMAIN late' = Threads
      /\ found' = found
      /\ \A t \in Threads :
           /\ DOMAIN worker'[t] = {"pc", "next", "end", "since", "result"}
           /\ worker'[t].pc = "turn" /\ worker'[t].since = 0
           /\ worker'[t].result = Nothing /\ late'[t] = 0
  BY <1>1 DEF Spawn
<1>3. 0 \in 0 .. BatchSize - 1
  BY SearchAssumption
<1> QED
  BY <1>2, <1>3 DEF LagInv, Unfound, Lags

LEMMA TurnKeepsLag == ASSUME NEW t \in DOMAIN worker, LagInv, Turn(t) PROVE LagInv'
<1> DEFINE w     == worker[t]
           polls == w.since + 1 >= BatchSize
           ends  == w.next = w.end \/ (polls /\ found)
<1>1. /\ DOMAIN worker' = DOMAIN worker /\ late' = late /\ found' = found
      /\ \A u \in DOMAIN worker \ {t} : worker'[u] = worker[u]
      /\ worker'[t] = IF ends THEN [w EXCEPT !.pc = "done"]
                      ELSE [w EXCEPT !.pc = "try", !.since = IF polls THEN 0 ELSE @ + 1]
  BY DEF Turn
<1>2. /\ DOMAIN w = {"pc", "next", "end", "since", "result"}
      /\ w.since \in 0 .. BatchSize - 1 /\ late[t] \in Nat
      /\ w.pc = "turn" /\ late[t] <= w.since + 1
  BY DEF LagInv, Lags, Turn
<1>3. DOMAIN worker'[t] = {"pc", "next", "end", "since", "result"}
      /\ worker'[t].result = w.result
  BY <1>1, <1>2
<1>4. Lags(t)'
  <2>1. CASE ends
    <3>1. worker'[t].since = w.since /\ worker'[t].pc = "done"
      BY <1>1, <1>2, <2>1
    <3> QED
      BY <1>1, <1>2, <1>3, <3>1 DEF Lags
  <2>2. CASE ~ends
    <3>1. worker'[t].since = (IF polls THEN 0 ELSE w.since + 1) /\ worker'[t].pc = "try"
      BY <1>1, <1>2, <2>2
    <3>2. polls => late[t] = 0
      BY <2>2 DEF LagInv, Unfound
    <3> QED
      BY <1>1, <1>2, <1>3, <3>1, <3>2, SearchAssumption DEF Lags
  <2> QED
    BY <2>1, <2>2
<1>5. ASSUME NEW u \in DOMAIN worker, u # t PROVE Lags(u)'
  BY <1>1, <1>5 DEF LagInv, Lags
<1>6. Unfound'
  BY <1>1, <1>3 DEF LagInv, Unfound
<1> QED
  BY <1>1, <1>4, <1>5, <1>6 DEF LagInv

LEMMA TryKeepsLag == ASSUME NEW t \in DOMAIN worker, LagInv, Try(t) PROVE LagInv'
<1> DEFINE w   == worker[t]
           hit == Matches(w.next)
           isLate == \E u \in DOMAIN worker : worker[u].result # Nothing
<1>1. /\ DOMAIN worker' = DOMAIN worker /\ DOMAIN late' = DOMAIN late
      /\ \A u \in DOMAIN worker \ {t} : worker'[u] = worker[u] /\ late'[u] = late[u]
      /\ worker'[t] = IF hit THEN [w EXCEPT !.pc = "done", !.result = w.next]
                      ELSE [w EXCEPT !.pc = "turn", !.next = @ + 1]
      /\ late'[t] = IF isLate THEN late[t] + 1 ELSE late[t]
      /\ found' <=> found \/ hit
  BY DEF Try, Raised, LagInv
<1>2. /\ DOMAIN w = {"pc", "next", "end", "since", "result"}
      /\ w.since \in 0 .. BatchSize - 1 /\ late[t] \in Nat
      /\ w.pc = "try" /\ late[t] <= w.since
  BY DEF LagInv, Lags, Try
<1>3. /\ DOMAIN worker'[t] = {"pc", "next", "end", "since", "result"}
      /\ worker'[t].since = w.since /\ worker'[t].pc # "try"
      /\ ~hit => worker'[t].result = w.result
  <2>1. CASE hit
    BY <1>1, <1>2, <2>1
  <2>2. CASE ~hit
    BY <1>1, <1>2, <2>2
  <2> QED
    BY <2>1, <2>2
<1>4. Lags(t)'
  BY <1>1, <1>2, <1>3 DEF Lags
<1>5. ASSUME NEW u \in DOMAIN worker, u # t PROVE Lags(u)'
  BY <1>1, <1>5 DEF LagInv, Lags
<1>6. Unfound'
  BY <1>1, <1>3 DEF LagInv, Unfound
<1> QED
  BY <1>1, <1>4, <1>5, <1>6 DEF LagInv

LEMMA LagNext == LagInv /\ [SearchNext]_searchVars => LagInv'
<1>1. SUFFICES ASSUME LagInv, [SearchNext]_searchVars PROVE LagInv'
  OBVIOUS
<1>2. CASE UNCHANGED <<found, worker, late>>
  BY <1>1, <1>2 DEF LagInv, Lags, Unfound
<1>3. ASSUME NEW a, NEW author, Main(a, author) PROVE LagInv'
  BY <1>2, <1>3 DEF Main
<1>4. CASE Spawn
  BY <1>1, <1>4, SpawnKeepsLag
<1>5. CASE Join
  BY <1>2, <1>5 DEF Join
<1>6. ASSUME NEW t \in DOMAIN worker, Turn(t) PROVE LagInv'
  BY <1>1, <1>6, TurnKeepsLag
<1>7. ASSUME NEW t \in DOMAIN worker, Try(t) PROVE LagInv'
  BY <1>1, <1>7, TryKeepsLag
<1>8. CASE UNCHANGED searchVars
  BY <1>2, <1>8 DEF searchVars
<1> QED
  BY <1>1, <1>3, <1>4, <1>5, <1>6, <1>7, <1>8 DEF SearchNext

(* Once a thread has found a match, every other thread stops before it has *)
(* tried more than a batch of candidates: of any number of threads, however *)
(* their polls and tries interleave (search_range).                        *)
THEOREM ThreadsStop == SearchSpec => []StopsWithinABatch
<1>1. LagInv => StopsWithinABatch
  BY SearchAssumption DEF LagInv, Lags, StopsWithinABatch
<1> QED
  BY <1>1, LagInit, LagNext, PTL DEF SearchSpec
-----------------------------------------------------------------------------
(***************************************************************************)
(* What the observers read out of a text.                                  *)
(***************************************************************************)
TextType == text \in Seq(Characters) /\ left \in Seq(Bytes) /\ right \in Seq(Bytes)

LEMMA Typed == TextSpec => []TextType
<1>1. TextInit => TextType
  BY EmptySeq DEF TextInit, TextType
<1>2. TextType /\ [TextNext]_textVars => TextType'
  <2> SUFFICES ASSUME TextType, [TextNext]_textVars PROVE TextType'
    OBVIOUS
  <2>1. ASSUME NEW ch \in Characters, Type(ch) PROVE TextType'
    BY <2>1, AppendProperties DEF Type, TextType
  <2>2. ASSUME NEW b \in Bytes, Store(b) PROVE TextType'
    <3>1. \A s \in Seq(Bytes) : Append(s, b) \in Seq(Bytes)
      BY AppendProperties
    <3> HIDE DEF Bytes, Characters
    <3> QED
      BY <2>2, <3>1 DEF Store, TextType
  <2>3. CASE UNCHANGED textVars
    BY <2>3 DEF textVars, TextType
  <2> QED
    BY <2>1, <2>2, <2>3 DEF TextNext
<1> QED
  BY <1>1, <1>2, PTL DEF TextSpec

-----------------------------------------------------------------------------
(* The loop over the prefixes of the hash.                                 *)

\* Where the loop gets to from n characters down: the longest prefix of those that
\* occurs, or 0.
Hears(t, n)    == OccursIn(SubSeq(Hash, 1, n), t)
IsLongest(t, n, l) ==
  /\ l # 0 => l \in MinPrefix .. n /\ Hears(t, l)
  /\ \A m \in MinPrefix .. n : m > l => ~Hears(t, m)

LEMMA LongestStep ==
  ASSUME NEW t, NEW n \in Nat, NEW l \in Nat, n # 0 => IsLongest(t, n - 1, l),
         MinPrefix \in Nat \ {0}
  PROVE  IsLongest(t, n, IF n < MinPrefix THEN 0 ELSE IF Hears(t, n) THEN n ELSE l)
<1>1. CASE n < MinPrefix
  BY <1>1 DEF IsLongest
<1>2. CASE ~(n < MinPrefix) /\ Hears(t, n)
  BY <1>2 DEF IsLongest
<1>3. CASE ~(n < MinPrefix) /\ ~Hears(t, n)
  <2>1. \A m \in MinPrefix .. n : m = n \/ m \in MinPrefix .. n - 1
    OBVIOUS
  <2>2. \A m \in MinPrefix .. n - 1 : m \in MinPrefix .. n
    OBVIOUS
  <2>3. n # 0
    BY <1>3
  <2> QED
    BY <1>3, <2>1, <2>2, <2>3 DEF IsLongest
<1> QED
  BY <1>1, <1>2, <1>3

LEMMA LongestIs == ASSUME NEW t PROVE IsLongest(t, Len(Hash), QuinePrefix(t))
<1> DEFINE N == Len(Hash)
           longest == CHOOSE f : f = [n \in 0 .. N |->
                        IF n < MinPrefix THEN 0
                        ELSE IF OccursIn(SubSeq(Hash, 1, n), t) THEN n ELSE f[n - 1]]
           g == [n \in 0 .. N |->
                  IF \E m \in MinPrefix .. n : Hears(t, m)
                  THEN LastOf({m \in MinPrefix .. n : Hears(t, m)}) ELSE 0]
<1>1. N \in Nat /\ MinPrefix \in Nat \ {0}
  BY LengthAssumption, HashAssumption, LenProperties
<1> HIDE DEF N
<1>2. \A n \in 0 .. N : g[n] = IF n < MinPrefix THEN 0
                               ELSE IF OccursIn(SubSeq(Hash, 1, n), t) THEN n ELSE g[n - 1]
  <2> SUFFICES ASSUME NEW n \in 0 .. N
               PROVE g[n] = IF n < MinPrefix THEN 0 ELSE IF Hears(t, n) THEN n ELSE g[n - 1]
    BY DEF Hears
  <2> DEFINE S == {m \in MinPrefix .. n : Hears(t, m)}
  <2>1. CASE n < MinPrefix
    <3>1. ~\E m \in MinPrefix .. n : Hears(t, m)
      BY <1>1, <2>1
    <3> QED
      BY <2>1, <3>1
  <2>2. CASE ~(n < MinPrefix) /\ Hears(t, n)
    <3>1. n \in S /\ S \in SUBSET (0 .. N) /\ \A m \in S : m <= n /\ m \in Nat
      BY <1>1, <2>2
    <3>2. LastOf(S) \in S /\ \A m \in S : m <= LastOf(S)
      <4> HIDE DEF S
      <4> QED
        BY <1>1, <3>1, LastOfIs
    <3>3. LastOf(S) = n
      <4> HIDE DEF S
      <4>1. n <= LastOf(S) /\ LastOf(S) <= n /\ LastOf(S) \in Nat
        BY <3>1, <3>2
      <4> QED
        BY <4>1
    <3>4. \E m \in MinPrefix .. n : Hears(t, m)
      BY <3>1
    <3> QED
      BY <2>2, <3>3, <3>4
  <2>3. CASE ~(n < MinPrefix) /\ ~Hears(t, n)
    <3>1. n - 1 \in 0 .. N
      BY <1>1, <2>3
    <3>2. S = {m \in MinPrefix .. n - 1 : Hears(t, m)}
      <4>1. \A m : m \in MinPrefix .. n <=> m = n \/ m \in MinPrefix .. n - 1
        BY <1>1, <2>3
      <4> QED
        BY <2>3, <4>1
    <3>3. (\E m \in MinPrefix .. n : Hears(t, m)) <=> S # {}
      OBVIOUS
    <3>4. (\E m \in MinPrefix .. n - 1 : Hears(t, m)) <=> S # {}
      BY <3>2
    <3>5. g[n] = IF S # {} THEN LastOf(S) ELSE 0
      BY <3>3
    <3>6. g[n - 1] = IF S # {} THEN LastOf(S) ELSE 0
      <4>1. g[n - 1] = IF \E m \in MinPrefix .. n - 1 : Hears(t, m)
                       THEN LastOf({m \in MinPrefix .. n - 1 : Hears(t, m)}) ELSE 0
        BY <3>1
      <4> HIDE DEF S, g
      <4> QED
        BY <4>1, <3>2, <3>4
    <3> HIDE DEF S, g
    <3> QED
      BY <2>3, <3>5, <3>6
  <2> QED
    BY <2>1, <2>2, <2>3
<1>3. g = [n \in 0 .. N |-> IF n < MinPrefix THEN 0
                            ELSE IF OccursIn(SubSeq(Hash, 1, n), t) THEN n ELSE g[n - 1]]
  <2>1. g = [n \in 0 .. N |-> g[n]]
    OBVIOUS
  <2> HIDE DEF g
  <2> QED
    BY <1>2, <2>1
<1> HIDE DEF g
<1>4. longest = [n \in 0 .. N |-> IF n < MinPrefix THEN 0
                                  ELSE IF Hears(t, n) THEN n ELSE longest[n - 1]]
  BY <1>3 DEF Hears
<1> HIDE DEF longest
<1>5. \A n \in 0 .. N : longest[n] = IF n < MinPrefix THEN 0
                                     ELSE IF Hears(t, n) THEN n ELSE longest[n - 1]
  BY <1>4
<1>6. \A n \in 0 .. N : longest[n] \in Nat /\ IsLongest(t, n, longest[n])
  <2> DEFINE Bad == {n \in 0 .. N : ~(longest[n] \in Nat /\ IsLongest(t, n, longest[n]))}
  <2> SUFFICES ASSUME Bad # {} PROVE FALSE
    OBVIOUS
  <2>1. PICK n \in Bad : \A k \in Bad : n <= k
    <3>1. Bad \in SUBSET Nat
      BY <1>1
    <3> HIDE DEF Bad
    <3> QED
      BY <3>1, LeastExists
  <2>2. n \in 0 .. N /\ n \in Nat
    BY <1>1
  <2>3. CASE n = 0
    <3>1. longest[n] = IF n < MinPrefix THEN 0 ELSE IF Hears(t, n) THEN n ELSE 0
      BY <1>1, <1>5, <2>2, <2>3
    <3>2. IsLongest(t, n, longest[n])
      BY <1>1, <2>2, <2>3, <3>1, LongestStep
    <3>3. longest[n] = 0
      BY <1>1, <2>3, <3>1
    <3> QED
      BY <3>2, <3>3
  <2>4. CASE n # 0
    <3>1. n - 1 \in 0 .. N /\ ~(n <= n - 1)
      BY <1>1, <2>2, <2>4
    <3>2. longest[n - 1] \in Nat /\ IsLongest(t, n - 1, longest[n - 1])
      BY <2>1, <3>1
    <3>3. longest[n] = IF n < MinPrefix THEN 0 ELSE IF Hears(t, n) THEN n ELSE longest[n - 1]
      BY <1>5, <2>2
    <3>4. IsLongest(t, n, longest[n])
      BY <1>1, <2>2, <3>2, <3>3, LongestStep
    <3> QED
      BY <2>2, <3>2, <3>3, <3>4
  <2> QED
    BY <2>3, <2>4
<1>7. QuinePrefix(t) = longest[N]
  BY DEF QuinePrefix, longest, N
<1>8. N \in 0 .. N
  BY <1>1
<1> QED
  BY <1>6, <1>7, <1>8 DEF N

\* The observer of quines reports the longest prefix of the hash that the message
\* holds, and nothing if the shortest worth a report does not occur
\* (observer/impls/quine_prefix.rs).
THEOREM LongestIsFound == TextSpec => []LongestPrefixFound
<1>1. LongestPrefixFound
  <2>1. IsLongest(text, Len(Hash), QuinePrefix(text))
    BY LongestIs
  <2>2. MinPrefix \in Nat
    BY LengthAssumption
  <2> QED
    BY <2>1, <2>2 DEF LongestPrefixFound, IsLongest, Hears
<1> QED
  BY <1>1, PTL

-----------------------------------------------------------------------------
(* Recursion along a chain that ends: from p to next[p], which is less in  *)
(* measure m.  F says what to make of the value there, base what there is  *)
(* where no chain goes on.                                                 *)
Chained(D, V, B, m, S, next, F, base) ==
  /\ B \in Nat /\ m \in [D -> Nat] /\ \A p \in D : m[p] < B
  /\ S \in SUBSET D /\ next \in [S -> D] /\ \A p \in S : m[next[p]] < m[p]
  /\ F \in [S -> [V -> V]] /\ base \in [D -> V]

LEMMA RecursionExists ==
  ASSUME NEW D, NEW V, NEW B, NEW m, NEW S, NEW next, NEW F, NEW base,
         Chained(D, V, B, m, S, next, F, base)
  PROVE  \E f \in [D -> V] : \A p \in D : f[p] = IF p \in S THEN F[p][f[next[p]]] ELSE base[p]
<1> USE DEF Chained
<1> DEFINE Dom(n) == {p \in D : m[p] < n}
           Solves(f, n) == /\ f \in [Dom(n) -> V]
                           /\ \A p \in Dom(n) :
                                f[p] = IF p \in S THEN F[p][f[next[p]]] ELSE base[p]
           Bad == {n \in 0 .. B : ~\E f : Solves(f, n)}
<1>1. Bad = {}
  <2> SUFFICES ASSUME Bad # {} PROVE FALSE
    OBVIOUS
  <2>1. PICK n \in Bad : \A k \in Bad : n <= k
    <3>1. Bad \in SUBSET Nat
      OBVIOUS
    <3> HIDE DEF Bad
    <3> QED
      BY <3>1, LeastExists
  <2>2. n \in Nat /\ n \in 0 .. B /\ ~\E f : Solves(f, n)
    <3> HIDE DEF Solves
    <3> QED
      OBVIOUS
  <2>3. CASE n = 0
    <3>1. Dom(0) = {}
      OBVIOUS
    <3>2. Solves([p \in {} |-> p], 0)
      BY <3>1
    <3> QED
      BY <2>2, <2>3, <3>2
  <2>4. CASE n # 0
    <3>1. n - 1 \in 0 .. B /\ n - 1 \in Nat /\ ~(n <= n - 1)
      BY <2>2, <2>4
    <3>2. PICK f : Solves(f, n - 1)
      BY <2>1, <3>1
    <3> DEFINE g == [p \in Dom(n) |-> IF p \in Dom(n - 1) THEN f[p]
                                      ELSE IF p \in S THEN F[p][f[next[p]]] ELSE base[p]]
    <3>3. \A p \in Dom(n) \cap S : next[p] \in Dom(n - 1) /\ next[p] \in Dom(n)
      <4> SUFFICES ASSUME NEW p \in Dom(n) \cap S
                   PROVE  next[p] \in Dom(n - 1) /\ next[p] \in Dom(n)
        OBVIOUS
      <4>1. next[p] \in D /\ m[next[p]] \in Nat /\ m[p] \in Nat /\ m[next[p]] < m[p] /\ m[p] < n
        OBVIOUS
      <4>2. m[next[p]] < n - 1 /\ m[next[p]] < n
        BY <2>2, <4>1
      <4> QED
        BY <4>1, <4>2
    <3>4. \A p \in Dom(n - 1) : p \in Dom(n)
      BY <2>2
    <3>5. \A p \in Dom(n) : g[p] \in V
      <4> SUFFICES ASSUME NEW p \in Dom(n) PROVE g[p] \in V
        OBVIOUS
      <4>1. CASE p \in Dom(n - 1)
        BY <3>2, <4>1
      <4>2. CASE p \notin Dom(n - 1) /\ p \in S
        <5>1. f[next[p]] \in V
          BY <3>2, <3>3, <4>2
        <5>2. F[p] \in [V -> V]
          BY <4>2
        <5> QED
          BY <4>2, <5>1, <5>2
      <4>3. CASE p \notin Dom(n - 1) /\ p \notin S
        BY <4>3
      <4> QED
        BY <4>1, <4>2, <4>3
    <3>6. \A p \in Dom(n) : g[p] = IF p \in S THEN F[p][g[next[p]]] ELSE base[p]
      <4> SUFFICES ASSUME NEW p \in Dom(n)
                   PROVE  g[p] = IF p \in S THEN F[p][g[next[p]]] ELSE base[p]
        OBVIOUS
      <4>1. p \in S => g[next[p]] = f[next[p]]
        BY <3>3
      <4>2. p \in Dom(n - 1) => f[p] = IF p \in S THEN F[p][f[next[p]]] ELSE base[p]
        BY <3>2
      <4>3. g[p] = IF p \in Dom(n - 1) THEN f[p]
                   ELSE IF p \in S THEN F[p][f[next[p]]] ELSE base[p]
        OBVIOUS
      <4> HIDE DEF g, Dom
      <4> QED
        BY <4>1, <4>2, <4>3
    <3>7. g \in [Dom(n) -> V]
      BY <3>5
    <3> HIDE DEF g
    <3> QED
      BY <2>2, <3>6, <3>7
  <2> QED
    BY <2>3, <2>4
<1>2. PICK f : Solves(f, B)
  <2> HIDE DEF Solves
  <2>1. B \in 0 .. B
    OBVIOUS
  <2> QED
    BY <1>1, <2>1
<1>3. Dom(B) = D
  OBVIOUS
<1> QED
  BY <1>2, <1>3

-----------------------------------------------------------------------------
(* What stands at position i of blob s: an ASCII byte, a character of      *)
(* several bytes, or a byte that starts none.                              *)
CharAt(s, i)  == IF s[i] \in Ascii THEN <<s[i]>> ELSE Decoded(s, i).char
LenAt(s, i)   == IF s[i] \in Ascii THEN 1 ELSE Decoded(s, i).len
BlankAt(s, i) == CharAt(s, i) \in Utf8Blank \cup {<<b>> : b \in Blank}
Unit(s, i)    == IF CharAt(s, i) = NoChar THEN <<s[i]>> ELSE CharAt(s, i)

LEMMA Alone == \A x, y : <<x>> = <<y>> => x = y
  OBVIOUS

LEMMA NotAlone == \A x, y : ~(Len(x) > 1 /\ x = <<y>>)
<1>1. \A y : Len(<<y>>) = 1
  OBVIOUS
<1>2. ~(1 > 1)
  OBVIOUS
<1> SUFFICES ASSUME NEW x, NEW y, Len(x) > 1, x = <<y>> PROVE FALSE
  OBVIOUS
<1>3. Len(x) = 1
  BY <1>1
<1> QED
  BY <1>2, <1>3

LEMMA DecodedIs ==
  ASSUME NEW s \in Seq(Bytes), NEW i \in 1 .. Len(s), s[i] \notin Ascii
  PROVE  /\ Decoded(s, i).len \in 1 .. Len(s) + 1 - i
         /\ \/ Decoded(s, i).char = NoChar
            \/ /\ Decoded(s, i).char \in Utf8 /\ Len(Decoded(s, i).char) > 1
               /\ Decoded(s, i).char[1] = s[i]
<1> DEFINE w == Width[s[i]]
           rest == Len(s) - i + 1
           len == IF w < rest THEN w ELSE rest
           bytes == SubSeq(s, i, i + len - 1)
<1>1. /\ Len(s) \in Nat /\ i \in Nat /\ rest \in Nat /\ rest >= 1 /\ s[i] \in Bytes
      /\ DOMAIN s = 1 .. Len(s)
  BY LenProperties, ElementOfSeq
<1>2. s[i] \in DOMAIN Width
  BY <1>1 DEF Bytes
<1>3. w \in Nat
  BY <1>2, Utf8Assumption
<1>4. /\ Decoded(s, i).char = IF w # 0 /\ bytes \in Utf8 THEN bytes ELSE NoChar
      /\ Decoded(s, i).len = IF w # 0 /\ bytes \in Utf8 THEN len ELSE 1
  BY DEF Decoded
<1> HIDE DEF w
<1>5. w # 0 => len \in 1 .. rest /\ len \in Nat
  BY <1>1, <1>3
<1>6. ASSUME w # 0 PROVE bytes[1] = s[i]
  <2> HIDE DEF len
  <2>0. i \in Int /\ i + len - 1 \in Int /\ i + len - 1 <= Len(s) /\ i >= 1 /\ i + len - 1 - i + 1 >= 1
    <3>1. len \in Nat /\ len >= 1 /\ len <= rest
      BY <1>1, <1>5, <1>6
    <3> QED
      BY <1>1, <3>1
  <2>1. \A k \in i .. i + len - 1 : s[k] \in Bytes
    <3>1. \A k \in i .. i + len - 1 : k \in 1 .. Len(s)
      BY <1>1, <2>0
    <3> QED
      BY <3>1, ElementOfSeq
  <2>2. \A k \in 1 .. (i + len - 1) - i + 1 : bytes[k] = s[i + k - 1]
    BY <2>0, <2>1, SubSeqProperties
  <2>3. 1 \in 1 .. (i + len - 1) - i + 1 /\ i + 1 - 1 = i
    <3>1. \A x, y \in Int : y - x + 1 >= 1 => 1 \in 1 .. y - x + 1 /\ x + 1 - 1 = x
      OBVIOUS
    <3>2. (i + len - 1) - i + 1 >= 1
      <4>1. \A x, l \in Int : l >= 1 => (x + l - 1) - x + 1 >= 1
        OBVIOUS
      <4>2. i \in Int /\ len \in Int /\ len >= 1
        BY <1>1, <1>5, <1>6
      <4> QED
        BY <4>1, <4>2
    <3> QED
      BY <2>0, <3>1, <3>2
  <2> HIDE DEF bytes
  <2> QED
    BY <2>2, <2>3
<1> HIDE DEF bytes, len
<1>7. bytes \in Utf8 => Len(bytes) > 1
  BY Utf8Assumption
<1>8. 1 \in 1 .. rest
  BY <1>1
<1>9. rest = Len(s) + 1 - i
  BY <1>1
<1> HIDE DEF rest
<1> QED
  BY <1>4, <1>5, <1>6, <1>7, <1>8, <1>9

LEMMA CharsAre ==
  ASSUME NEW s \in Seq(Bytes), NEW i \in 1 .. Len(s)
  PROVE  /\ LenAt(s, i) \in 1 .. Len(s) + 1 - i
         /\ i + LenAt(s, i) \in 1 .. Len(s) + 1 /\ i < i + LenAt(s, i)
         /\ s[i] \in Ascii => /\ CharAt(s, i) = <<s[i]>> /\ LenAt(s, i) = 1
                              /\ BlankAt(s, i) <=> s[i] \in Blank
         /\ s[i] \notin Ascii => /\ CharAt(s, i) = Decoded(s, i).char
                                 /\ LenAt(s, i) = Decoded(s, i).len
                                 /\ BlankAt(s, i) <=> Decoded(s, i).char \in Utf8Blank
<1>1. /\ Len(s) \in Nat /\ i \in Nat /\ s[i] \in Bytes
  BY LenProperties, ElementOfSeq
<1>2. 1 \in 1 .. Len(s) + 1 - i
  BY <1>1
<1>3. LenAt(s, i) \in 1 .. Len(s) + 1 - i
  BY <1>2, DecodedIs DEF LenAt
<1>4. i + LenAt(s, i) \in 1 .. Len(s) + 1 /\ i < i + LenAt(s, i)
  BY <1>1, <1>3
<1>5. ASSUME s[i] \in Ascii PROVE BlankAt(s, i) <=> s[i] \in Blank
  <2>1. CharAt(s, i) = <<s[i]>> /\ Len(<<s[i]>>) = 1
    BY <1>5 DEF CharAt
  <2>2. <<s[i]>> \notin Utf8Blank
    BY <2>1, Utf8Assumption
  <2>3. <<s[i]>> \in {<<b>> : b \in Blank} <=> s[i] \in Blank
    BY Alone
  <2> QED
    BY <2>1, <2>2, <2>3 DEF BlankAt
<1>6. ASSUME s[i] \notin Ascii PROVE BlankAt(s, i) <=> Decoded(s, i).char \in Utf8Blank
  <2> DEFINE c == Decoded(s, i).char
  <2>1. CharAt(s, i) = c
    BY <1>6 DEF CharAt
  <2>2. c = NoChar \/ Len(c) > 1
    BY <1>6, DecodedIs
  <2> HIDE DEF c
  <2>3. c \notin {<<b>> : b \in Blank}
    <3>2. \A b \in Blank : b \in Ascii
      BY Utf8Assumption
    <3>3. NoChar \notin {<<b>> : b \in Blank}
      BY <3>2, Utf8Assumption
    <3>4. Len(c) > 1 => \A b : c # <<b>>
      BY NotAlone
    <3> QED
      BY <2>2, <3>3, <3>4
  <2> QED
    BY <2>1, <2>3 DEF BlankAt, c
<1> QED
  BY <1>3, <1>4, <1>5, <1>6 DEF CharAt, LenAt

\* Two positions compare equal as the loop compares them exactly when they have
\* the same unit of text.
LEMMA UnitsCompare ==
  ASSUME NEW a \in Seq(Bytes), NEW i \in 1 .. Len(a),
         NEW b \in Seq(Bytes), NEW j \in 1 .. Len(b)
  PROVE  Unit(a, i) = Unit(b, j) <=>
           \/ a[i] \in Ascii /\ b[j] \in Ascii /\ a[i] = b[j]
           \/ /\ a[i] \notin Ascii /\ b[j] \notin Ascii
              /\ Decoded(a, i).char = Decoded(b, j).char
              /\ Decoded(a, i).char = NoChar => a[i] = b[j]
<1> DEFINE A == a[i]
           B == b[j]
           c == Decoded(a, i).char
           d == Decoded(b, j).char
           Wide(x, s) == Len(x) > 1 /\ x[1] = s
<1>1. A \in Bytes /\ B \in Bytes
  BY ElementOfSeq
<1>2. \A x : Len(<<x>>) = 1 /\ <<x>>[1] = x
  OBVIOUS
<1>3. A \in Ascii => NoChar # <<A>>
  BY <1>1, Utf8Assumption DEF Bytes
<1>4. B \in Ascii => NoChar # <<B>>
  BY <1>1, Utf8Assumption DEF Bytes
<1>5. A \notin Ascii => c = NoChar \/ (c # NoChar /\ Wide(c, A))
  BY DecodedIs, Utf8Assumption
<1>6. B \notin Ascii => d = NoChar \/ (d # NoChar /\ Wide(d, B))
  BY DecodedIs, Utf8Assumption
<1>7. Unit(a, i) = IF A \in Ascii \/ c = NoChar THEN <<A>> ELSE c
  BY <1>3 DEF Unit, CharAt
<1>8. Unit(b, j) = IF B \in Ascii \/ d = NoChar THEN <<B>> ELSE d
  BY <1>4 DEF Unit, CharAt
<1>9. \A x, y : ~(Len(x) > 1 /\ x = <<y>>)
  BY NotAlone
<1>10. \A x, y : <<x>> = <<y>> => x = y
  BY Alone
<1> HIDE DEF A, B, c, d
<1>11. CASE A \in Ascii /\ B \in Ascii
  BY <1>7, <1>8, <1>10, <1>11 DEF A, B
<1>12. CASE A \in Ascii /\ B \notin Ascii
  <2>1. CASE d = NoChar
    BY <1>7, <1>8, <1>10, <1>12, <2>1 DEF A, B
  <2>2. CASE d # NoChar
    BY <1>6, <1>7, <1>8, <1>9, <1>12, <2>2 DEF A, B
  <2> QED
    BY <2>1, <2>2
<1>13. CASE A \notin Ascii /\ B \in Ascii
  <2>1. CASE c = NoChar
    BY <1>7, <1>8, <1>10, <1>13, <2>1 DEF A, B
  <2>2. CASE c # NoChar
    BY <1>5, <1>7, <1>8, <1>9, <1>13, <2>2 DEF A, B
  <2> QED
    BY <2>1, <2>2
<1>14. CASE A \notin Ascii /\ B \notin Ascii
  <2>1. CASE c = NoChar /\ d = NoChar
    BY <1>7, <1>8, <1>10, <1>14, <2>1 DEF A, B, c, d
  <2>2. CASE c = NoChar /\ d # NoChar
    BY <1>6, <1>7, <1>8, <1>9, <1>14, <2>2 DEF A, B, c, d
  <2>3. CASE c # NoChar /\ d = NoChar
    BY <1>5, <1>7, <1>8, <1>9, <1>14, <2>3 DEF A, B, c, d
  <2>4. CASE c # NoChar /\ d # NoChar
    BY <1>7, <1>8, <1>14, <2>4 DEF A, B, c, d
  <2> QED
    BY <2>1, <2>2, <2>3, <2>4
<1> QED
  BY <1>11, <1>12, <1>13, <1>14

-----------------------------------------------------------------------------
(* The three loops, unfolded once.                                         *)
SkipLoop(s) ==
  CHOOSE from : from = [k \in 1 .. Len(s) + 1 |->
    IF k > Len(s) THEN k
    ELSE IF s[k] \in Ascii THEN IF s[k] \in Blank THEN from[k + 1] ELSE k
    ELSE IF Decoded(s, k).char \in Utf8Blank THEN from[k + Decoded(s, k).len] ELSE k]

LEMMA SkipUnfolds ==
  ASSUME NEW s \in Seq(Bytes)
  PROVE  \A k \in 1 .. Len(s) + 1 :
           Skip(s, k) = IF k <= Len(s) /\ BlankAt(s, k) THEN Skip(s, k + LenAt(s, k)) ELSE k
<1> DEFINE N == Len(s)
           D == 1 .. N + 1
           S == {k \in 1 .. N : BlankAt(s, k)}
           measure == [k \in D |-> N + 1 - k]
           next == [k \in S |-> k + LenAt(s, k)]
           F == [k \in S |-> [v \in D |-> v]]
           base == [k \in D |-> k]
           Body(f, k) ==
             IF k > Len(s) THEN k
             ELSE IF s[k] \in Ascii THEN IF s[k] \in Blank THEN f[k + 1] ELSE k
             ELSE IF Decoded(s, k).char \in Utf8Blank THEN f[k + Decoded(s, k).len] ELSE k
<1>1. N \in Nat
  BY LenProperties
<1>2. \A k \in 1 .. N : k \in D /\ k + LenAt(s, k) \in D /\ k < k + LenAt(s, k)
  BY <1>1, CharsAre
<1>3. ASSUME NEW f, NEW k \in D
      PROVE  Body(f, k) = IF k \in S THEN f[k + LenAt(s, k)] ELSE k
  <2>1. CASE k > N
    <3>1. k \notin 1 .. N
      BY <1>1, <2>1
    <3> QED
      BY <2>1, <3>1
  <2>2. CASE ~(k > N)
    <3>1. k \in 1 .. N
      BY <1>1, <2>2
    <3>2. CASE s[k] \in Ascii
      <4>1. (BlankAt(s, k) <=> s[k] \in Blank) /\ LenAt(s, k) = 1
        BY <3>1, <3>2, CharsAre
      <4> QED
        BY <2>2, <3>1, <3>2, <4>1
    <3>3. CASE s[k] \notin Ascii
      <4>1. /\ BlankAt(s, k) <=> Decoded(s, k).char \in Utf8Blank
            /\ LenAt(s, k) = Decoded(s, k).len
        BY <3>1, <3>3, CharsAre
      <4> QED
        BY <2>2, <3>1, <3>3, <4>1
    <3> QED
      BY <3>2, <3>3
  <2> QED
    BY <2>1, <2>2
<1>4. PICK f \in [D -> D] : \A k \in D : f[k] = IF k \in S THEN F[k][f[next[k]]] ELSE base[k]
  <2>1. \A k \in S : next[k] \in D /\ k < next[k] /\ k \in D
    BY <1>2
  <2>2. /\ N + 2 \in Nat /\ measure \in [D -> Nat] /\ \A k \in D : measure[k] < N + 2
        /\ S \in SUBSET D /\ base \in [D -> D] /\ F \in [S -> [D -> D]] /\ next \in [S -> D]
    <3>1. measure \in [D -> Nat] /\ \A k \in D : measure[k] < N + 2
      BY <1>1
    <3>2. base \in [D -> D] /\ F \in [S -> [D -> D]]
      OBVIOUS
    <3> HIDE DEF D, S, measure
    <3>3. next \in [S -> D]
      BY <2>1
    <3>4. S \in SUBSET D
      BY <2>1
    <3> QED
      BY <1>1, <3>1, <3>2, <3>3, <3>4
  <2>3. \A k \in S : measure[next[k]] < measure[k]
    <3> SUFFICES ASSUME NEW k \in S PROVE measure[next[k]] < measure[k]
      OBVIOUS
    <3>1. next[k] \in D /\ k \in D /\ k < next[k]
      BY <2>1
    <3> HIDE DEF next, S
    <3> QED
      BY <1>1, <3>1
  <2> HIDE DEF D, S, measure, next, F, base
  <2>4. Chained(D, D, N + 2, measure, S, next, F, base)
    BY <2>2, <2>3 DEF Chained
  <2> QED
    BY <2>4, RecursionExists
<1>5. f = [k \in D |-> Body(f, k)]
  <2>1. \A k \in D : f[k] = Body(f, k)
    <3> SUFFICES ASSUME NEW k \in D PROVE f[k] = Body(f, k)
      OBVIOUS
    <3>1. CASE k \in S
      <4>1. next[k] = k + LenAt(s, k) /\ next[k] \in D
        BY <1>2, <3>1
      <4>2. f[k] = F[k][f[next[k]]] /\ f[next[k]] \in D
        BY <1>4, <3>1, <4>1
      <4>3. F[k][f[next[k]]] = f[next[k]]
        BY <3>1, <4>2
      <4> HIDE DEF Body, S, F, next
      <4> QED
        BY <1>3, <3>1, <4>1, <4>2, <4>3
    <3>2. CASE k \notin S
      <4>1. f[k] = k
        BY <1>4, <3>2
      <4> HIDE DEF Body, S
      <4> QED
        BY <1>3, <3>2, <4>1
    <3> QED
      BY <3>1, <3>2
  <2>2. f = [k \in D |-> f[k]]
    OBVIOUS
  <2> HIDE DEF Body, D
  <2> QED
    BY <2>1, <2>2
<1> DEFINE loop == SkipLoop(s)
<1>6. loop = [k \in D |-> Body(loop, k)]
  BY <1>5 DEF SkipLoop
<1>7. \A k : Skip(s, k) = loop[k]
  BY DEF Skip, SkipLoop
<1> HIDE DEF loop
<1>8. ASSUME NEW k \in D
      PROVE  loop[k] = IF k \in S THEN loop[k + LenAt(s, k)] ELSE k
  <2>1. loop[k] = Body(loop, k)
    <3> HIDE DEF Body, D
    <3> QED
      BY <1>6
  <2> HIDE DEF Body, D, S
  <2> QED
    BY <1>3, <2>1
<1>9. \A k \in D : k \in S <=> k <= Len(s) /\ BlankAt(s, k)
  BY <1>1
<1> HIDE DEF S
<1> QED
  BY <1>7, <1>8, <1>9

\* A list that begins with something, if it goes on as a list.
Onto(x, p) == <<x>> \o p

LEMMA Led ==
  ASSUME NEW T, NEW x \in T, NEW y \in T, NEW p \in Seq(T), NEW q \in Seq(T)
  PROVE  /\ <<x>> \o p \in Seq(T) /\ <<x>> \o p # <<>>
         /\ Onto(x, p) = Onto(y, q) => x = y /\ p = q
<1>1. <<x>> \in Seq(T) /\ <<y>> \in Seq(T) /\ Len(<<x>>) = 1 /\ Len(<<y>>) = 1
      /\ <<x>>[1] = x /\ <<y>>[1] = y
  OBVIOUS
<1> DEFINE u == <<x>>
           v == <<y>>
<1> HIDE DEF u, v
<1>2. /\ u \o p \in Seq(T) /\ Len(u \o p) = 1 + Len(p)
      /\ \A i \in 1 .. Len(u) + Len(p) : (u \o p)[i] = IF i <= Len(u) THEN u[i] ELSE p[i - Len(u)]
  BY <1>1, ConcatProperties DEF u
<1>3. /\ v \o q \in Seq(T) /\ Len(v \o q) = 1 + Len(q)
      /\ \A i \in 1 .. Len(v) + Len(q) : (v \o q)[i] = IF i <= Len(v) THEN v[i] ELSE q[i - Len(v)]
  BY <1>1, ConcatProperties DEF v
<1>4. Len(p) \in Nat /\ Len(q) \in Nat
  BY LenProperties
<1>5. u \o p # <<>>
  <2>1. Len(u \o p) # 0
    BY <1>2, <1>4
  <2> QED
    BY <1>2, <2>1, EmptySeq
<1>6. ASSUME u \o p = v \o q PROVE x = y /\ p = q
  <2>1. Len(p) = Len(q)
    BY <1>2, <1>3, <1>4, <1>6
  <2>2. x = y
    <3>1. 1 \in 1 .. Len(u) + Len(p) /\ 1 \in 1 .. Len(v) + Len(q) /\ 1 <= Len(u) /\ 1 <= Len(v)
      BY <1>1, <1>4 DEF u, v
    <3>2. (u \o p)[1] = u[1] /\ (v \o q)[1] = v[1]
      BY <1>2, <1>3, <3>1
    <3> QED
      BY <1>1, <1>6, <3>2 DEF u, v
  <2>3. \A i \in 1 .. Len(p) : p[i] = q[i]
    <3> SUFFICES ASSUME NEW i \in 1 .. Len(p) PROVE p[i] = q[i]
      OBVIOUS
    <3>1. Len(u) = 1 /\ Len(v) = 1
      BY <1>1 DEF u, v
    <3>2. i + 1 \in 1 .. Len(u) + Len(p) /\ ~(i + 1 <= Len(u)) /\ i + 1 - Len(u) = i
      BY <1>4, <3>1
    <3>3. i + 1 \in 1 .. Len(v) + Len(q) /\ ~(i + 1 <= Len(v)) /\ i + 1 - Len(v) = i
      BY <1>4, <2>1, <3>1
    <3>4. (u \o p)[i + 1] = p[i]
      BY <1>2, <3>2
    <3>5. (v \o q)[i + 1] = q[i]
      BY <1>3, <3>3
    <3> QED
      BY <1>6, <3>4, <3>5
  <2>4. p = q
    BY <2>1, <2>3, SeqEqual
  <2> QED
    BY <2>2, <2>4
<1> QED
  BY <1>2, <1>5, <1>6 DEF u, v, Onto

LEMMA EssenceUnfolds ==
  ASSUME NEW s \in Seq(Bytes), NEW T, \A i \in 1 .. Len(s) : Unit(s, i) \in T
  PROVE  \A k \in 1 .. Len(s) + 1 :
           /\ EssenceFrom(s)[k] \in Seq(T)
           /\ EssenceFrom(s)[k] =
                IF k > Len(s) THEN <<>>
                ELSE IF BlankAt(s, k) THEN EssenceFrom(s)[k + LenAt(s, k)]
                ELSE <<Unit(s, k)>> \o EssenceFrom(s)[k + LenAt(s, k)]
<1> DEFINE N == Len(s)
           D == 1 .. N + 1
           S == 1 .. N
           V == Seq(T)
           measure == [k \in D |-> N + 1 - k]
           next == [k \in S |-> k + LenAt(s, k)]
           F == [k \in S |-> [v \in V |-> IF BlankAt(s, k) THEN v ELSE <<Unit(s, k)>> \o v]]
           base == [k \in D |-> <<>>]
           Body(f, k) ==
             IF k > Len(s) THEN <<>>
             ELSE LET c == IF s[k] \in Ascii THEN [char |-> <<s[k]>>, len |-> 1] ELSE Decoded(s, k)
                      rest == f[k + c.len]
                  IN  IF c.char \in Utf8Blank \cup {<<b>> : b \in Blank} THEN rest
                      ELSE <<IF c.char = NoChar THEN <<s[k]>> ELSE c.char>> \o rest
           Plain(f, k) == IF k > Len(s) THEN <<>>
                          ELSE IF BlankAt(s, k) THEN f[k + LenAt(s, k)]
                          ELSE <<Unit(s, k)>> \o f[k + LenAt(s, k)]
<1>1. N \in Nat
  BY LenProperties
<1>2. \A k \in S : k \in D /\ k + LenAt(s, k) \in D /\ k < k + LenAt(s, k)
  BY <1>1, CharsAre
<1>3. \A k \in D : k \in S <=> ~(k > Len(s))
  BY <1>1
<1>4. ASSUME NEW f, NEW k \in D PROVE Body(f, k) = Plain(f, k)
  <2>1. CASE k > N
    BY <2>1
  <2>2. CASE ~(k > N) /\ s[k] \in Ascii
    BY <2>2 DEF BlankAt, CharAt, LenAt, Unit
  <2>3. CASE ~(k > N) /\ s[k] \notin Ascii
    BY <2>3 DEF BlankAt, CharAt, LenAt, Unit
  <2> QED
    BY <2>1, <2>2, <2>3
<1>5. \A k \in S : \A v \in V : <<Unit(s, k)>> \o v \in V
  <2> SUFFICES ASSUME NEW k \in S, NEW v \in V PROVE <<Unit(s, k)>> \o v \in V
    OBVIOUS
  <2>1. Unit(s, k) \in T
    OBVIOUS
  <2> QED
    BY <2>1, Led
<1>6. PICK f \in [D -> V] : \A k \in D : f[k] = IF k \in S THEN F[k][f[next[k]]] ELSE base[k]
  <2>1. \A k \in S : next[k] \in D /\ k < next[k] /\ k \in D
    BY <1>2
  <2>2. measure \in [D -> Nat] /\ \A k \in D : measure[k] < N + 2
    BY <1>1
  <2>3. base \in [D -> V]
    <3>1. <<>> \in V
      BY EmptySeq
    <3> HIDE DEF V
    <3> QED
      BY <3>1
  <2>4. F \in [S -> [V -> V]]
    <3> HIDE DEF S, V
    <3> QED
      BY <1>5
  <2>5. next \in [S -> D] /\ S \in SUBSET D
    <3> HIDE DEF S, D
    <3> QED
      BY <2>1
  <2>6. \A k \in S : measure[next[k]] < measure[k]
    <3> SUFFICES ASSUME NEW k \in S PROVE measure[next[k]] < measure[k]
      OBVIOUS
    <3>1. next[k] \in D /\ k \in D /\ k < next[k]
      BY <2>1
    <3> HIDE DEF next, S
    <3> QED
      BY <1>1, <3>1
  <2>7. N + 2 \in Nat
    BY <1>1
  <2> HIDE DEF D, S, V, N, measure, next, F, base
  <2>8. Chained(D, V, N + 2, measure, S, next, F, base)
    BY <2>2, <2>3, <2>4, <2>5, <2>6, <2>7 DEF Chained
  <2> QED
    BY <2>8, RecursionExists
<1>7. f = [k \in D |-> Body(f, k)]
  <2>1. \A k \in D : f[k] = Body(f, k)
    <3> SUFFICES ASSUME NEW k \in D PROVE f[k] = Plain(f, k)
      <4> HIDE DEF Body, Plain, D
      <4> QED
        BY <1>4
    <3>1. CASE k \in S
      <4>1. next[k] = k + LenAt(s, k) /\ next[k] \in D
        BY <1>2, <3>1
      <4>2. f[k] = F[k][f[next[k]]] /\ f[next[k]] \in V
        BY <1>6, <3>1, <4>1
      <4>3. F[k][f[next[k]]] = IF BlankAt(s, k) THEN f[next[k]] ELSE <<Unit(s, k)>> \o f[next[k]]
        <5> HIDE DEF V, S, next
        <5> QED
          BY <3>1, <4>2
      <4>4. ~(k > Len(s))
        BY <1>3, <3>1
      <4> HIDE DEF S, F, next, D, V
      <4> QED
        BY <4>1, <4>2, <4>3, <4>4
    <3>2. CASE k \notin S
      <4>1. k > Len(s)
        BY <1>3, <3>2
      <4>2. f[k] = <<>>
        BY <1>6, <3>2
      <4> QED
        BY <4>1, <4>2
    <3> QED
      BY <3>1, <3>2
  <2>2. f = [k \in D |-> f[k]]
    OBVIOUS
  <2> HIDE DEF Body, D
  <2> QED
    BY <2>1, <2>2
<1> DEFINE loop == EssenceFrom(s)
<1>8. loop = [k \in D |-> Body(loop, k)]
  BY <1>7 DEF EssenceFrom
<1> HIDE DEF loop
<1>9. \A k \in D : loop[k] = Plain(loop, k)
  <2> HIDE DEF Body, Plain, D
  <2> QED
    BY <1>4, <1>8
<1>10. \A k \in D : loop[k] \in V
  <2> DEFINE Bad == {k \in D : loop[k] \notin V}
  <2> SUFFICES ASSUME Bad # {} PROVE FALSE
    OBVIOUS
  <2>1. PICK k \in Bad : \A j \in Bad : j <= k
    <3>1. Bad \in SUBSET (1 .. N + 1)
      OBVIOUS
    <3>2. N + 1 \in Nat
      BY <1>1
    <3> HIDE DEF Bad
    <3> QED
      BY <3>1, <3>2, LastExists
  <2>2. k \in D /\ loop[k] \notin V /\ loop[k] = Plain(loop, k)
    BY <1>9
  <2>3. CASE k > Len(s)
    BY <2>2, <2>3, EmptySeq
  <2>4. CASE ~(k > Len(s))
    <3>1. k \in S
      BY <1>3, <2>2, <2>4
    <3>2. k + LenAt(s, k) \in D /\ k < k + LenAt(s, k) /\ k \in Nat
      BY <1>2, <3>1
    <3> DEFINE r == loop[k + LenAt(s, k)]
    <3>3. r \in V
      <4>1. k + LenAt(s, k) \in Nat /\ ~(k + LenAt(s, k) <= k)
        BY <1>1, <3>2
      <4> QED
        BY <2>1, <3>2, <4>1
    <3> HIDE DEF r
    <3>4. <<Unit(s, k)>> \o r \in V
      BY <1>5, <3>1, <3>3
    <3>5. loop[k] = IF BlankAt(s, k) THEN r ELSE <<Unit(s, k)>> \o r
      BY <2>2, <2>4 DEF r
    <3> HIDE DEF V
    <3> QED
      BY <2>2, <3>3, <3>4, <3>5
  <2> QED
    BY <2>3, <2>4
<1> QED
  BY <1>9, <1>10 DEF loop

\* Skipping stays in the blob, leaves out nothing but blanks, and leaves out all of them.
LEMMA SkipIs ==
  ASSUME NEW s \in Seq(Bytes)
  PROVE  \A k \in 1 .. Len(s) + 1 :
           /\ Skip(s, k) \in 1 .. Len(s) + 1 /\ k <= Skip(s, k)
           /\ EssenceFrom(s)[k] = EssenceFrom(s)[Skip(s, k)]
           /\ Skip(s, k) <= Len(s) => ~BlankAt(s, Skip(s, k))
<1> DEFINE N == Len(s)
           D == 1 .. N + 1
           E == EssenceFrom(s)
           T == {Unit(s, i) : i \in 1 .. N}
           Fine(k) == /\ Skip(s, k) \in D /\ k <= Skip(s, k)
                      /\ E[k] = E[Skip(s, k)]
                      /\ Skip(s, k) <= Len(s) => ~BlankAt(s, Skip(s, k))
           Bad == {k \in D : ~Fine(k)}
<1> SUFFICES ASSUME Bad # {} PROVE FALSE
  OBVIOUS
<1>1. N \in Nat
  BY LenProperties
<1>2. PICK k \in Bad : \A j \in Bad : j <= k
  <2>1. Bad \in SUBSET (1 .. N + 1)
    OBVIOUS
  <2>2. N + 1 \in Nat
    BY <1>1
  <2> HIDE DEF Bad
  <2> QED
    BY <2>1, <2>2, LastExists
<1>3. k \in D /\ ~Fine(k) /\ k \in Nat /\ k <= k
  BY <1>1
<1>4. \A i \in 1 .. Len(s) : Unit(s, i) \in T
  OBVIOUS
<1>5. E[k] = IF k > Len(s) THEN <<>>
             ELSE IF BlankAt(s, k) THEN E[k + LenAt(s, k)]
             ELSE <<Unit(s, k)>> \o E[k + LenAt(s, k)]
  <2> HIDE DEF T, Fine, Bad
  <2> QED
    BY <1>3, <1>4, EssenceUnfolds
<1>6. Skip(s, k) = IF k <= Len(s) /\ BlankAt(s, k) THEN Skip(s, k + LenAt(s, k)) ELSE k
  BY <1>3, SkipUnfolds
<1>7. CASE ~(k <= Len(s) /\ BlankAt(s, k))
  <2>1. Skip(s, k) = k
    BY <1>6, <1>7
  <2> HIDE DEF E
  <2> QED
    BY <1>3, <1>7, <2>1
<1>8. CASE k <= Len(s) /\ BlankAt(s, k)
  <2> DEFINE j == k + LenAt(s, k)
  <2>1. j \in D /\ k < j /\ ~(j <= k) /\ ~(k > Len(s)) /\ j \in Nat
    <3>1. k \in 1 .. Len(s)
      BY <1>1, <1>3, <1>8
    <3>2. j \in D /\ k < j
      BY <1>1, <3>1, CharsAre
    <3> HIDE DEF j
    <3> QED
      BY <1>1, <1>3, <1>8, <3>2
  <2> HIDE DEF j
  <2>2. Fine(j)
    BY <1>2, <2>1
  <2>3. E[k] = E[j] /\ Skip(s, k) = Skip(s, j)
    BY <1>5, <1>6, <1>8, <2>1 DEF j
  <2>4. k <= Skip(s, j)
    BY <1>1, <1>3, <2>1, <2>2
  <2> HIDE DEF E, D
  <2>5. Fine(k)
    BY <2>2, <2>3, <2>4
  <2> QED
    BY <1>3, <2>5
<1> QED
  BY <1>7, <1>8

SameLoop(a, b) ==
  CHOOSE same : same = [ij \in (1 .. Len(a) + 1) \X (1 .. Len(b) + 1) |->
    LET ai == Skip(a, ij[1])
        bi == Skip(b, ij[2])
    IN  IF ai > Len(a) \/ bi > Len(b) THEN ai > Len(a) /\ bi > Len(b)
        ELSE IF a[ai] \in Ascii /\ b[bi] \in Ascii
             THEN a[ai] = b[bi] /\ same[<<ai + 1, bi + 1>>]
        ELSE IF a[ai] \in Ascii \/ b[bi] \in Ascii THEN FALSE
        ELSE LET ac == Decoded(a, ai)
                 bc == Decoded(b, bi)
             IN  /\ ac.char = bc.char
                 /\ ac.char = NoChar => a[ai] = b[bi]
                 /\ same[<<ai + ac.len, bi + bc.len>>]]

LEMMA SameUnfolds ==
  ASSUME NEW a \in Seq(Bytes), NEW b \in Seq(Bytes)
  PROVE  /\ IsEqualIgnoringWhitespace(a, b) = SameLoop(a, b)[<<1, 1>>]
         /\ \A i \in 1 .. Len(a) + 1, j \in 1 .. Len(b) + 1 :
              SameLoop(a, b)[<<i, j>>] <=>
                LET x == Skip(a, i)
                    y == Skip(b, j)
                IN  IF x > Len(a) \/ y > Len(b) THEN x > Len(a) /\ y > Len(b)
                    ELSE /\ Unit(a, x) = Unit(b, y)
                         /\ SameLoop(a, b)[<<x + LenAt(a, x), y + LenAt(b, y)>>]
<1> DEFINE M == Len(a)
           N == Len(b)
           DA == 1 .. M + 1
           DB == 1 .. N + 1
           D == DA \X DB
           X(p) == Skip(a, p[1])
           Y(p) == Skip(b, p[2])
           Onward(p) == <<X(p) + LenAt(a, X(p)), Y(p) + LenAt(b, Y(p))>>
           Over(p) == X(p) > M \/ Y(p) > N
           S == {p \in D : ~Over(p) /\ Unit(a, X(p)) = Unit(b, Y(p))}
           measure == [p \in D |-> (M + 1 - p[1]) + (N + 1 - p[2])]
           next == [p \in S |-> Onward(p)]
           F == [p \in S |-> [v \in BOOLEAN |-> v]]
           base == [p \in D |-> X(p) > M /\ Y(p) > N]
           Body(f, p) ==
             LET ai == Skip(a, p[1])
                 bi == Skip(b, p[2])
             IN  IF ai > Len(a) \/ bi > Len(b) THEN ai > Len(a) /\ bi > Len(b)
                 ELSE IF a[ai] \in Ascii /\ b[bi] \in Ascii
                      THEN a[ai] = b[bi] /\ f[<<ai + 1, bi + 1>>]
                 ELSE IF a[ai] \in Ascii \/ b[bi] \in Ascii THEN FALSE
                 ELSE LET ac == Decoded(a, ai)
                          bc == Decoded(b, bi)
                      IN  /\ ac.char = bc.char
                          /\ ac.char = NoChar => a[ai] = b[bi]
                          /\ f[<<ai + ac.len, bi + bc.len>>]
           Plain(f, p) == IF Over(p) THEN X(p) > M /\ Y(p) > N
                          ELSE Unit(a, X(p)) = Unit(b, Y(p)) /\ f[Onward(p)]
<1>1. M \in Nat /\ N \in Nat
  BY LenProperties
<1>2. ASSUME NEW p \in D
      PROVE  /\ p[1] \in DA /\ p[2] \in DB /\ p = <<p[1], p[2]>>
             /\ X(p) \in DA /\ p[1] <= X(p) /\ Y(p) \in DB /\ p[2] <= Y(p)
             /\ ~Over(p) => X(p) \in 1 .. M /\ Y(p) \in 1 .. N
  <2>1. p[1] \in DA /\ p[2] \in DB /\ p = <<p[1], p[2]>>
    OBVIOUS
  <2>2. X(p) \in DA /\ p[1] <= X(p)
    BY <2>1, SkipIs
  <2>3. Y(p) \in DB /\ p[2] <= Y(p)
    BY <2>1, SkipIs
  <2>4. ~Over(p) => X(p) \in 1 .. M /\ Y(p) \in 1 .. N
    BY <1>1, <2>2, <2>3
  <2> QED
    BY <2>1, <2>2, <2>3, <2>4
<1> HIDE DEF X, Y
<1>3. ASSUME NEW p \in D, ~Over(p)
      PROVE  /\ Onward(p) \in D /\ p[1] < Onward(p)[1] /\ p[2] < Onward(p)[2]
  <2>1. X(p) \in 1 .. M /\ Y(p) \in 1 .. N
    BY <1>2, <1>3
  <2>2. X(p) + LenAt(a, X(p)) \in DA /\ X(p) < X(p) + LenAt(a, X(p))
    BY <2>1, CharsAre
  <2>3. Y(p) + LenAt(b, Y(p)) \in DB /\ Y(p) < Y(p) + LenAt(b, Y(p))
    BY <2>1, CharsAre
  <2>4. p[1] \in Nat /\ p[2] \in Nat /\ p[1] <= X(p) /\ p[2] <= Y(p)
    BY <1>2
  <2>5. p[1] < X(p) + LenAt(a, X(p)) /\ p[2] < Y(p) + LenAt(b, Y(p))
    BY <1>1, <2>1, <2>2, <2>3, <2>4
  <2> QED
    BY <2>2, <2>3, <2>5
<1>4. ASSUME NEW f, NEW p \in D PROVE Body(f, p) <=> Plain(f, p)
  <2> DEFINE x == X(p)
             y == Y(p)
  <2>1. CASE Over(p)
    BY <2>1 DEF X, Y
  <2>2. CASE ~Over(p)
    <3>1. x \in 1 .. M /\ y \in 1 .. N
      BY <1>2, <2>2
    <3> HIDE DEF x, y
    <3>2. Unit(a, x) = Unit(b, y) <=>
           \/ a[x] \in Ascii /\ b[y] \in Ascii /\ a[x] = b[y]
           \/ /\ a[x] \notin Ascii /\ b[y] \notin Ascii
              /\ Decoded(a, x).char = Decoded(b, y).char
              /\ Decoded(a, x).char = NoChar => a[x] = b[y]
      BY <3>1, UnitsCompare
    <3>3. /\ LenAt(a, x) = IF a[x] \in Ascii THEN 1 ELSE Decoded(a, x).len
          /\ LenAt(b, y) = IF b[y] \in Ascii THEN 1 ELSE Decoded(b, y).len
      BY DEF LenAt
    <3>4. Plain(f, p) <=> Unit(a, x) = Unit(b, y) /\ f[<<x + LenAt(a, x), y + LenAt(b, y)>>]
      BY <2>2 DEF x, y
    <3>5. Body(f, p) <=>
            IF a[x] \in Ascii /\ b[y] \in Ascii
            THEN a[x] = b[y] /\ f[<<x + 1, y + 1>>]
            ELSE IF a[x] \in Ascii \/ b[y] \in Ascii THEN FALSE
            ELSE /\ Decoded(a, x).char = Decoded(b, y).char
                 /\ Decoded(a, x).char = NoChar => a[x] = b[y]
                 /\ f[<<x + Decoded(a, x).len, y + Decoded(b, y).len>>]
      BY <2>2 DEF x, y, X, Y
    <3> HIDE DEF Plain, Body
    <3>6. CASE a[x] \in Ascii /\ b[y] \in Ascii
      BY <3>2, <3>3, <3>4, <3>5, <3>6
    <3>7. CASE a[x] \notin Ascii /\ b[y] \notin Ascii
      BY <3>2, <3>3, <3>4, <3>5, <3>7
    <3>8. CASE ~(a[x] \in Ascii <=> b[y] \in Ascii)
      BY <3>2, <3>4, <3>5, <3>8
    <3> QED
      BY <3>6, <3>7, <3>8
  <2> QED
    BY <2>1, <2>2
<1>5. PICK f \in [D -> BOOLEAN] :
        \A p \in D : f[p] = IF p \in S THEN F[p][f[next[p]]] ELSE base[p]
  <2>1. \A p \in S : p \in D /\ next[p] \in D /\ p[1] < next[p][1] /\ p[2] < next[p][2]
    <3> SUFFICES ASSUME NEW p \in S
                 PROVE  p \in D /\ next[p] \in D /\ p[1] < next[p][1] /\ p[2] < next[p][2]
      OBVIOUS
    <3>1. p \in D /\ ~Over(p) /\ next[p] = Onward(p)
      OBVIOUS
    <3> HIDE DEF next, S, D, Onward, Over
    <3> QED
      BY <1>3, <3>1
  <2>2. \A p \in D : /\ p[1] \in Nat /\ p[1] <= M + 1 /\ p[1] >= 1
                     /\ p[2] \in Nat /\ p[2] <= N + 1 /\ p[2] >= 1
    <3> SUFFICES ASSUME NEW p \in D
                 PROVE  /\ p[1] \in Nat /\ p[1] <= M + 1 /\ p[1] >= 1
                        /\ p[2] \in Nat /\ p[2] <= N + 1 /\ p[2] >= 1
      OBVIOUS
    <3>1. p[1] \in DA /\ p[2] \in DB
      OBVIOUS
    <3> QED
      BY <1>1, <3>1
  <2> HIDE DEF D
  <2>3. measure \in [D -> Nat] /\ \A p \in D : measure[p] < M + N + 1
    <3>1. \A p \in D : /\ (M + 1 - p[1]) + (N + 1 - p[2]) \in Nat
                       /\ (M + 1 - p[1]) + (N + 1 - p[2]) < M + N + 1
      BY <1>1, <2>2
    <3> QED
      BY <3>1
  <2>4. \A p \in S : measure[next[p]] < measure[p]
    <3> SUFFICES ASSUME NEW p \in S PROVE measure[next[p]] < measure[p]
      OBVIOUS
    <3> DEFINE q == next[p]
    <3>1. p \in D /\ q \in D /\ p[1] < q[1] /\ p[2] < q[2]
      BY <2>1
    <3> HIDE DEF q, next, S
    <3>2. measure[q] = (M + 1 - q[1]) + (N + 1 - q[2]) /\ measure[p] = (M + 1 - p[1]) + (N + 1 - p[2])
      BY <3>1
    <3>3. /\ p[1] \in Nat /\ p[2] \in Nat /\ q[1] \in Nat /\ q[2] \in Nat
      BY <2>2, <3>1
    <3> HIDE DEF measure
    <3>4. \A k, l, c, d, x, y \in Int :
            c < x /\ d < y => (k + 1 - x) + (l + 1 - y) < (k + 1 - c) + (l + 1 - d)
      OBVIOUS
    <3>5. measure[q] < measure[p]
      <4>1. M \in Int /\ N \in Int /\ p[1] \in Int /\ p[2] \in Int /\ q[1] \in Int /\ q[2] \in Int
        BY <1>1, <3>3
      <4> HIDE DEF M, N
      <4>2. (M + 1 - q[1]) + (N + 1 - q[2]) < (M + 1 - p[1]) + (N + 1 - p[2])
        BY <3>1, <3>4, <4>1
      <4> QED
        BY <3>2, <4>2
    <3> QED
      BY <3>5 DEF q
  <2>5. next \in [S -> D] /\ S \in SUBSET D
    <3>1. S \in SUBSET D
      OBVIOUS
    <3> HIDE DEF S, Onward
    <3> QED
      BY <2>1, <3>1
  <2>6. F \in [S -> [BOOLEAN -> BOOLEAN]]
    <3> HIDE DEF S
    <3> QED
      OBVIOUS
  <2>7. base \in [D -> BOOLEAN]
    OBVIOUS
  <2>8. M + N + 1 \in Nat
    BY <1>1
  <2> HIDE DEF S, measure, next, F, base
  <2>9. Chained(D, BOOLEAN, M + N + 1, measure, S, next, F, base)
    BY <2>3, <2>4, <2>5, <2>6, <2>7, <2>8 DEF Chained
  <2> QED
    BY <2>9, RecursionExists
<1>6. ASSUME NEW p \in D PROVE f[p] = Plain(f, p)
  <2>1. CASE p \in S
    <3>1. ~Over(p) /\ Unit(a, X(p)) = Unit(b, Y(p)) /\ next[p] = Onward(p)
      BY <2>1
    <3>2. Onward(p) \in D
      <4> HIDE DEF Onward, D, Over
      <4> QED
        BY <1>3, <3>1
    <3>3. f[p] = F[p][f[Onward(p)]] /\ f[Onward(p)] \in BOOLEAN /\ f[p] \in BOOLEAN
      <4> HIDE DEF F, S, Onward, D, next
      <4> QED
        BY <1>5, <2>1, <3>1, <3>2
    <3>4. \A v \in BOOLEAN : F[p][v] = v
      <4> HIDE DEF S
      <4> QED
        BY <2>1
    <3>5. f[p] = f[Onward(p)]
      <4> HIDE DEF F
      <4> QED
        BY <3>3, <3>4
    <3>6. Plain(f, p) = f[Onward(p)]
      <4>1. Plain(f, p) = (Unit(a, X(p)) = Unit(b, Y(p)) /\ f[Onward(p)])
        <5> HIDE DEF Onward
        <5> QED
          BY <3>1
      <4>2. (Unit(a, X(p)) = Unit(b, Y(p))) = TRUE
        BY <3>1
      <4> HIDE DEF Plain, Onward
      <4> QED
        BY <3>3, <4>1, <4>2
    <3> QED
      BY <3>5, <3>6
  <2>2. CASE p \notin S
    <3>1. f[p] = (X(p) > M /\ Y(p) > N)
      <4>1. base[p] = (X(p) > M /\ Y(p) > N)
        OBVIOUS
      <4> HIDE DEF base, S, F, next, D
      <4> QED
        BY <1>5, <2>2, <4>1
    <3>2. CASE Over(p)
      BY <3>1, <3>2
    <3>3. CASE ~Over(p)
      <4>1. ~(Unit(a, X(p)) = Unit(b, Y(p)))
        BY <2>2, <3>3
      <4>2. Plain(f, p) = FALSE
        BY <3>3, <4>1
      <4>3. (X(p) > M /\ Y(p) > N) = FALSE
        BY <3>3
      <4> HIDE DEF Plain
      <4> QED
        BY <3>1, <4>2, <4>3
    <3> QED
      BY <3>2, <3>3
  <2> QED
    BY <2>1, <2>2
<1>7. f = [p \in D |-> Body(f, p)]
  <2>1. \A p \in D : f[p] = Body(f, p)
    <3> SUFFICES ASSUME NEW p \in D PROVE f[p] = Body(f, p)
      OBVIOUS
    <3>1. Body(f, p) \in BOOLEAN /\ Plain(f, p) \in BOOLEAN /\ (Body(f, p) <=> Plain(f, p))
      BY <1>4
    <3>2. f[p] = Plain(f, p)
      BY <1>6
    <3> HIDE DEF Body, Plain
    <3> QED
      BY <3>1, <3>2
  <2>2. f = [p \in D |-> f[p]]
    OBVIOUS
  <2> HIDE DEF Body, D
  <2> QED
    BY <2>1, <2>2
<1> DEFINE loop == SameLoop(a, b)
<1>8. loop = [p \in D |-> Body(loop, p)]
  BY <1>7 DEF SameLoop
<1>9. IsEqualIgnoringWhitespace(a, b) = loop[<<1, 1>>]
  BY DEF IsEqualIgnoringWhitespace, SameLoop
<1> HIDE DEF loop
<1>10. ASSUME NEW i \in DA, NEW j \in DB PROVE loop[<<i, j>>] <=> Plain(loop, <<i, j>>)
  <2> DEFINE p == <<i, j>>
  <2>1. p \in D
    OBVIOUS
  <2> HIDE DEF p
  <2>2. loop[p] = Body(loop, p)
    <3> HIDE DEF Body, D
    <3> QED
      BY <1>8, <2>1
  <2>3. Body(loop, p) <=> Plain(loop, p)
    BY <1>4, <2>1
  <2> HIDE DEF Body, Plain
  <2> QED
    BY <2>2, <2>3 DEF p
<1> QED
  BY <1>9, <1>10 DEF loop, X, Y

\* From any two positions, the comparison says whether what is left is the same text.
LEMMA SameIs ==
  ASSUME NEW a \in Seq(Bytes), NEW b \in Seq(Bytes)
  PROVE  \A i \in 1 .. Len(a) + 1, j \in 1 .. Len(b) + 1 :
           SameLoop(a, b)[<<i, j>>] <=> EssenceFrom(a)[i] = EssenceFrom(b)[j]
<1> DEFINE M == Len(a)
           N == Len(b)
           DA == 1 .. M + 1
           DB == 1 .. N + 1
           P == EssenceFrom(a)
           Q == EssenceFrom(b)
           T == {Unit(a, k) : k \in 1 .. M} \cup {Unit(b, k) : k \in 1 .. N}
           Same(i, j) == SameLoop(a, b)[<<i, j>>]
           Bad == {i \in DA : \E j \in DB : ~(Same(i, j) <=> P[i] = Q[j])}
<1> SUFFICES ASSUME Bad # {} PROVE FALSE
  OBVIOUS
<1>1. M \in Nat /\ N \in Nat
  BY LenProperties
<1>2. PICK i \in Bad : \A k \in Bad : k <= i
  <2>1. Bad \in SUBSET (1 .. M + 1)
    OBVIOUS
  <2>2. M + 1 \in Nat
    BY <1>1
  <2> HIDE DEF Bad
  <2> QED
    BY <2>1, <2>2, LastExists
<1>3. PICK j \in DB : ~(Same(i, j) <=> P[i] = Q[j])
  OBVIOUS
<1>4. i \in DA /\ i \in Nat /\ j \in Nat
  BY <1>1
<1>5. \A k \in DA, l \in DB : i < k => (Same(k, l) <=> P[k] = Q[l])
  <2> SUFFICES ASSUME NEW k \in DA, NEW l \in DB, i < k PROVE Same(k, l) <=> P[k] = Q[l]
    OBVIOUS
  <2>1. ~(k <= i)
    BY <1>1, <1>4
  <2>2. k \notin Bad
    BY <1>2, <2>1
  <2> HIDE DEF P, Q, Same
  <2> QED
    BY <2>2
<1> HIDE DEF Bad
<1> DEFINE x == Skip(a, i)
           y == Skip(b, j)
           u == x + LenAt(a, x)
           v == y + LenAt(b, y)
<1>6. x \in DA /\ i <= x /\ P[i] = P[x] /\ (x <= M => ~BlankAt(a, x))
  BY <1>4, SkipIs
<1>7. y \in DB /\ j <= y /\ Q[j] = Q[y] /\ (y <= N => ~BlankAt(b, y))
  BY <1>3, SkipIs
<1>8. Same(i, j) <=> IF x > M \/ y > N THEN x > M /\ y > N
                     ELSE Unit(a, x) = Unit(b, y) /\ Same(u, v)
  BY <1>3, <1>4, SameUnfolds
<1>9. /\ \A k \in 1 .. M : Unit(a, k) \in T
      /\ \A k \in 1 .. N : Unit(b, k) \in T
  OBVIOUS
<1>10. /\ P[x] = IF x > M THEN <<>> ELSE IF BlankAt(a, x) THEN P[u] ELSE <<Unit(a, x)>> \o P[u]
       /\ \A k \in DA : P[k] \in Seq(T)
  <2> HIDE DEF T, x
  <2> QED
    BY <1>6, <1>9, EssenceUnfolds DEF P
<1>11. /\ Q[y] = IF y > N THEN <<>> ELSE IF BlankAt(b, y) THEN Q[v] ELSE <<Unit(b, y)>> \o Q[v]
       /\ \A k \in DB : Q[k] \in Seq(T)
  <2> HIDE DEF T, y
  <2> QED
    BY <1>7, <1>9, EssenceUnfolds DEF Q
<1>12. x <= M => x \in 1 .. M /\ u \in DA /\ x < u /\ i < u
  <2> SUFFICES ASSUME x <= M PROVE x \in 1 .. M /\ u \in DA /\ x < u /\ i < u
    OBVIOUS
  <2>1. x \in 1 .. M
    BY <1>1, <1>6
  <2>2. u \in DA /\ x < u
    BY <2>1, CharsAre
  <2> HIDE DEF x, u
  <2> QED
    BY <1>1, <1>4, <1>6, <2>1, <2>2
<1>13. y <= N => y \in 1 .. N /\ v \in DB /\ y < v
  <2> SUFFICES ASSUME y <= N PROVE y \in 1 .. N /\ v \in DB /\ y < v
    OBVIOUS
  <2>1. y \in 1 .. N
    BY <1>1, <1>7
  <2> QED
    BY <2>1, CharsAre
<1>14. (x > M <=> ~(x <= M)) /\ (y > N <=> ~(y <= N))
  BY <1>1, <1>6, <1>7
<1> HIDE DEF P, Q, Same, x, y, u, v, T
<1>15. x <= M => P[x] = <<Unit(a, x)>> \o P[u] /\ Unit(a, x) \in T /\ P[u] \in Seq(T)
  BY <1>6, <1>9, <1>10, <1>12, <1>14
<1>16. y <= N => Q[y] = <<Unit(b, y)>> \o Q[v] /\ Unit(b, y) \in T /\ Q[v] \in Seq(T)
  BY <1>7, <1>9, <1>11, <1>13, <1>14
<1>17. CASE x > M /\ y > N
  BY <1>3, <1>6, <1>7, <1>8, <1>10, <1>11, <1>17
<1>18. CASE x > M /\ y <= N
  <2>1. Q[y] # <<>>
    BY <1>16, <1>18, Led
  <2> QED
    BY <1>3, <1>6, <1>7, <1>8, <1>10, <1>14, <1>18, <2>1
<1>19. CASE x <= M /\ y > N
  <2>1. P[x] # <<>>
    BY <1>15, <1>19, Led
  <2> QED
    BY <1>3, <1>6, <1>7, <1>8, <1>11, <1>14, <1>19, <2>1
<1>20. CASE x <= M /\ y <= N
  <2>1. P[x] = Q[y] <=> Unit(a, x) = Unit(b, y) /\ P[u] = Q[v]
    <3>1. /\ Unit(a, x) \in T /\ Unit(b, y) \in T /\ P[u] \in Seq(T) /\ Q[v] \in Seq(T)
          /\ P[x] = <<Unit(a, x)>> \o P[u] /\ Q[y] = <<Unit(b, y)>> \o Q[v]
      BY <1>15, <1>16, <1>20
    <3> DEFINE c == Unit(a, x)
               d == Unit(b, y)
               p == P[u]
               q == Q[v]
    <3>2. c \in T /\ d \in T /\ p \in Seq(T) /\ q \in Seq(T) /\ P[x] = <<c>> \o p /\ Q[y] = <<d>> \o q
      BY <3>1
    <3> HIDE DEF c, d, p, q
    <3>3. <<c>> \o p = <<d>> \o q <=> c = d /\ p = q
      <4>1. Onto(c, p) = Onto(d, q) => c = d /\ p = q
        BY <3>2, Led
      <4>2. c = d /\ p = q => Onto(c, p) = Onto(d, q)
        OBVIOUS
      <4> QED
        BY <4>1, <4>2 DEF Onto
    <3> QED
      BY <3>2, <3>3 DEF c, d, p, q
  <2>2. Same(u, v) <=> P[u] = Q[v]
    BY <1>5, <1>12, <1>13, <1>20
  <2> QED
    BY <1>3, <1>6, <1>7, <1>8, <1>14, <1>20, <2>1, <2>2
<1> QED
  BY <1>14, <1>17, <1>18, <1>19, <1>20

\* Whether two blobs differ in more than whitespace: the two fingers get to the end of
\* both exactly when what is not blank is the same text, wherever characters are cut
\* off or bytes start none (utils/utf8_whitespace.rs).
THEOREM BlobsCompareRight == TextSpec => []BlobsCompareByCharacter
<1>1. TextType => BlobsCompareByCharacter
  <2> SUFFICES ASSUME TextType
               PROVE  IsEqualIgnoringWhitespace(left, right) <=> Essence(left) = Essence(right)
    BY DEF BlobsCompareByCharacter
  <2>1. left \in Seq(Bytes) /\ right \in Seq(Bytes)
    BY DEF TextType
  <2>2. Len(left) \in Nat /\ Len(right) \in Nat
    BY <2>1, LenProperties
  <2>3. 1 \in 1 .. Len(left) + 1 /\ 1 \in 1 .. Len(right) + 1
    BY <2>2
  <2>4. SameLoop(left, right)[<<1, 1>>] <=> EssenceFrom(left)[1] = EssenceFrom(right)[1]
    BY <2>1, <2>3, SameIs
  <2>5. IsEqualIgnoringWhitespace(left, right) = SameLoop(left, right)[<<1, 1>>]
    BY <2>1, SameUnfolds
  <2> QED
    BY <2>4, <2>5 DEF Essence
<1> QED
  BY <1>1, Typed, PTL

-----------------------------------------------------------------------------
(* Stretches of a text, and scanners that go along it.                     *)

\* One more stretch, later than the others, is one more piece at the end.
Apart(W, n) == /\ W \in SUBSET ((1 .. n) \X (1 .. n))
               /\ \A p, q \in W : p[1] = q[1] => p = q

\* A list with one number more, greater than the others, is longer by that number.
Longer(S, x) ==
  /\ Cardinality(S) \in Nat
  /\ DOMAIN ListOf(S) = 1 .. Cardinality(S)
  /\ DOMAIN ListOf(S \cup {x}) = 1 .. Cardinality(S) + 1
  /\ \A k \in 1 .. Cardinality(S) : ListOf(S \cup {x})[k] = ListOf(S)[k] /\ ListOf(S)[k] \in S
  /\ ListOf(S \cup {x})[Cardinality(S) + 1] = x

LEMMA ListGrows ==
  ASSUME NEW n \in Nat, NEW S \in SUBSET (1 .. n), NEW x \in 1 .. n, \A i \in S : i < x
  PROVE  Longer(S, x)
<1> DEFINE T == {1}
           m == x - 1
           c == Cardinality(S)
           U == S \cup {x}
<1>1. m \in Nat /\ T \in SUBSET (1 .. 1) /\ 1 \in Nat
  OBVIOUS
<1>2. S \in SUBSET (1 .. m)
  <2>1. \A i \in S : i \in 1 .. n /\ i < x
    OBVIOUS
  <2>2. \A i \in S : i \in 1 .. m
    BY <2>1
  <2> QED
    BY <2>2
<1>3. S \cup After(m, T) = U
  BY DEF After
<1>4. ListedAfter(m, 1, S, T, U)
  <2> HIDE DEF T, m, U
  <2> QED
    BY <1>1, <1>2, <1>3, NthOfUnion
<1>5. Cardinality(T) = 1 /\ NthOf(T, 1) = 1
  <2>1. Cardinality(T) = 1
    BY FS_Singleton
  <2>2. 1 \in 1 .. Cardinality(T)
    BY <2>1
  <2>3. NthOf(T, 1) \in T
    <3> HIDE DEF T
    <3> QED
      BY <1>1, <2>2, NthProperties
  <2> QED
    BY <2>1, <2>3
<1> HIDE DEF T, U
<1>6. /\ c \in Nat /\ Cardinality(U) = c + 1
      /\ \A k \in 1 .. c : NthOf(U, k) = NthOf(S, k)
      /\ NthOf(U, c + 1) = x
  <2>1. m + 1 = x /\ 1 \in 1 .. 1
    OBVIOUS
  <2> HIDE DEF m
  <2> QED
    BY <1>4, <1>5, <2>1 DEF ListedAfter
<1>7. \A k \in 1 .. c : NthOf(S, k) \in S
  BY NthProperties
<1>8. /\ \A k \in 1 .. c : ListOf(S)[k] = NthOf(S, k) /\ ListOf(U)[k] = NthOf(U, k)
      /\ ListOf(U)[c + 1] = NthOf(U, c + 1)
      /\ DOMAIN ListOf(S) = 1 .. c /\ DOMAIN ListOf(U) = 1 .. c + 1
  <2>1. \A k \in 1 .. c : k \in 1 .. c + 1
    BY <1>6
  <2>2. c + 1 \in 1 .. c + 1
    BY <1>6
  <2> QED
    BY <1>6, <2>1, <2>2 DEF ListOf
<1> QED
  BY <1>6, <1>7, <1>8 DEF U, Longer

LEMMA InOrderGrows ==
  ASSUME NEW t, NEW n \in Nat, NEW W, Apart(W, n), NEW x \in (1 .. n) \X (1 .. n),
         \A p \in W : p[1] < x[1]
  PROVE  InOrder(t, W \cup {x}) = Append(InOrder(t, W), Piece(t, x))
<1> DEFINE S == {p[1] : p \in W}
           V == W \cup {x}
           U == {p[1] : p \in V}
           c == Cardinality(S)
           L == ListOf(S)
           M == ListOf(U)
           X == {Piece(t, p) : p \in V}
           a == InOrder(t, W)
           b == InOrder(t, V)
<1>1. S \in SUBSET (1 .. n) /\ x[1] \in 1 .. n /\ \A i \in S : i < x[1]
  BY DEF Apart
<1>2. U = S \cup {x[1]}
  OBVIOUS
<1>3. /\ c \in Nat /\ DOMAIN L = 1 .. c /\ DOMAIN M = 1 .. c + 1
      /\ \A k \in 1 .. c : M[k] = L[k] /\ L[k] \in S
      /\ M[c + 1] = x[1]
  <2> DEFINE y == x[1]
             R == S \cup {y}
  <2>1. S \in SUBSET (1 .. n) /\ y \in 1 .. n /\ (\A i \in S : i < y) /\ U = R
    BY <1>1, <1>2
  <2> HIDE DEF S, U, y
  <2>2. Longer(S, y)
    BY <2>1, ListGrows
  <2> HIDE DEF R
  <2> QED
    BY <2>1, <2>2 DEF y, R, Longer
<1> HIDE DEF L, M, c
<1>4. ASSUME NEW i \in S
      PROVE  /\ (CHOOSE p \in W : p[1] = i) \in W
             /\ (CHOOSE p \in V : p[1] = i) = (CHOOSE p \in W : p[1] = i)
  <2>1. PICK q \in W : q[1] = i
    OBVIOUS
  <2>2. \A p \in W : p[1] = i => p = q
    BY <2>1 DEF Apart
  <2>3. x[1] # i
    <3>1. i < x[1] /\ i \in 1 .. n /\ x[1] \in 1 .. n
      BY <1>1
    <3> QED
      BY <3>1
  <2>4. \A p \in V : p[1] = i => p = q
    BY <2>2, <2>3
  <2>5. (CHOOSE p \in W : p[1] = i) = q
    BY <2>1, <2>2
  <2>6. (CHOOSE p \in V : p[1] = i) = q
    BY <2>1, <2>4
  <2> QED
    BY <2>5, <2>6
<1>5. (CHOOSE p \in V : p[1] = x[1]) = x
  <2>1. \A p \in W : p[1] # x[1]
    <3>1. \A p \in W : p[1] < x[1] /\ p[1] \in 1 .. n
      BY DEF Apart
    <3> QED
      BY <1>1, <3>1
  <2> QED
    BY <2>1
<1>6. /\ a = [k \in 1 .. c |-> Piece(t, CHOOSE p \in W : p[1] = L[k])]
      /\ b = [k \in 1 .. c + 1 |-> Piece(t, CHOOSE p \in V : p[1] = M[k])]
  BY <1>3 DEF InOrder, L, M
<1>7. \A k \in 1 .. c : a[k] = b[k] /\ a[k] \in X
  <2> SUFFICES ASSUME NEW k \in 1 .. c PROVE a[k] = b[k] /\ a[k] \in X
    OBVIOUS
  <2>1. k \in 1 .. c + 1 /\ M[k] = L[k] /\ L[k] \in S
    BY <1>3
  <2> DEFINE p == CHOOSE p \in W : p[1] = L[k]
  <2>2. p \in W /\ (CHOOSE q \in V : q[1] = L[k]) = p
    <3> HIDE DEF S, V
    <3> QED
      BY <1>4, <2>1
  <2>3. a[k] = Piece(t, p)
    BY <1>6
  <2>4. b[k] = Piece(t, CHOOSE q \in V : q[1] = M[k])
    BY <1>6, <2>1
  <2> HIDE DEF p, a, b
  <2>5. p \in V
    BY <2>2
  <2> QED
    BY <2>1, <2>2, <2>3, <2>4, <2>5
<1>8. b[c + 1] = Piece(t, x) /\ Piece(t, x) \in X
  <2>1. c + 1 \in 1 .. c + 1
    BY <1>3
  <2>2. b[c + 1] = Piece(t, CHOOSE q \in V : q[1] = M[c + 1])
    BY <1>6, <2>1
  <2> QED
    BY <1>3, <1>5, <2>2
<1> HIDE DEF X
<1>9. a \in Seq(X) /\ Len(a) = c
  <2>1. a \in [1 .. c -> X]
    BY <1>6, <1>7
  <2> HIDE DEF a
  <2>2. a \in Seq(X)
    BY <1>3, <2>1, SeqDef
  <2> QED
    BY <1>3, <2>1, <2>2, LenProperties
<1>10. b \in Seq(X) /\ Len(b) = c + 1
  <2>1. \A k \in 1 .. c + 1 : k \in 1 .. c \/ k = c + 1
    BY <1>3
  <2>2. b \in [1 .. c + 1 -> X]
    <3>1. \A k \in 1 .. c + 1 : b[k] \in X
      BY <1>7, <1>8, <2>1
    <3>2. b = [k \in 1 .. c + 1 |-> b[k]]
      BY <1>6
    <3> HIDE DEF b
    <3> QED
      BY <3>1, <3>2
  <2> HIDE DEF b
  <2>3. c + 1 \in Nat
    BY <1>3
  <2>4. b \in Seq(X)
    BY <2>2, <2>3, SeqDef
  <2> QED
    BY <2>2, <2>3, <2>4, LenProperties
<1> HIDE DEF a, b
<1>11. /\ Append(a, Piece(t, x)) \in Seq(X) /\ Len(Append(a, Piece(t, x))) = c + 1
       /\ \A k \in 1 .. c : Append(a, Piece(t, x))[k] = a[k]
       /\ Append(a, Piece(t, x))[c + 1] = Piece(t, x)
  BY <1>8, <1>9, AppendProperties
<1>12. \A k \in 1 .. Len(b) : b[k] = Append(a, Piece(t, x))[k]
  <2>1. \A k \in 1 .. c + 1 : k \in 1 .. c \/ k = c + 1
    BY <1>3
  <2> QED
    BY <1>7, <1>8, <1>10, <1>11, <2>1
<1>13. b = Append(a, Piece(t, x))
  BY <1>10, <1>11, <1>12, SeqEqual
<1> QED
  BY <1>13 DEF a, b

LEMMA InOrderNone == \A t : InOrder(t, {}) = <<>>
<1> SUFFICES ASSUME NEW t PROVE InOrder(t, {}) = <<>>
  OBVIOUS
<1>1. {p[1] : p \in {}} = {}
  OBVIOUS
<1>2. Cardinality({}) = 0
  BY FS_EmptySet
<1>3. DOMAIN ListOf({}) = {}
  <2>1. DOMAIN ListOf({}) = 1 .. 0
    BY <1>2 DEF ListOf
  <2> QED
    BY <2>1
<1>4. InOrder(t, {}) = [k \in {} |-> Piece(t, CHOOSE p \in {} : p[1] = ListOf({})[k])]
  BY <1>1, <1>3 DEF InOrder
<1> QED
  BY <1>4

\* What a scanner holds: the characters since b, the last of the first n outside S.
Since(t, S, n, b) ==
  /\ b \in 0 .. n /\ \A k \in b + 1 .. n : t[k] \in S
  /\ b # 0 => t[b] \notin S

LEMMA RunGrows ==
  ASSUME NEW t \in Seq(Characters), NEW n \in Nat, n < Len(t), NEW b \in 0 .. n
  PROVE  /\ Append(SubSeq(t, b + 1, n), t[n + 1]) = SubSeq(t, b + 1, n + 1)
         /\ Append(Piece(t, <<b + 1, n>>), Lower[t[n + 1]]) = Piece(t, <<b + 1, n + 1>>)
<1> DEFINE s == SubSeq(t, b + 1, n)
           u == SubSeq(t, b + 1, n + 1)
           d == n - b
           L == {Lower[c] : c \in Characters}
           p == LowerCase(s)
           q == LowerCase(u)
<1>1. Len(t) \in Nat /\ d \in Nat /\ b \in Nat /\ n + 1 \in 1 .. Len(t) /\ b + 1 \in Int /\ n + 1 \in Int
  BY LenProperties
<1>2. \A k \in b + 1 .. n + 1 : t[k] \in Characters
  <2>1. \A k \in b + 1 .. n + 1 : k \in 1 .. Len(t)
    BY <1>1
  <2> QED
    BY <2>1, ElementOfSeq
<1>3. /\ u \in Seq(Characters) /\ Len(u) = d + 1
      /\ \A k \in 1 .. d + 1 : u[k] = t[b + k]
  <2>1. /\ u \in Seq(Characters)
        /\ Len(u) = IF b + 1 <= n + 1 THEN (n + 1) - (b + 1) + 1 ELSE 0
        /\ \A k \in 1 .. (n + 1) - (b + 1) + 1 : u[k] = t[(b + 1) + k - 1]
    BY <1>1, <1>2, SubSeqProperties
  <2>2. (n + 1) - (b + 1) + 1 = d + 1 /\ b + 1 <= n + 1
    BY <1>1
  <2>3. \A k \in 1 .. d + 1 : (b + 1) + k - 1 = b + k
    BY <1>1
  <2> HIDE DEF u, d
  <2> QED
    BY <2>1, <2>2, <2>3
<1>4. /\ s \in Seq(Characters) /\ Len(s) = d
      /\ \A k \in 1 .. d : s[k] = t[b + k]
  <2>0. \A k \in b + 1 .. n : t[k] \in Characters
    <3>1. \A k \in b + 1 .. n : k \in b + 1 .. n + 1
      BY <1>1
    <3> QED
      BY <1>2, <3>1
  <2>1. /\ s \in Seq(Characters)
        /\ Len(s) = IF b + 1 <= n THEN n - (b + 1) + 1 ELSE 0
        /\ \A k \in 1 .. n - (b + 1) + 1 : s[k] = t[(b + 1) + k - 1]
    BY <1>1, <2>0, SubSeqProperties
  <2>2. n - (b + 1) + 1 = d /\ (~(b + 1 <= n) => d = 0)
    BY <1>1
  <2>3. \A k \in 1 .. d : (b + 1) + k - 1 = b + k
    BY <1>1
  <2> HIDE DEF s, d
  <2> QED
    BY <2>1, <2>2, <2>3
<1>5. t[n + 1] \in Characters /\ b + (d + 1) = n + 1
  BY <1>1, ElementOfSeq
<1>6. \A k \in 1 .. d + 1 : k \in 1 .. d \/ k = d + 1
  BY <1>1
<1>7. \A k \in 1 .. d : k \in 1 .. d + 1
  BY <1>1
<1>8. d + 1 \in 1 .. d + 1
  BY <1>1
<1> HIDE DEF s, u, d
<1>9. Append(s, t[n + 1]) = u
  <2>1. /\ Append(s, t[n + 1]) \in Seq(Characters) /\ Len(Append(s, t[n + 1])) = d + 1
        /\ \A k \in 1 .. d : Append(s, t[n + 1])[k] = s[k]
        /\ Append(s, t[n + 1])[d + 1] = t[n + 1]
    BY <1>4, <1>5, AppendProperties
  <2>2. \A k \in 1 .. d + 1 : Append(s, t[n + 1])[k] = u[k]
    BY <1>3, <1>4, <1>5, <1>6, <1>7, <1>8, <2>1
  <2> QED
    BY <1>3, <2>1, <2>2, SeqEqual
<1>10. /\ p \in Seq(L) /\ Len(p) = d /\ \A k \in 1 .. d : p[k] = Lower[s[k]]
  <2>1. DOMAIN s = 1 .. d /\ \A k \in 1 .. d : s[k] \in Characters
    BY <1>4, LenProperties, ElementOfSeq
  <2>2. p \in [1 .. d -> L] /\ \A k \in 1 .. d : p[k] = Lower[s[k]]
    BY <2>1 DEF LowerCase
  <2> HIDE DEF p, L
  <2>3. p \in Seq(L)
    BY <1>1, <2>2, SeqDef
  <2> QED
    BY <1>1, <2>2, <2>3, LenProperties
<1>11. /\ q \in Seq(L) /\ Len(q) = d + 1 /\ \A k \in 1 .. d + 1 : q[k] = Lower[u[k]]
  <2>1. DOMAIN u = 1 .. d + 1 /\ \A k \in 1 .. d + 1 : u[k] \in Characters
    BY <1>3, LenProperties, ElementOfSeq
  <2>2. q \in [1 .. d + 1 -> L] /\ \A k \in 1 .. d + 1 : q[k] = Lower[u[k]]
    BY <2>1 DEF LowerCase
  <2>3. d + 1 \in Nat
    BY <1>1
  <2> HIDE DEF q, L
  <2>4. q \in Seq(L)
    BY <2>2, <2>3, SeqDef
  <2> QED
    BY <2>2, <2>3, <2>4, LenProperties
<1>12. Lower[t[n + 1]] \in L
  BY <1>5
<1> HIDE DEF p, q, L
<1>13. Append(p, Lower[t[n + 1]]) = q
  <2> DEFINE z == Append(p, Lower[t[n + 1]])
  <2>1. /\ z \in Seq(L) /\ Len(z) = d + 1 /\ \A k \in 1 .. d : z[k] = p[k]
        /\ z[d + 1] = Lower[t[n + 1]]
    BY <1>10, <1>12, AppendProperties
  <2> HIDE DEF z
  <2>2. \A k \in 1 .. d : z[k] = q[k]
    <3> SUFFICES ASSUME NEW k \in 1 .. d PROVE z[k] = q[k]
      OBVIOUS
    <3>1. z[k] = Lower[s[k]] /\ s[k] = t[b + k]
      BY <1>4, <1>10, <2>1
    <3>2. q[k] = Lower[u[k]] /\ u[k] = t[b + k]
      BY <1>3, <1>7, <1>11
    <3> QED
      BY <3>1, <3>2
  <2>3. z[d + 1] = q[d + 1]
    <3>1. u[d + 1] = t[n + 1]
      BY <1>3, <1>5, <1>8
    <3> QED
      BY <1>8, <1>11, <2>1, <3>1
  <2>4. \A k \in 1 .. d + 1 : z[k] = q[k]
    BY <1>6, <2>2, <2>3
  <2>5. z = q
    BY <1>11, <2>1, <2>4, SeqEqual
  <2> QED
    BY <2>5 DEF z
<1> QED
  BY <1>9, <1>13 DEF p, q, s, u, Piece

LEMMA RunEmpty ==
  ASSUME NEW t, NEW n \in Nat
  PROVE  SubSeq(t, n + 1, n) = <<>> /\ Piece(t, <<n + 1, n>>) = <<>>
<1>1. SubSeq(t, n + 1, n) = <<>>
  BY SubSeqEmpty
<1>2. LowerCase(<<>>) = <<>>
  BY DEF LowerCase
<1> QED
  BY <1>1, <1>2 DEF Piece

\* The stretch that a scanner is in when it comes to the end of one, or of the text.
LEMMA StretchEnds ==
  ASSUME NEW t \in Seq(Characters), NEW S, NEW n \in 0 .. Len(t), NEW b \in 0 .. n,
         Since(t, S, n, b), n < Len(t) => t[n + 1] \notin S
  PROVE  \A ij \in (1 .. Len(t)) \X (1 .. Len(t)) :
           ij \in Stretches(t, S) /\ b <= ij[2] /\ ij[2] <= n <=> b < n /\ ij = <<b + 1, n>>
<1>1. Len(t) \in Nat /\ DOMAIN t = 1 .. Len(t) /\ n \in Nat /\ b \in Nat
  BY LenProperties
<1> SUFFICES ASSUME NEW i \in 1 .. Len(t), NEW j \in 1 .. Len(t)
             PROVE  <<i, j>> \in Stretches(t, S) /\ b <= j /\ j <= n
                      <=> b < n /\ i = b + 1 /\ j = n
  OBVIOUS
<1>2. <<i, j>> \in Stretches(t, S) <=>
        /\ i <= j /\ \A k \in i .. j : t[k] \in S
        /\ i > 1 => t[i - 1] \notin S
        /\ j < Len(t) => t[j + 1] \notin S
  BY <1>1 DEF Stretches
<1>3. ASSUME <<i, j>> \in Stretches(t, S), b <= j, j <= n PROVE b < n /\ i = b + 1 /\ j = n
  <2>1. i <= j /\ j \in i .. j /\ t[j] \in S
    BY <1>2, <1>3
  <2>2. j # b
    <3>1. b # 0 => t[b] \notin S
      BY DEF Since
    <3> QED
      BY <2>1, <3>1
  <2>3. b < j /\ b < n
    BY <1>1, <1>3, <2>2
  <2>4. b < i
    <3> SUFFICES ASSUME i <= b PROVE FALSE
      BY <1>1
    <3>1. b \in i .. j /\ b # 0
      BY <1>1, <2>3
    <3> QED
      BY <1>2, <1>3, <3>1 DEF Since
  <2>5. i = b + 1
    <3> SUFFICES ASSUME i # b + 1 PROVE FALSE
      OBVIOUS
    <3>1. i > 1 /\ i - 1 \in b + 1 .. n
      BY <1>1, <1>3, <2>1, <2>4
    <3> QED
      BY <1>2, <1>3, <3>1 DEF Since
  <2>6. j = n
    <3> SUFFICES ASSUME j # n PROVE FALSE
      OBVIOUS
    <3>1. j < Len(t) /\ j + 1 \in b + 1 .. n
      BY <1>1, <1>3, <2>3
    <3> QED
      BY <1>2, <1>3, <3>1 DEF Since
  <2> QED
    BY <2>3, <2>5, <2>6
<1>4. ASSUME b < n, i = b + 1, j = n PROVE <<i, j>> \in Stretches(t, S) /\ b <= j /\ j <= n
  <2>1. i <= j /\ b <= j /\ j <= n
    BY <1>1, <1>4
  <2>2. \A k \in i .. j : t[k] \in S
    BY <1>4 DEF Since
  <2>3. i > 1 => t[i - 1] \notin S
    <3>1. i > 1 => b # 0 /\ i - 1 = b
      BY <1>1, <1>4
    <3> QED
      BY <3>1 DEF Since
  <2>4. j < Len(t) => t[j + 1] \notin S
    BY <1>4
  <2> QED
    BY <1>2, <2>1, <2>2, <2>3, <2>4
<1> QED
  BY <1>3, <1>4

\* The pieces that end before position b.
EndBefore(W, b) == {ij \in W : ij[2] < b}

LEMMA StretchesApart ==
  ASSUME NEW t \in Seq(Characters), NEW S, NEW W \in SUBSET Stretches(t, S)
  PROVE  /\ Apart(W, Len(t))
         /\ \A ij \in W : ij[1] <= ij[2] /\ ij[1] \in 1 .. Len(t) /\ ij[2] \in 1 .. Len(t)
<1>1. Len(t) \in Nat /\ DOMAIN t = 1 .. Len(t)
  BY LenProperties
<1>2. \A p \in W : /\ p \in (1 .. Len(t)) \X (1 .. Len(t))
                   /\ p[1] <= p[2] /\ \A k \in p[1] .. p[2] : t[k] \in S
                   /\ p[2] < Len(t) => t[p[2] + 1] \notin S
  BY <1>1 DEF Stretches
<1>3. ASSUME NEW p \in W, NEW q \in W, p[1] = q[1], p[2] < q[2] PROVE FALSE
  <2>1. p[2] + 1 \in q[1] .. q[2] /\ p[2] < Len(t)
    BY <1>1, <1>2, <1>3
  <2> QED
    BY <1>2, <2>1
<1>4. \A p, q \in W : p[1] = q[1] => p = q
  <2> SUFFICES ASSUME NEW p \in W, NEW q \in W, p[1] = q[1] PROVE p = q
    OBVIOUS
  <2>1. ~(p[2] < q[2]) /\ ~(q[2] < p[2])
    BY <1>3
  <2>2. p[2] \in 1 .. Len(t) /\ q[2] \in 1 .. Len(t)
    BY <1>2
  <2>3. p[2] = q[2]
    BY <1>1, <2>1, <2>2
  <2> QED
    BY <1>2, <2>3
<1> QED
  BY <1>2, <1>4 DEF Apart

\* At the end of a stretch in S the piece since b is taken, or nothing is.
Ended(t, S, W, n, b) ==
  InOrder(t, EndBefore(W, n + 1)) =
    IF b < n /\ <<b + 1, n>> \in W
    THEN Append(InOrder(t, EndBefore(W, b)), Piece(t, <<b + 1, n>>))
    ELSE InOrder(t, EndBefore(W, b))

LEMMA PieceEnds ==
  ASSUME NEW t \in Seq(Characters), NEW S, NEW W \in SUBSET Stretches(t, S),
         NEW n \in 0 .. Len(t), NEW b \in 0 .. n,
         Since(t, S, n, b), n < Len(t) => t[n + 1] \notin S
  PROVE  Ended(t, S, W, n, b)
<1> DEFINE x == <<b + 1, n>>
           A == EndBefore(W, b)
<1>1. Len(t) \in Nat /\ n \in Nat /\ b \in Nat
  BY LenProperties
<1>2. /\ Apart(W, Len(t))
      /\ \A ij \in W : ij[1] <= ij[2] /\ ij[1] \in 1 .. Len(t) /\ ij[2] \in 1 .. Len(t)
      /\ \A ij \in W : ij \in (1 .. Len(t)) \X (1 .. Len(t)) /\ ij \in Stretches(t, S)
  BY StretchesApart DEF Apart
<1>3. \A ij \in W : b <= ij[2] /\ ij[2] <= n <=> b < n /\ ij = x
  BY <1>2, StretchEnds
<1>4. \A ij \in W : ij[2] < n + 1 <=> ij[2] < b \/ (b <= ij[2] /\ ij[2] <= n)
  <2>1. \A k \in 1 .. Len(t) : k < n + 1 <=> k < b \/ (b <= k /\ k <= n)
    BY <1>1
  <2> QED
    BY <1>2, <2>1
<1>5. CASE b < n /\ x \in W
  <2>1. EndBefore(W, n + 1) = A \cup {x}
    BY <1>3, <1>4, <1>5 DEF EndBefore
  <2>2. Apart(A, Len(t)) /\ x \in (1 .. Len(t)) \X (1 .. Len(t))
    BY <1>2, <1>5 DEF Apart, EndBefore
  <2>3. \A p \in A : p[1] < x[1]
    <3>1. \A i, j \in 1 .. Len(t) : i <= j /\ j < b => i < b + 1
      BY <1>1
    <3>2. x[1] = b + 1
      OBVIOUS
    <3> HIDE DEF x
    <3> QED
      BY <1>2, <3>1, <3>2 DEF EndBefore
  <2>4. ASSUME NEW V, NEW y \in (1 .. Len(t)) \X (1 .. Len(t)), Apart(V, Len(t)),
               \A p \in V : p[1] < y[1]
        PROVE  InOrder(t, V \cup {y}) = Append(InOrder(t, V), Piece(t, y))
    <3> DEFINE N == Len(t)
    <3>1. N \in Nat /\ y \in (1 .. N) \X (1 .. N) /\ Apart(V, N) /\ \A p \in V : p[1] < y[1]
      BY <1>1, <2>4
    <3> HIDE DEF N
    <3> QED
      BY <3>1, InOrderGrows
  <2> HIDE DEF x, A
  <2>5. InOrder(t, A \cup {x}) = Append(InOrder(t, A), Piece(t, x))
    BY <2>2, <2>3, <2>4
  <2> QED
    BY <1>5, <2>1, <2>5 DEF x, A, Ended
<1>6. CASE ~(b < n /\ x \in W)
  <2>1. EndBefore(W, n + 1) = A
    BY <1>3, <1>4, <1>6 DEF EndBefore
  <2> QED
    BY <1>6, <2>1 DEF Ended
<1> QED
  BY <1>5, <1>6

LEMMA EndBeforeBounds ==
  ASSUME NEW t \in Seq(Characters), NEW S, NEW W \in SUBSET Stretches(t, S)
  PROVE  EndBefore(W, 0) = {} /\ EndBefore(W, Len(t) + 1) = W
<1>1. Len(t) \in Nat /\ \A ij \in W : ij[2] \in 1 .. Len(t)
  BY StretchesApart, LenProperties
<1>2. \A k \in 1 .. Len(t) : ~(k < 0) /\ k < Len(t) + 1
  BY <1>1
<1> QED
  BY <1>1, <1>2 DEF EndBefore

\* The position since which a scanner holds characters moves on with it.
LEMMA SinceMoves ==
  ASSUME NEW t, NEW S, NEW n \in Nat
  PROVE  /\ Since(t, S, 0, 0)
         /\ \A b : Since(t, S, n, b) /\ t[n + 1] \in S => Since(t, S, n + 1, b)
         /\ t[n + 1] \notin S => Since(t, S, n + 1, n + 1)
<1>1. Since(t, S, 0, 0)
  BY DEF Since
<1>2. ASSUME NEW b, Since(t, S, n, b), t[n + 1] \in S PROVE Since(t, S, n + 1, b)
  <2>1. \A k \in b + 1 .. n + 1 : k \in b + 1 .. n \/ k = n + 1
    BY <1>2 DEF Since
  <2>2. b \in 0 .. n + 1
    BY <1>2 DEF Since
  <2> QED
    BY <1>2, <2>1, <2>2 DEF Since
<1>3. t[n + 1] \notin S => Since(t, S, n + 1, n + 1)
  BY DEF Since
<1> QED
  BY <1>1, <1>2, <1>3

-----------------------------------------------------------------------------
(* The hexadecimal tokens.                                                 *)
Lowered   == {Lower[c] : c \in Characters}
ScanState == [tokens : Seq(Seq(Lowered)), current : Seq(Lowered), preceded : BOOLEAN]
ScanStart == [tokens |-> <<>>, current |-> <<>>, preceded |-> FALSE]

LEMMA ScanTyped == \A s \in ScanState, ch \in Characters : Scan(s, ch) \in ScanState
<1> SUFFICES ASSUME NEW s \in ScanState, NEW ch \in Characters PROVE Scan(s, ch) \in ScanState
  OBVIOUS
<1>1. s.tokens \in Seq(Seq(Lowered)) /\ s.current \in Seq(Lowered) /\ s.preceded \in BOOLEAN
  BY DEF ScanState
<1>2. Lower[ch] \in Lowered
  BY DEF Lowered
<1>3. Append(s.current, Lower[ch]) \in Seq(Lowered) /\ Append(s.tokens, s.current) \in Seq(Seq(Lowered))
  BY <1>1, <1>2, AppendProperties
<1>4. <<>> \in Seq(Lowered)
  BY EmptySeq
<1>5. CASE ch \in Hex
  <2>1. Scan(s, ch) = [s EXCEPT !.current = Append(@, Lower[ch])]
    BY <1>5 DEF Scan
  <2> HIDE DEF Lowered
  <2> QED
    BY <1>3, <2>1 DEF ScanState
<1>6. CASE ch \notin Hex
  <2> DEFINE ok == IsToken(s.current) /\ ~s.preceded /\ ch \notin Alnum
             more == IF ok THEN Append(s.tokens, s.current) ELSE s.tokens
  <2>1. Scan(s, ch) = [tokens |-> more, current |-> <<>>, preceded |-> ch \in Alnum]
    BY <1>6 DEF Scan
  <2>2. more \in Seq(Seq(Lowered))
    BY <1>1, <1>3
  <2>3. (ch \in Alnum) \in BOOLEAN
    OBVIOUS
  <2> HIDE DEF more, Lowered
  <2> QED
    BY <1>4, <2>1, <2>2, <2>3 DEF ScanState
<1> QED
  BY <1>5, <1>6

LEMMA ScannedIs ==
  ASSUME NEW t \in Seq(Characters)
  PROVE  /\ Scanned(t)[0] = ScanStart
         /\ \A n \in 1 .. Len(t) : Scanned(t)[n] = Scan(Scanned(t)[n - 1], t[n])
<1> DEFINE N == Len(t)
           D == 0 .. N
           S == 1 .. N
           V == ScanState
           m == [n \in D |-> n]
           next == [n \in S |-> n - 1]
           F == [n \in S |-> [v \in V |-> Scan(v, t[n])]]
           base == [n \in D |-> ScanStart]
           Loop(f) == f = [n \in 0 .. Len(t) |->
                             IF n = 0 THEN [tokens |-> <<>>, current |-> <<>>, preceded |-> FALSE]
                             ELSE Scan(f[n - 1], t[n])]
<1>1. N \in Nat /\ N + 1 \in Nat /\ \A n \in S : t[n] \in Characters
  BY LenProperties, ElementOfSeq
<1>2. ScanStart \in V
  BY EmptySeq DEF ScanStart, ScanState
<1>3. F \in [S -> [V -> V]] /\ base \in [D -> V]
  BY <1>1, <1>2, ScanTyped
<1>4. m \in [D -> Nat] /\ (\A p \in D : m[p] < N + 1) /\ S \in SUBSET D /\ next \in [S -> D]
  BY <1>1
<1>5. \A p \in S : m[next[p]] < m[p]
  <2> SUFFICES ASSUME NEW p \in S PROVE m[next[p]] < m[p]
    OBVIOUS
  <2>1. next[p] = p - 1 /\ p - 1 \in D /\ p \in D /\ p - 1 < p
    BY <1>1
  <2> QED
    BY <2>1
<1>6. Chained(D, V, N + 1, m, S, next, F, base)
  <2> HIDE DEF D, S, V, m, next, F, base, N
  <2> QED
    BY <1>1, <1>3, <1>4, <1>5 DEF Chained
<1>7. PICK f \in [D -> V] : \A p \in D : f[p] = IF p \in S THEN F[p][f[next[p]]] ELSE base[p]
  <2> HIDE DEF D, S, V, m, next, F, base, N
  <2> QED
    BY <1>6, RecursionExists
<1>8. Loop(f)
  <2>1. ASSUME NEW n \in D PROVE f[n] = IF n = 0 THEN ScanStart ELSE Scan(f[n - 1], t[n])
    <3>1. CASE n = 0
      <4>1. n \notin S
        BY <3>1
      <4>2. f[n] = base[n]
        BY <1>7, <4>1
      <4> QED
        BY <3>1, <4>2
    <3>2. CASE n # 0
      <4>1. n \in S /\ n - 1 \in D
        BY <1>1, <3>2
      <4>2. f[n] = F[n][f[next[n]]] /\ next[n] = n - 1 /\ f[n - 1] \in V
        BY <1>7, <4>1
      <4> HIDE DEF V
      <4> QED
        BY <3>2, <4>1, <4>2
    <3> QED
      BY <3>1, <3>2
  <2>2. f = [n \in D |-> f[n]]
    OBVIOUS
  <2> HIDE DEF V
  <2> QED
    BY <2>1, <2>2 DEF ScanStart
<1>9. Scanned(t) = CHOOSE g : Loop(g)
  BY DEF Scanned
<1>10. Loop(Scanned(t))
  <2> HIDE DEF Loop
  <2> QED
    BY <1>8, <1>9
<1>11. \A n \in 1 .. Len(t) : n \in 0 .. Len(t) /\ n # 0
  BY <1>1
<1>12. 0 \in 0 .. Len(t)
  BY <1>1
<1>13. \A n \in 0 .. Len(t) : Scanned(t)[n] = IF n = 0 THEN ScanStart ELSE Scan(Scanned(t)[n - 1], t[n])
  <2> DEFINE g == Scanned(t)
  <2>1. Loop(g)
    BY <1>10
  <2> HIDE DEF g
  <2>2. \A n \in 0 .. Len(t) : g[n] = IF n = 0 THEN ScanStart ELSE Scan(g[n - 1], t[n])
    BY <2>1 DEF ScanStart
  <2> QED
    BY <2>2 DEF g
<1> QED
  BY <1>11, <1>12, <1>13

\* The tokens of a text, the scanner after n characters with b the last that is not
\* hexadecimal, and when what it holds is a token.
TokensOf(t) == {ij \in Stretches(t, Alnum) \cap Stretches(t, Hex) : IsToken(Piece(t, ij))}

Holds(t, n, b) ==
  /\ b \in 0 .. n /\ Since(t, Hex, n, b)
  /\ Scanned(t)[n] = [tokens   |-> InOrder(t, EndBefore(TokensOf(t), b)),
                      current  |-> Piece(t, <<b + 1, n>>),
                      preceded |-> b # 0 /\ t[b] \in Alnum]

Taken(t, n, b) ==
  /\ IsToken(Piece(t, <<b + 1, n>>)) /\ ~(b # 0 /\ t[b] \in Alnum)
  /\ n < Len(t) => t[n + 1] \notin Alnum

LEMMA TokenEnds ==
  ASSUME NEW t \in Seq(Characters), NEW n \in 0 .. Len(t), NEW b \in 0 .. n,
         Since(t, Hex, n, b), n < Len(t) => t[n + 1] \notin Hex
  PROVE  InOrder(t, EndBefore(TokensOf(t), n + 1)) =
           IF Taken(t, n, b)
           THEN Append(InOrder(t, EndBefore(TokensOf(t), b)), Piece(t, <<b + 1, n>>))
           ELSE InOrder(t, EndBefore(TokensOf(t), b))
<1> DEFINE x == <<b + 1, n>>
<1>1. Len(t) \in Nat /\ n \in Nat /\ b \in Nat /\ DOMAIN t = 1 .. Len(t)
  BY LenProperties
<1>2. TokensOf(t) \in SUBSET Stretches(t, Hex)
  BY DEF TokensOf
<1>3. (b < n /\ x \in TokensOf(t)) <=> Taken(t, n, b)
  <2>1. ~Taken(t, n, b) => ~(b < n /\ x \in TokensOf(t))
    <3>1. ASSUME b < n, x \in TokensOf(t) PROVE Taken(t, n, b)
      <4>1. /\ IsToken(Piece(t, x)) /\ x[1] = b + 1 /\ x[2] = n
            /\ x[1] > 1 => t[x[1] - 1] \notin Alnum
            /\ x[2] < Len(t) => t[x[2] + 1] \notin Alnum
        BY <3>1 DEF TokensOf, Stretches
      <4>2. (b # 0 => b + 1 > 1) /\ (b + 1) - 1 = b
        BY <1>1
      <4> HIDE DEF x
      <4>3. /\ b # 0 => t[b] \notin Alnum
            /\ n < Len(t) => t[n + 1] \notin Alnum
        BY <4>1, <4>2
      <4> QED
        BY <4>1, <4>3 DEF Taken, x
    <3> QED
      BY <3>1
  <2>2. ASSUME Taken(t, n, b) PROVE b < n /\ x \in TokensOf(t)
    <3>1. IsToken(Piece(t, x)) /\ ~(b # 0 /\ t[b] \in Alnum) /\ (n < Len(t) => t[n + 1] \notin Alnum)
      BY <2>2 DEF Taken
    <3>2. b # n
      <4> SUFFICES ASSUME b = n PROVE FALSE
        OBVIOUS
      <4>1. Piece(t, x) = <<>>
        BY <1>1, RunEmpty
      <4>2. Len(<<>>) = 0 /\ ~(0 >= MinToken)
        BY LengthAssumption
      <4>3. ~IsToken(<<>>)
        BY <4>2 DEF IsToken
      <4> QED
        BY <3>1, <4>1, <4>3
    <3>3. b < n /\ x \in (1 .. Len(t)) \X (1 .. Len(t)) /\ x[1] = b + 1 /\ x[2] = n
      BY <1>1, <3>2
    <3>4. x \in Stretches(t, Hex)
      BY <3>3, StretchEnds
    <3>5. \A k \in b + 1 .. n : t[k] \in Alnum
      BY DEF Since, Hex, Alnum, Alphabetic
    <3>6. (b + 1 > 1 => b # 0) /\ (b + 1) - 1 = b /\ b + 1 <= n
      BY <1>1, <3>3
    <3>7. x \in Stretches(t, Alnum)
      <4>1. /\ x[1] <= x[2] /\ \A k \in x[1] .. x[2] : t[k] \in Alnum
            /\ x[1] > 1 => t[x[1] - 1] \notin Alnum
            /\ x[2] < Len(t) => t[x[2] + 1] \notin Alnum
        <5> HIDE DEF x
        <5> QED
          BY <3>1, <3>3, <3>5, <3>6
      <4> QED
        BY <1>1, <3>3, <4>1 DEF Stretches
    <3> QED
      BY <3>1, <3>3, <3>4, <3>7 DEF TokensOf
  <2> QED
    BY <2>1, <2>2
<1> HIDE DEF x
<1>4. InOrder(t, EndBefore(TokensOf(t), n + 1)) =
        IF b < n /\ <<b + 1, n>> \in TokensOf(t)
        THEN Append(InOrder(t, EndBefore(TokensOf(t), b)), Piece(t, <<b + 1, n>>))
        ELSE InOrder(t, EndBefore(TokensOf(t), b))
  <2>1. Ended(t, Hex, TokensOf(t), n, b)
    BY <1>2, PieceEnds
  <2> QED
    BY <2>1 DEF Ended
<1> QED
  BY <1>3, <1>4 DEF x

LEMMA ScannerHolds ==
  ASSUME NEW t \in Seq(Characters)
  PROVE  \A n \in 0 .. Len(t) : \E b \in 0 .. n : Holds(t, n, b)
<1> DEFINE Bad == {n \in 0 .. Len(t) : ~\E b \in 0 .. n : Holds(t, n, b)}
<1>1. Len(t) \in Nat
  BY LenProperties
<1>2. TokensOf(t) \in SUBSET Stretches(t, Hex)
  BY DEF TokensOf
<1> SUFFICES ASSUME Bad # {} PROVE FALSE
  OBVIOUS
<1>3. PICK n \in Bad : \A k \in Bad : n <= k
  <2>1. Bad \in SUBSET Nat
    BY <1>1
  <2> HIDE DEF Bad
  <2> QED
    BY <2>1, LeastExists
<1>4. n \in 0 .. Len(t) /\ n \in Nat /\ ~\E b \in 0 .. n : Holds(t, n, b)
  <2>1. n \in 0 .. Len(t) /\ ~\E b \in 0 .. n : Holds(t, n, b)
    <3> HIDE DEF Holds
    <3> QED
      OBVIOUS
  <2> QED
    BY <1>1, <2>1
<1>5. CASE n = 0
  <2>1. Since(t, Hex, 0, 0) /\ Piece(t, <<0 + 1, 0>>) = <<>>
    BY SinceMoves, RunEmpty
  <2>2. EndBefore(TokensOf(t), 0) = {}
    BY <1>2, EndBeforeBounds
  <2>3. InOrder(t, EndBefore(TokensOf(t), 0)) = <<>>
    BY <2>2, InOrderNone
  <2>4. Scanned(t)[0] = ScanStart
    BY ScannedIs
  <2>5. (0 # 0 /\ t[0] \in Alnum) = FALSE
    OBVIOUS
  <2>6. Scanned(t)[0] = [tokens |-> InOrder(t, EndBefore(TokensOf(t), 0)),
                         current |-> Piece(t, <<0 + 1, 0>>), preceded |-> 0 # 0 /\ t[0] \in Alnum]
    BY <2>1, <2>3, <2>4, <2>5 DEF ScanStart
  <2>7. 0 \in 0 .. 0
    OBVIOUS
  <2>8. Holds(t, 0, 0)
    BY <2>1, <2>6, <2>7 DEF Holds
  <2> QED
    BY <1>4, <1>5, <2>7, <2>8
<1>6. CASE n # 0
  <2> DEFINE p == n - 1
             ch == t[n]
  <2>1. p \in 0 .. Len(t) /\ p \in Nat /\ ~(n <= p) /\ p < Len(t) /\ n \in 1 .. Len(t) /\ p + 1 = n
    BY <1>1, <1>4, <1>6
  <2>2. PICK b \in 0 .. p : Holds(t, p, b)
    <3>1. p \notin Bad
      BY <1>3, <2>1
    <3> HIDE DEF Holds, p
    <3> QED
      BY <2>1, <3>1
  <2>3. ch \in Characters
    BY <2>1, ElementOfSeq
  <2> DEFINE before == InOrder(t, EndBefore(TokensOf(t), b))
             run == Piece(t, <<b + 1, p>>)
             preceded == b # 0 /\ t[b] \in Alnum
             s == [tokens |-> before, current |-> run, preceded |-> preceded]
  <2>4. Since(t, Hex, p, b) /\ Scanned(t)[p] = s
    BY <2>2 DEF Holds
  <2>5. Scanned(t)[n] = Scan(s, ch)
    BY <2>1, <2>4, ScannedIs
  <2>6. CASE ch \in Hex
    <3>1. Since(t, Hex, n, b)
      <4> HIDE DEF p
      <4> QED
        BY <2>1, <2>4, <2>6, SinceMoves
    <3>2. Append(run, Lower[ch]) = Piece(t, <<b + 1, n>>)
      <4>1. Append(Piece(t, <<b + 1, p>>), Lower[t[p + 1]]) = Piece(t, <<b + 1, p + 1>>)
        <5> HIDE DEF p
        <5> QED
          BY <2>1, RunGrows
      <4> QED
        BY <2>1, <4>1
    <3>3. b \in 0 .. n
      BY <2>1
    <3>4. Scan(s, ch) = [s EXCEPT !.current = Append(@, Lower[ch])]
      BY <2>6 DEF Scan
    <3>5. Scan(s, ch) = [tokens |-> before, current |-> Append(run, Lower[ch]), preceded |-> preceded]
      <4> HIDE DEF before, run, preceded, ch
      <4> QED
        BY <3>4
    <3>6. Holds(t, n, b)
      BY <2>5, <3>1, <3>2, <3>3, <3>5 DEF Holds
    <3> QED
      BY <1>4, <3>3, <3>6
  <2>7. CASE ch \notin Hex
    <3>1. Since(t, Hex, n, n)
      <4> HIDE DEF p
      <4> QED
        BY <2>1, <2>7, SinceMoves
    <3>2. Piece(t, <<n + 1, n>>) = <<>>
      BY <1>4, RunEmpty
    <3>3. InOrder(t, EndBefore(TokensOf(t), n)) =
            IF Taken(t, p, b) THEN Append(before, run) ELSE before
      <4>1. p < Len(t) => t[p + 1] \notin Hex
        BY <2>1, <2>7
      <4>2. InOrder(t, EndBefore(TokensOf(t), p + 1)) =
              IF Taken(t, p, b) THEN Append(before, run) ELSE before
        <5> HIDE DEF p
        <5> QED
          BY <2>1, <2>4, <4>1, TokenEnds
      <4> QED
        BY <2>1, <4>2
    <3>4. Taken(t, p, b) <=> IsToken(run) /\ ~preceded /\ ch \notin Alnum
      <4>1. p < Len(t) /\ t[p + 1] = ch
        BY <2>1
      <4> QED
        BY <4>1 DEF Taken
    <3>5. Scan(s, ch) = [tokens |-> IF IsToken(s.current) /\ ~s.preceded /\ ch \notin Alnum
                                    THEN Append(s.tokens, s.current) ELSE s.tokens,
                         current |-> <<>>, preceded |-> ch \in Alnum]
      BY <2>7 DEF Scan
    <3>6. s.tokens = before /\ s.current = run /\ s.preceded = preceded
      OBVIOUS
    <3>7. (n # 0 /\ t[n] \in Alnum) = (ch \in Alnum)
      BY <1>6
    <3> DEFINE after == InOrder(t, EndBefore(TokensOf(t), n))
    <3>8. after = IF IsToken(run) /\ ~preceded /\ ch \notin Alnum THEN Append(before, run) ELSE before
      BY <3>3, <3>4
    <3>9. Scan(s, ch) = [tokens |-> after, current |-> <<>>, preceded |-> ch \in Alnum]
      <4> HIDE DEF s, before, run, preceded, ch, after
      <4> QED
        BY <3>5, <3>6, <3>8
    <3>10. Scanned(t)[n] = [tokens |-> after, current |-> Piece(t, <<n + 1, n>>),
                            preceded |-> n # 0 /\ t[n] \in Alnum]
      <4> HIDE DEF s, after
      <4> QED
        BY <2>5, <3>2, <3>7, <3>9
    <3>11. n \in 0 .. n
      BY <1>4
    <3>12. Holds(t, n, n)
      BY <3>1, <3>10, <3>11 DEF Holds
    <3> QED
      BY <1>4, <3>11, <3>12
  <2> QED
    BY <2>6, <2>7
<1> QED
  BY <1>5, <1>6

LEMMA TokensAre ==
  ASSUME NEW t \in Seq(Characters)
  PROVE  ExtractHexTokens(t) = InOrder(t, TokensOf(t))
<1> DEFINE n == Len(t)
           end == Scanned(t)[n]
<1>1. n \in Nat /\ n \in 0 .. Len(t) /\ ~(n < Len(t))
  BY LenProperties
<1>2. PICK b \in 0 .. n : Holds(t, n, b)
  <2> HIDE DEF n
  <2> QED
    BY <1>1, ScannerHolds
<1> DEFINE before == InOrder(t, EndBefore(TokensOf(t), b))
           run == Piece(t, <<b + 1, n>>)
<1>3. /\ Since(t, Hex, n, b) /\ end.tokens = before /\ end.current = run
      /\ end.preceded = (b # 0 /\ t[b] \in Alnum)
  BY <1>2 DEF Holds
<1>4. TokensOf(t) \in SUBSET Stretches(t, Hex)
  BY DEF TokensOf
<1>5. EndBefore(TokensOf(t), n + 1) = TokensOf(t)
  BY <1>4, EndBeforeBounds
<1>6. InOrder(t, TokensOf(t)) = IF Taken(t, n, b) THEN Append(before, run) ELSE before
  <2>1. InOrder(t, EndBefore(TokensOf(t), n + 1)) =
          IF Taken(t, n, b) THEN Append(before, run) ELSE before
    <3> HIDE DEF n, end
    <3> QED
      BY <1>1, <1>3, TokenEnds
  <2> QED
    BY <1>5, <2>1
<1>7. Taken(t, n, b) <=> ~end.preceded /\ IsToken(end.current)
  <2> HIDE DEF end
  <2> QED
    BY <1>1, <1>3 DEF Taken
<1>8. ExtractHexTokens(t) = IF ~end.preceded /\ IsToken(end.current)
                            THEN Append(end.tokens, end.current) ELSE end.tokens
  BY DEF ExtractHexTokens
<1> HIDE DEF end, before, run, n
<1> QED
  BY <1>3, <1>6, <1>7, <1>8

\* The scanner of hexadecimal tokens, which goes along the message once and
\* remembers a run and whether a letter stood before it (extract_hex_tokens), finds
\* in every message exactly the words that are all hexadecimal, of a length within
\* the limits and not a plain number, in order, the last one included.
THEOREM TokensAreFound == TextSpec => []TokensStandAlone
<1>1. TextType => TokensStandAlone
  <2> SUFFICES ASSUME TextType PROVE TokensStandAlone
    OBVIOUS
  <2>1. ExtractHexTokens(text) = InOrder(text, TokensOf(text))
    BY TokensAre DEF TextType
  <2> QED
    BY <2>1 DEF TokensStandAlone, TokensOf
<1> QED
  BY <1>1, Typed, PTL

-----------------------------------------------------------------------------
(* The words of a message and the profane ones among them.                 *)
Words     == Seq(Characters)
Wanted    == {w \in Words : w # <<>> /\ LooksLikeWord(w) /\ IsProfane(w)}
Found(ws) == [i \in DOMAIN Where(ws, Wanted) |-> LowerCase(Where(ws, Wanted)[i])]

\* What ProfanityStandsAlone asks of a stretch of letters and digits.
SwornAt(t, ij) ==
  \A k \in ij[1] .. ij[2] : \E m \in ij[1] .. k, n \in k .. ij[2] :
    Piece(t, <<m, n>>) \in Swearwords
DigitsAt(t, ij)  == {k \in ij[1] .. ij[2] : t[k] \in Digits}
ProfaneAt(t, ij) ==
  /\ SwornAt(t, ij)
  /\ 2 * Cardinality(DigitsAt(t, ij)) < ij[2] - ij[1] + 1
  /\ Piece(t, ij) \notin Allowed
ProfaneOf(t) == {ij \in Stretches(t, Alnum) : ProfaneAt(t, ij)}

LEMMA Cut ==
  ASSUME NEW t \in Seq(Characters), NEW b \in 0 .. Len(t), NEW n \in b .. Len(t)
  PROVE  /\ SubSeq(t, b + 1, n) \in Seq(Characters) /\ Len(SubSeq(t, b + 1, n)) = n - b
         /\ \A k \in 1 .. n - b : SubSeq(t, b + 1, n)[k] = t[b + k]
<1> DEFINE u == SubSeq(t, b + 1, n)
           d == n - b
<1>1. Len(t) \in Nat /\ b \in Nat /\ n \in Nat /\ d \in Nat /\ b + 1 \in Int /\ n \in Int
  BY LenProperties
<1>2. \A k \in b + 1 .. n : t[k] \in Characters
  <2>1. \A k \in b + 1 .. n : k \in 1 .. Len(t)
    BY <1>1
  <2> QED
    BY <2>1, ElementOfSeq
<1>3. /\ u \in Seq(Characters)
      /\ Len(u) = IF b + 1 <= n THEN n - (b + 1) + 1 ELSE 0
      /\ \A k \in 1 .. n - (b + 1) + 1 : u[k] = t[(b + 1) + k - 1]
  BY <1>1, <1>2, SubSeqProperties
<1>4. n - (b + 1) + 1 = d /\ (~(b + 1 <= n) => d = 0) /\ \A k \in 1 .. d : (b + 1) + k - 1 = b + k
  BY <1>1
<1> HIDE DEF u, d
<1>5. u \in Seq(Characters) /\ Len(u) = d /\ \A k \in 1 .. d : u[k] = t[b + k]
  BY <1>3, <1>4
<1> QED
  BY <1>5 DEF u, d

\* A piece of a piece.
LEMMA CutAgain ==
  ASSUME NEW t \in Seq(Characters), NEW b \in 0 .. Len(t), NEW n \in b .. Len(t),
         NEW i \in 1 .. n - b, NEW j \in i .. n - b
  PROVE  SubSeq(SubSeq(t, b + 1, n), i, j) = SubSeq(t, b + i, b + j)
<1> DEFINE u == SubSeq(t, b + 1, n)
           c == i - 1
           e == j - c
           x == SubSeq(u, i, j)
           y == SubSeq(t, b + i, b + j)
<1>1. Len(t) \in Nat /\ b \in Nat /\ n \in Nat /\ i \in Nat /\ j \in Nat /\ c \in Nat /\ e \in Nat
  BY LenProperties
<1>2. u \in Seq(Characters) /\ Len(u) = n - b /\ \A k \in 1 .. n - b : u[k] = t[b + k]
  BY Cut
<1>3. /\ SubSeq(u, c + 1, j) \in Seq(Characters) /\ Len(SubSeq(u, c + 1, j)) = j - c
      /\ \A k \in 1 .. j - c : SubSeq(u, c + 1, j)[k] = u[c + k]
  <2>1. c \in 0 .. Len(u) /\ j \in c .. Len(u)
    BY <1>1, <1>2
  <2> HIDE DEF u, c
  <2> QED
    BY <1>2, <2>1, Cut
<1>4. /\ SubSeq(t, (b + c) + 1, b + j) \in Seq(Characters)
      /\ Len(SubSeq(t, (b + c) + 1, b + j)) = (b + j) - (b + c)
      /\ \A k \in 1 .. (b + j) - (b + c) : SubSeq(t, (b + c) + 1, b + j)[k] = t[(b + c) + k]
  <2> DEFINE p == b + c
             q == b + j
  <2>1. p \in 0 .. Len(t) /\ q \in p .. Len(t)
    BY <1>1
  <2> HIDE DEF p, q
  <2>2. /\ SubSeq(t, p + 1, q) \in Seq(Characters) /\ Len(SubSeq(t, p + 1, q)) = q - p
        /\ \A k \in 1 .. q - p : SubSeq(t, p + 1, q)[k] = t[p + k]
    BY <2>1, Cut
  <2> QED
    BY <2>2 DEF p, q
<1>5. c + 1 = i /\ (b + c) + 1 = b + i /\ (b + j) - (b + c) = e /\ j - c = e
  BY <1>1
<1>6. \A k \in 1 .. e : c + k \in 1 .. n - b /\ b + (c + k) = (b + c) + k
  BY <1>1
<1>7. /\ x \in Seq(Characters) /\ Len(x) = e /\ \A k \in 1 .. e : x[k] = u[c + k]
      /\ y \in Seq(Characters) /\ Len(y) = e /\ \A k \in 1 .. e : y[k] = t[(b + c) + k]
  BY <1>3, <1>4, <1>5
<1> HIDE DEF x, y, u, c, e
<1>8. \A k \in 1 .. e : x[k] = y[k]
  BY <1>2, <1>6, <1>7
<1>9. x = y
  BY <1>7, <1>8, SeqEqual
<1> QED
  BY <1>9 DEF x, y, u

\* The swearwords that cover a word cover the stretch that it is.
LEMMA SwornIs ==
  ASSUME NEW t \in Seq(Characters), NEW b \in 0 .. Len(t), NEW n \in b .. Len(t)
  PROVE  Censored(SubSeq(t, b + 1, n)) = DOMAIN SubSeq(t, b + 1, n) <=> SwornAt(t, <<b + 1, n>>)
<1> DEFINE u == SubSeq(t, b + 1, n)
           d == n - b
           Sworn(i, j) == LowerCase(SubSeq(u, i, j)) \in Swearwords
<1>1. Len(t) \in Nat /\ b \in Nat /\ n \in Nat /\ d \in Nat
  BY LenProperties
<1>2. DOMAIN u = 1 .. d
  BY Cut, LenProperties
<1>3. \A i \in 1 .. d, j \in 1 .. d : i <= j => (Sworn(i, j) <=> Piece(t, <<b + i, b + j>>) \in Swearwords)
  <2> SUFFICES ASSUME NEW i \in 1 .. d, NEW j \in 1 .. d, i <= j
               PROVE  Sworn(i, j) <=> Piece(t, <<b + i, b + j>>) \in Swearwords
    OBVIOUS
  <2>1. j \in i .. n - b
    BY <1>1
  <2>2. SubSeq(u, i, j) = SubSeq(t, b + i, b + j)
    BY <2>1, CutAgain
  <2> QED
    BY <2>2 DEF Piece
<1>4. Censored(u) = DOMAIN u <=> \A k \in 1 .. d : \E i, j \in 1 .. d : i <= k /\ k <= j /\ Sworn(i, j)
  <2>1. Censored(u) = {k \in 1 .. d : \E i, j \in 1 .. d : i <= k /\ k <= j /\ Sworn(i, j)}
    <3> HIDE DEF u, d
    <3> QED
      BY <1>2 DEF Censored
  <2> HIDE DEF Sworn, u, d
  <2> QED
    BY <1>2, <2>1
<1>5. SwornAt(t, <<b + 1, n>>) <=>
        \A k \in b + 1 .. n : \E m \in b + 1 .. k, q \in k .. n : Piece(t, <<m, q>>) \in Swearwords
  BY DEF SwornAt
<1> HIDE DEF Sworn
<1>6. ASSUME Censored(u) = DOMAIN u PROVE SwornAt(t, <<b + 1, n>>)
  <2> SUFFICES ASSUME NEW k \in b + 1 .. n
               PROVE  \E m \in b + 1 .. k, q \in k .. n : Piece(t, <<m, q>>) \in Swearwords
    BY <1>5
  <2>1. k - b \in 1 .. d
    BY <1>1
  <2>2. PICK i \in 1 .. d, j \in 1 .. d : i <= k - b /\ k - b <= j /\ Sworn(i, j)
    BY <1>4, <1>6, <2>1
  <2>3. b + i \in b + 1 .. k /\ b + j \in k .. n /\ i <= j
    BY <1>1, <2>2
  <2> QED
    BY <1>3, <2>2, <2>3
<1>7. ASSUME SwornAt(t, <<b + 1, n>>) PROVE Censored(u) = DOMAIN u
  <2> SUFFICES ASSUME NEW k \in 1 .. d
               PROVE  \E i, j \in 1 .. d : i <= k /\ k <= j /\ Sworn(i, j)
    BY <1>4
  <2>1. b + k \in b + 1 .. n
    BY <1>1
  <2>2. PICK m \in b + 1 .. b + k, q \in b + k .. n : Piece(t, <<m, q>>) \in Swearwords
    BY <1>5, <1>7, <2>1
  <2>3. /\ m - b \in 1 .. d /\ q - b \in 1 .. d /\ m - b <= k /\ k <= q - b /\ m - b <= q - b
        /\ b + (m - b) = m /\ b + (q - b) = q
    BY <1>1, <2>2
  <2>4. Sworn(m - b, q - b)
    BY <1>3, <2>2, <2>3
  <2> QED
    BY <2>3, <2>4
<1> QED
  BY <1>6, <1>7

\* More letters than digits is less than half of them digits.
LEMMA WordlikeIs ==
  ASSUME NEW t \in Seq(Characters), NEW b \in 0 .. Len(t), NEW n \in b .. Len(t),
         \A k \in b + 1 .. n : t[k] \in Alnum
  PROVE  LooksLikeWord(SubSeq(t, b + 1, n)) <=>
           2 * Cardinality(DigitsAt(t, <<b + 1, n>>)) < n - (b + 1) + 1
<1> DEFINE u == SubSeq(t, b + 1, n)
           d == n - b
           A == {i \in 1 .. d : u[i] \in Alphabetic}
           G == {i \in 1 .. d : u[i] \in Digits}
           H == DigitsAt(t, <<b + 1, n>>)
<1>1. Len(t) \in Nat /\ b \in Nat /\ n \in Nat /\ d \in Nat
  BY LenProperties
<1>2. DOMAIN u = 1 .. d /\ \A k \in 1 .. d : u[k] = t[b + k]
  BY Cut, LenProperties
<1>3. LooksLikeWord(u) <=> Cardinality(A) > Cardinality(G)
  BY <1>2 DEF LooksLikeWord
<1>4. H = After(b, G)
  <2>1. H = {k \in b + 1 .. n : t[k] \in Digits}
    BY DEF DigitsAt
  <2>2. ASSUME NEW k \in H PROVE k \in After(b, G)
    <3>1. k \in b + 1 .. n /\ t[k] \in Digits
      BY <2>1, <2>2
    <3>2. k - b \in 1 .. d /\ b + (k - b) = k
      BY <1>1, <3>1
    <3>3. k - b \in G
      BY <1>2, <3>1, <3>2
    <3> HIDE DEF G, H
    <3> QED
      BY <3>2, <3>3 DEF After
  <2>3. ASSUME NEW k \in After(b, G) PROVE k \in H
    <3>1. PICK j \in G : k = b + j
      BY <2>3 DEF After
    <3>2. k \in b + 1 .. n /\ t[k] = u[j] /\ u[j] \in Digits
      BY <1>1, <1>2, <3>1
    <3> QED
      BY <2>1, <3>2
  <2> QED
    BY <2>2, <2>3
<1>5. G \in SUBSET (1 .. d) /\ A \in SUBSET (1 .. d)
  OBVIOUS
<1>6. A \cup G = 1 .. d /\ A \cap G = {}
  <2>1. \A k \in 1 .. d : b + k \in b + 1 .. n
    BY <1>1
  <2>2. \A k \in 1 .. d : u[k] \in Alnum
    BY <1>2, <2>1
  <2>3. \A c \in Alnum : c \in Alphabetic \/ c \in Digits
    BY DEF Alnum
  <2>4. \A c : ~(c \in Alphabetic /\ c \in Digits)
    BY CharacterAssumption DEF Alphabetic
  <2> QED
    BY <2>2, <2>3, <2>4
<1> HIDE DEF A, G, H, u
<1>7. Cardinality(H) = Cardinality(G)
  <2> HIDE DEF d
  <2> QED
    BY <1>1, <1>4, <1>5, AfterCardinality
<1>8. IsFiniteSet(A) /\ IsFiniteSet(G) /\ Cardinality(A) \in Nat /\ Cardinality(G) \in Nat
  <2> HIDE DEF d
  <2> QED
    BY <1>1, <1>5, RankProperties
<1>9. Cardinality(1 .. d) = d
  <2>1. Cardinality(1 .. d) = IF 1 > d THEN 0 ELSE d - 1 + 1
    <3> HIDE DEF d
    <3> QED
      BY <1>1, FS_Interval
  <2> QED
    BY <1>1, <2>1
<1>10. Cardinality(A) + Cardinality(G) = d
  <2>1. Cardinality(A \cup G) = Cardinality(A) + Cardinality(G)
    BY <1>6, <1>8, DisjointUnion
  <2> QED
    BY <1>6, <1>9, <2>1
<1>11. n - (b + 1) + 1 = d
  BY <1>1
<1>12. \A x, y \in Nat : x > y <=> 2 * y < x + y
  OBVIOUS
<1>13. Cardinality(A) > Cardinality(G) <=> 2 * Cardinality(H) < n - (b + 1) + 1
  <2>1. Cardinality(A) > Cardinality(G) <=> 2 * Cardinality(G) < Cardinality(A) + Cardinality(G)
    BY <1>8, <1>12
  <2> HIDE DEF d
  <2> QED
    BY <1>7, <1>10, <1>11, <2>1
<1> QED
  BY <1>3, <1>13 DEF u, H

LEMMA WantedIs ==
  ASSUME NEW t \in Seq(Characters), NEW b \in 0 .. Len(t), NEW n \in b .. Len(t), b < n,
         \A k \in b + 1 .. n : t[k] \in Alnum
  PROVE  SubSeq(t, b + 1, n) \in Wanted <=> ProfaneAt(t, <<b + 1, n>>)
<1> DEFINE u == SubSeq(t, b + 1, n)
<1>1. u \in Words /\ Len(u) = n - b /\ n - b # 0
  <2>1. u \in Seq(Characters) /\ Len(u) = n - b
    BY Cut
  <2>2. b \in Nat /\ n \in Nat
    BY LenProperties
  <2> QED
    BY <2>1, <2>2 DEF Words
<1>2. u # <<>>
  <2>1. Len(<<>>) = 0
    OBVIOUS
  <2> HIDE DEF u
  <2> QED
    BY <1>1, <2>1
<1>3. LowerCase(u) = Piece(t, <<b + 1, n>>)
  BY DEF Piece
<1>4. IsProfane(u) <=> SwornAt(t, <<b + 1, n>>) /\ Piece(t, <<b + 1, n>>) \notin Allowed
  <2>1. Censored(u) = DOMAIN u <=> SwornAt(t, <<b + 1, n>>)
    BY SwornIs
  <2> QED
    BY <1>3, <2>1 DEF IsProfane
<1>5. LooksLikeWord(u) <=> 2 * Cardinality(DigitsAt(t, <<b + 1, n>>)) < n - (b + 1) + 1
  BY WordlikeIs
<1> HIDE DEF u
<1>6. u \in Wanted <=> LooksLikeWord(u) /\ IsProfane(u)
  BY <1>1, <1>2 DEF Wanted
<1>7. ProfaneAt(t, <<b + 1, n>>) <=>
        /\ SwornAt(t, <<b + 1, n>>) /\ 2 * Cardinality(DigitsAt(t, <<b + 1, n>>)) < n - (b + 1) + 1
        /\ Piece(t, <<b + 1, n>>) \notin Allowed
  BY DEF ProfaneAt
<1> QED
  BY <1>4, <1>5, <1>6, <1>7 DEF u

LEMMA WhereOne ==
  ASSUME NEW w
  PROVE  Where(<<w>>, Wanted) = IF w \in Wanted THEN <<w>> ELSE <<>>
<1> DEFINE s == <<w>>
           T == {i \in DOMAIN s : s[i] \in Wanted}
<1>1. s \in Seq({w}) /\ DOMAIN s = {1} /\ s[1] = w
  OBVIOUS
<1>2. CASE w \in Wanted
  <2>1. T = DOMAIN s
    BY <1>1, <1>2
  <2>2. Part(s, DOMAIN s) = s
    <3> HIDE DEF s
    <3> QED
      BY <1>1, PartAll
  <2> QED
    BY <1>2, <2>1, <2>2 DEF Where
<1>3. CASE w \notin Wanted
  <2>1. T = {}
    BY <1>1, <1>3
  <2>2. Part(s, {}) = <<>>
    BY PartNone
  <2> QED
    BY <1>3, <2>1, <2>2 DEF Where
<1> QED
  BY <1>2, <1>3

\* One word more is found or is not.
LEMMA FoundGrows ==
  ASSUME NEW ws \in Seq(Words), NEW w \in Words
  PROVE  Found(Append(ws, w)) = IF w \in Wanted THEN Append(Found(ws), LowerCase(w)) ELSE Found(ws)
<1> DEFINE a == Where(ws, Wanted)
           b == Where(Append(ws, w), Wanted)
<1>1. <<w>> \in Seq(Words) /\ Append(ws, w) = ws \o <<w>>
  <2>1. <<w>> \in Seq(Words)
    <3> HIDE DEF Words
    <3> QED
      OBVIOUS
  <2>2. Append(ws, w) = ws \o <<w>>
    <3> HIDE DEF Words
    <3> QED
      BY AppendIsConcat
  <2> QED
    BY <2>1, <2>2
<1>2. b = a \o (IF w \in Wanted THEN <<w>> ELSE <<>>)
  <2>1. Where(ws \o <<w>>, Wanted) = Where(ws, Wanted) \o Where(<<w>>, Wanted)
    <3> DEFINE y == <<w>>
    <3>1. y \in Seq(Words)
      BY <1>1
    <3>2. Where(ws \o y, Wanted) = Where(ws, Wanted) \o Where(y, Wanted)
      <4> HIDE DEF y, Words
      <4> QED
        BY <3>1, WhereConcat
    <3> QED
      BY <3>2
  <2> QED
    BY <1>1, <2>1, WhereOne
<1>3. a \in Seq(Words) /\ Len(a) \in Nat /\ DOMAIN a = 1 .. Len(a)
  <2>1. {i \in DOMAIN ws : ws[i] \in Wanted} \in SUBSET DOMAIN ws
    OBVIOUS
  <2>2. a \in Seq(Words)
    BY <2>1, PartType DEF Where
  <2> QED
    BY <2>2, LenProperties
<1>4. Found(ws) = [i \in DOMAIN a |-> LowerCase(a[i])] /\ Found(Append(ws, w)) = [i \in DOMAIN b |-> LowerCase(b[i])]
  BY DEF Found
<1> HIDE DEF a, b
<1>5. CASE w \notin Wanted
  <2>1. b = a
    BY <1>2, <1>3, <1>5, ConcatEmptySeq
  <2> QED
    BY <1>4, <1>5, <2>1
<1>6. CASE w \in Wanted
  <2> DEFINE n == Len(a)
             L == {LowerCase(v) : v \in Words}
             f == Found(ws)
             g == Found(Append(ws, w))
             h == Append(f, LowerCase(w))
  <2>1. b = Append(a, w)
    BY <1>2, <1>3, <1>6, AppendIsConcat
  <2>2. /\ b \in Seq(Words) /\ Len(b) = n + 1 /\ DOMAIN b = 1 .. n + 1
        /\ \A k \in 1 .. n : b[k] = a[k]
        /\ b[n + 1] = w
    <3>1. /\ Append(a, w) \in Seq(Words) /\ Len(Append(a, w)) = n + 1
          /\ \A k \in 1 .. n : Append(a, w)[k] = a[k]
          /\ Append(a, w)[n + 1] = w
      BY <1>3, AppendProperties
    <3> QED
      BY <2>1, <3>1, LenProperties
  <2>3. n \in Nat /\ n + 1 \in 1 .. n + 1 /\ n + 1 \in Nat /\ \A k \in 1 .. n + 1 : k \in 1 .. n \/ k = n + 1
    BY <1>3
  <2>4. f \in Seq(L) /\ Len(f) = n /\ \A k \in 1 .. n : f[k] = LowerCase(a[k])
    <3>1. \A k \in 1 .. n : a[k] \in Words
      BY <1>3, ElementOfSeq
    <3>2. f \in [1 .. n -> L] /\ \A k \in 1 .. n : f[k] = LowerCase(a[k])
      BY <1>3, <1>4, <3>1
    <3> HIDE DEF f, L, n
    <3>3. f \in Seq(L)
      BY <2>3, <3>2, SeqDef
    <3> QED
      BY <2>3, <3>2, <3>3, LenProperties
  <2>5. g \in Seq(L) /\ Len(g) = n + 1 /\ \A k \in 1 .. n + 1 : g[k] = LowerCase(b[k])
    <3>1. \A k \in 1 .. n + 1 : b[k] \in Words
      BY <2>2, ElementOfSeq
    <3>2. g \in [1 .. n + 1 -> L] /\ \A k \in 1 .. n + 1 : g[k] = LowerCase(b[k])
      BY <1>4, <2>2, <3>1
    <3> HIDE DEF g, L, n
    <3>3. g \in Seq(L)
      BY <2>3, <3>2, SeqDef
    <3> QED
      BY <2>3, <3>2, <3>3, LenProperties
  <2>6. LowerCase(w) \in L
    OBVIOUS
  <2> HIDE DEF f, g, L, n
  <2>7. /\ h \in Seq(L) /\ Len(h) = n + 1 /\ \A k \in 1 .. n : h[k] = f[k]
        /\ h[n + 1] = LowerCase(w)
    BY <2>4, <2>6, AppendProperties
  <2> HIDE DEF h
  <2>8. \A k \in 1 .. n + 1 : g[k] = h[k]
    <3>1. \A k \in 1 .. n : g[k] = h[k]
      <4> SUFFICES ASSUME NEW k \in 1 .. n PROVE g[k] = h[k]
        OBVIOUS
      <4>1. k \in 1 .. n + 1
        BY <2>3
      <4> QED
        BY <2>2, <2>4, <2>5, <2>7, <4>1
    <3>2. g[n + 1] = h[n + 1]
      BY <2>2, <2>3, <2>5, <2>7
    <3> QED
      BY <2>3, <3>1, <3>2
  <2>9. g = h
    BY <2>5, <2>7, <2>8, SeqEqual
  <2> QED
    BY <1>6, <2>9 DEF f, g, h
<1> QED
  BY <1>5, <1>6

\* What str::split has cut off, and the word it is in.
SplitState == [words : Seq(Words), last : Words]
SplitStart == [words |-> <<>>, last |-> <<>>]
SplitStep(s, ch) ==
  IF ch \in Alnum THEN [s EXCEPT !.last = Append(@, ch)]
  ELSE [words |-> Append(s.words, s.last), last |-> <<>>]

LEMMA SplitTyped == \A s \in SplitState, ch \in Characters : SplitStep(s, ch) \in SplitState
<1> SUFFICES ASSUME NEW s \in SplitState, NEW ch \in Characters PROVE SplitStep(s, ch) \in SplitState
  OBVIOUS
<1>1. s.words \in Seq(Words) /\ s.last \in Words
  BY DEF SplitState
<1>2. Append(s.last, ch) \in Words
  BY <1>1, AppendProperties DEF Words
<1>3. <<>> \in Words
  BY EmptySeq DEF Words
<1> HIDE DEF Words
<1>4. Append(s.words, s.last) \in Seq(Words)
  BY <1>1, AppendProperties
<1>5. CASE ch \in Alnum
  <2>1. SplitStep(s, ch) = [s EXCEPT !.last = Append(@, ch)]
    BY <1>5 DEF SplitStep
  <2> QED
    BY <1>2, <2>1 DEF SplitState
<1>6. CASE ch \notin Alnum
  <2>1. SplitStep(s, ch) = [words |-> Append(s.words, s.last), last |-> <<>>]
    BY <1>6 DEF SplitStep
  <2> QED
    BY <1>3, <1>4, <2>1 DEF SplitState
<1> QED
  BY <1>5, <1>6

LEMMA SplitIs ==
  ASSUME NEW t \in Seq(Characters)
  PROVE  /\ Split(t)[0] = SplitStart
         /\ \A n \in 1 .. Len(t) : Split(t)[n] = SplitStep(Split(t)[n - 1], t[n])
         /\ \A n \in 0 .. Len(t) : Split(t)[n] \in SplitState
<1> DEFINE N == Len(t)
           D == 0 .. N
           S == 1 .. N
           V == SplitState
           m == [n \in D |-> n]
           next == [n \in S |-> n - 1]
           F == [n \in S |-> [v \in V |-> SplitStep(v, t[n])]]
           base == [n \in D |-> SplitStart]
           Loop(f) == f = [n \in 0 .. Len(t) |->
                             IF n = 0 THEN [words |-> <<>>, last |-> <<>>]
                             ELSE IF t[n] \in Alnum
                             THEN [f[n - 1] EXCEPT !.last = Append(@, t[n])]
                             ELSE [words |-> Append(f[n - 1].words, f[n - 1].last), last |-> <<>>]]
           Steps(f) == f = [n \in 0 .. Len(t) |-> IF n = 0 THEN SplitStart
                                                  ELSE SplitStep(f[n - 1], t[n])]
<1>1. N \in Nat /\ N + 1 \in Nat /\ \A n \in S : t[n] \in Characters
  BY LenProperties, ElementOfSeq
<1>2. SplitStart \in V
  <2>1. <<>> \in Words
    BY EmptySeq DEF Words
  <2> HIDE DEF Words
  <2> QED
    BY <2>1, EmptySeq DEF SplitStart, SplitState
<1>3. F \in [S -> [V -> V]] /\ base \in [D -> V]
  <2> HIDE DEF V
  <2>1. \A n \in S, v \in V : SplitStep(v, t[n]) \in V
    BY <1>1, SplitTyped DEF V
  <2> QED
    BY <1>2, <2>1
<1>4. m \in [D -> Nat] /\ (\A p \in D : m[p] < N + 1) /\ S \in SUBSET D /\ next \in [S -> D]
  BY <1>1
<1>5. \A p \in S : m[next[p]] < m[p]
  <2> SUFFICES ASSUME NEW p \in S PROVE m[next[p]] < m[p]
    OBVIOUS
  <2>1. next[p] = p - 1 /\ p - 1 \in D /\ p \in D /\ p - 1 < p
    BY <1>1
  <2> QED
    BY <2>1
<1>6. Chained(D, V, N + 1, m, S, next, F, base)
  <2> HIDE DEF D, S, V, m, next, F, base, N
  <2> QED
    BY <1>1, <1>3, <1>4, <1>5 DEF Chained
<1>7. PICK f \in [D -> V] : \A p \in D : f[p] = IF p \in S THEN F[p][f[next[p]]] ELSE base[p]
  <2> HIDE DEF D, S, V, m, next, F, base, N
  <2> QED
    BY <1>6, RecursionExists
<1>8. Steps(f)
  <2>1. ASSUME NEW n \in D PROVE f[n] = IF n = 0 THEN SplitStart ELSE SplitStep(f[n - 1], t[n])
    <3>1. CASE n = 0
      <4>1. n \notin S
        BY <3>1
      <4>2. f[n] = base[n]
        BY <1>7, <4>1
      <4> QED
        BY <3>1, <4>2
    <3>2. CASE n # 0
      <4>1. n \in S /\ n - 1 \in D
        BY <1>1, <3>2
      <4>2. f[n] = F[n][f[next[n]]] /\ next[n] = n - 1 /\ f[n - 1] \in V
        BY <1>7, <4>1
      <4> HIDE DEF V
      <4> QED
        BY <3>2, <4>1, <4>2
    <3> QED
      BY <3>1, <3>2
  <2>2. f = [n \in D |-> f[n]]
    OBVIOUS
  <2> HIDE DEF V
  <2> QED
    BY <2>1, <2>2
<1>9. \A g : Loop(g) <=> Steps(g)
  BY DEF SplitStart, SplitStep
<1>10. Split(t) = CHOOSE g : Loop(g)
  BY DEF Split
<1>11. Steps(Split(t))
  <2> HIDE DEF Loop, Steps
  <2> QED
    BY <1>8, <1>9, <1>10
<1>12. /\ \A n \in 1 .. Len(t) : n \in 0 .. Len(t) /\ n # 0 /\ n - 1 \in 0 .. Len(t) /\ n - 1 \in Nat
       /\ 0 \in 0 .. Len(t)
  BY <1>1
<1> DEFINE g == Split(t)
<1>13. \A n \in 0 .. Len(t) : g[n] = IF n = 0 THEN SplitStart ELSE SplitStep(g[n - 1], t[n])
  <2>1. Steps(g)
    BY <1>11
  <2> HIDE DEF g
  <2> QED
    BY <2>1
<1> HIDE DEF g
<1>14. \A n \in 0 .. Len(t) : g[n] \in V
  <2> DEFINE Bad == {n \in 0 .. Len(t) : g[n] \notin V}
  <2> HIDE DEF V
  <2> SUFFICES ASSUME Bad # {} PROVE FALSE
    OBVIOUS
  <2>1. PICK n \in Bad : \A k \in Bad : n <= k
    <3>1. Bad \in SUBSET Nat
      BY <1>1
    <3> HIDE DEF Bad
    <3> QED
      BY <3>1, LeastExists
  <2>2. n # 0
    BY <1>2, <1>12, <1>13
  <2>3. n \in 1 .. Len(t) /\ n - 1 \in 0 .. Len(t) /\ ~(n <= n - 1)
    BY <1>1, <2>2
  <2>4. g[n - 1] \in V
    BY <2>1, <2>3
  <2>5. SplitStep(g[n - 1], t[n]) \in V
    BY <1>1, <2>3, <2>4, SplitTyped DEF V
  <2> QED
    BY <1>13, <2>2, <2>5
<1> QED
  BY <1>12, <1>13, <1>14 DEF g

\* Where a word ends, what is found so far is what stood before that end.
LEMMA WordEnds ==
  ASSUME NEW t \in Seq(Characters), NEW n \in 0 .. Len(t), NEW b \in 0 .. n,
         Since(t, Alnum, n, b), n < Len(t) => t[n + 1] \notin Alnum,
         NEW ws \in Seq(Words), Found(ws) = InOrder(t, EndBefore(ProfaneOf(t), b))
  PROVE  Found(Append(ws, SubSeq(t, b + 1, n))) = InOrder(t, EndBefore(ProfaneOf(t), n + 1))
<1> DEFINE w == SubSeq(t, b + 1, n)
           x == <<b + 1, n>>
<1>1. Len(t) \in Nat /\ n \in Nat /\ b \in Nat /\ b \in 0 .. Len(t) /\ n \in b .. Len(t)
  BY LenProperties
<1>2. w \in Words
  BY <1>1, Cut DEF Words
<1>3. Found(Append(ws, w)) = IF w \in Wanted THEN Append(Found(ws), LowerCase(w)) ELSE Found(ws)
  <2> HIDE DEF w, Words
  <2> QED
    BY <1>2, FoundGrows
<1>4. LowerCase(w) = Piece(t, x)
  BY DEF Piece
<1>5. w \in Wanted <=> b < n /\ x \in ProfaneOf(t)
  <2>1. CASE b = n
    <3>1. w = <<>>
      BY <1>1, <2>1, RunEmpty
    <3>2. <<>> \notin Wanted
      BY DEF Wanted
    <3>3. ~(b < n)
      BY <1>1, <2>1
    <3> HIDE DEF w, x
    <3> QED
      BY <3>1, <3>2, <3>3
  <2>2. CASE b # n
    <3>1. b < n /\ x \in (1 .. Len(t)) \X (1 .. Len(t)) /\ x[2] = n
      BY <1>1, <2>2
    <3>2. x \in Stretches(t, Alnum)
      BY <3>1, StretchEnds
    <3>3. \A k \in b + 1 .. n : t[k] \in Alnum
      BY DEF Since
    <3>4. w \in Wanted <=> ProfaneAt(t, x)
      BY <1>1, <3>1, <3>3, WantedIs
    <3> HIDE DEF w, x
    <3> QED
      BY <3>1, <3>2, <3>4 DEF ProfaneOf
  <2> QED
    BY <2>1, <2>2
<1>6. Ended(t, Alnum, ProfaneOf(t), n, b)
  <2>1. ProfaneOf(t) \in SUBSET Stretches(t, Alnum)
    BY DEF ProfaneOf
  <2> QED
    BY <2>1, PieceEnds
<1>7. InOrder(t, EndBefore(ProfaneOf(t), n + 1)) =
        IF b < n /\ x \in ProfaneOf(t)
        THEN Append(InOrder(t, EndBefore(ProfaneOf(t), b)), Piece(t, x))
        ELSE InOrder(t, EndBefore(ProfaneOf(t), b))
  BY <1>6 DEF Ended
<1> HIDE DEF w, x
<1>8. Found(Append(ws, w)) = InOrder(t, EndBefore(ProfaneOf(t), n + 1))
  BY <1>3, <1>4, <1>5, <1>7
<1> QED
  BY <1>8 DEF w

\* The split after n characters, b the last that is no letter or digit.
SplitHolds(t, n, b) ==
  /\ b \in 0 .. n /\ Since(t, Alnum, n, b)
  /\ Split(t)[n].last = SubSeq(t, b + 1, n)
  /\ Found(Split(t)[n].words) = InOrder(t, EndBefore(ProfaneOf(t), b))

LEMMA SplitterHolds ==
  ASSUME NEW t \in Seq(Characters)
  PROVE  \A n \in 0 .. Len(t) : \E b \in 0 .. n : SplitHolds(t, n, b)
<1> DEFINE Bad == {n \in 0 .. Len(t) : ~\E b \in 0 .. n : SplitHolds(t, n, b)}
<1>1. Len(t) \in Nat
  BY LenProperties
<1>2. ProfaneOf(t) \in SUBSET Stretches(t, Alnum)
  BY DEF ProfaneOf
<1> SUFFICES ASSUME Bad # {} PROVE FALSE
  OBVIOUS
<1>3. PICK n \in Bad : \A k \in Bad : n <= k
  <2>1. Bad \in SUBSET Nat
    BY <1>1
  <2> HIDE DEF Bad
  <2> QED
    BY <2>1, LeastExists
<1>4. n \in 0 .. Len(t) /\ n \in Nat /\ ~\E b \in 0 .. n : SplitHolds(t, n, b)
  <2>1. n \in 0 .. Len(t) /\ ~\E b \in 0 .. n : SplitHolds(t, n, b)
    <3> HIDE DEF SplitHolds
    <3> QED
      OBVIOUS
  <2> QED
    BY <1>1, <2>1
<1>5. CASE n = 0
  <2>1. Since(t, Alnum, 0, 0) /\ SubSeq(t, 0 + 1, 0) = <<>>
    BY SinceMoves, RunEmpty
  <2>2. EndBefore(ProfaneOf(t), 0) = {}
    BY <1>2, EndBeforeBounds
  <2>3. InOrder(t, EndBefore(ProfaneOf(t), 0)) = <<>>
    BY <2>2, InOrderNone
  <2>4. Split(t)[0].words = <<>> /\ Split(t)[0].last = <<>>
    BY SplitIs DEF SplitStart
  <2>5. Found(<<>>) = <<>>
    <3>1. Where(<<>>, Wanted) = Part(<<>>, {})
      BY DEF Where
    <3>2. Where(<<>>, Wanted) = <<>>
      BY <3>1, PartNone
    <3> QED
      BY <3>2 DEF Found
  <2>6. 0 \in 0 .. 0
    OBVIOUS
  <2>7. SplitHolds(t, 0, 0)
    BY <2>1, <2>3, <2>4, <2>5, <2>6 DEF SplitHolds
  <2> QED
    BY <1>4, <1>5, <2>6, <2>7
<1>6. CASE n # 0
  <2> DEFINE p == n - 1
             ch == t[n]
             s == Split(t)[p]
  <2>1. p \in 0 .. Len(t) /\ p \in Nat /\ ~(n <= p) /\ p < Len(t) /\ n \in 1 .. Len(t) /\ p + 1 = n
    BY <1>1, <1>4, <1>6
  <2>2. PICK b \in 0 .. p : SplitHolds(t, p, b)
    <3>1. p \notin Bad
      BY <1>3, <2>1
    <3> HIDE DEF SplitHolds, p
    <3> QED
      BY <2>1, <3>1
  <2>3. /\ Since(t, Alnum, p, b) /\ s.last = SubSeq(t, b + 1, p)
        /\ Found(s.words) = InOrder(t, EndBefore(ProfaneOf(t), b))
    BY <2>2 DEF SplitHolds
  <2>4. Split(t)[n] = SplitStep(s, ch) /\ s \in SplitState
    BY <2>1, SplitIs
  <2> HIDE DEF s
  <2>5. s.words \in Seq(Words) /\ DOMAIN s = {"words", "last"}
    BY <2>4 DEF SplitState
  <2>6. CASE ch \in Alnum
    <3>1. Since(t, Alnum, n, b)
      <4> HIDE DEF p
      <4> QED
        BY <2>1, <2>3, <2>6, SinceMoves
    <3>2. Append(s.last, ch) = SubSeq(t, b + 1, n)
      <4>1. Append(SubSeq(t, b + 1, p), t[p + 1]) = SubSeq(t, b + 1, p + 1)
        <5> HIDE DEF p
        <5> QED
          BY <2>1, RunGrows
      <4> QED
        BY <2>1, <2>3, <4>1
    <3>3. b \in 0 .. n
      BY <2>1
    <3>4. Split(t)[n].last = Append(s.last, ch) /\ Split(t)[n].words = s.words
      <4>1. Split(t)[n] = [s EXCEPT !.last = Append(@, ch)]
        BY <2>4, <2>6 DEF SplitStep
      <4> HIDE DEF ch
      <4> QED
        BY <2>5, <4>1
    <3>5. SplitHolds(t, n, b)
      BY <2>3, <3>1, <3>2, <3>3, <3>4 DEF SplitHolds
    <3> QED
      BY <1>4, <3>3, <3>5
  <2>7. CASE ch \notin Alnum
    <3>1. Since(t, Alnum, n, n)
      <4> HIDE DEF p
      <4> QED
        BY <2>1, <2>7, SinceMoves
    <3>2. SubSeq(t, n + 1, n) = <<>>
      BY <1>4, RunEmpty
    <3>3. Found(Append(s.words, s.last)) = InOrder(t, EndBefore(ProfaneOf(t), n))
      <4>1. p < Len(t) => t[p + 1] \notin Alnum
        BY <2>1, <2>7
      <4>2. Found(Append(s.words, SubSeq(t, b + 1, p))) = InOrder(t, EndBefore(ProfaneOf(t), p + 1))
        <5> HIDE DEF p
        <5> QED
          BY <2>1, <2>3, <2>5, <4>1, WordEnds
      <4> QED
        BY <2>1, <2>3, <4>2
    <3>4. Split(t)[n] = [words |-> Append(s.words, s.last), last |-> <<>>]
      BY <2>4, <2>7 DEF SplitStep
    <3>5. Split(t)[n].words = Append(s.words, s.last) /\ Split(t)[n].last = <<>>
      BY <3>4
    <3>6. n \in 0 .. n
      BY <1>4
    <3>7. SplitHolds(t, n, n)
      BY <3>1, <3>2, <3>3, <3>5, <3>6 DEF SplitHolds
    <3> QED
      BY <1>4, <3>6, <3>7
  <2> QED
    BY <2>6, <2>7
<1> QED
  BY <1>5, <1>6

LEMMA ProfanityIs ==
  ASSUME NEW t \in Seq(Characters)
  PROVE  FindProfaneWords(t) = InOrder(t, ProfaneOf(t))
<1> DEFINE n == Len(t)
           end == Split(t)[n]
           all == Append(end.words, end.last)
           S == {i \in DOMAIN all : all[i] # <<>> /\ LooksLikeWord(all[i]) /\ IsProfane(all[i])}
           T == {i \in DOMAIN all : all[i] \in Wanted}
<1>1. n \in Nat /\ n \in 0 .. Len(t) /\ ~(n < Len(t))
  BY LenProperties
<1>2. PICK b \in 0 .. n : SplitHolds(t, n, b)
  <2> HIDE DEF n
  <2> QED
    BY <1>1, SplitterHolds
<1>3. /\ Since(t, Alnum, n, b) /\ end.last = SubSeq(t, b + 1, n)
      /\ Found(end.words) = InOrder(t, EndBefore(ProfaneOf(t), b))
  BY <1>2 DEF SplitHolds
<1>4. end.words \in Seq(Words) /\ end.last \in Words
  <2>1. end \in SplitState
    BY <1>1, SplitIs
  <2> QED
    BY <2>1 DEF SplitState
<1>5. EndBefore(ProfaneOf(t), n + 1) = ProfaneOf(t)
  <2>1. ProfaneOf(t) \in SUBSET Stretches(t, Alnum)
    BY DEF ProfaneOf
  <2> QED
    BY <2>1, EndBeforeBounds
<1>6. Found(all) = InOrder(t, ProfaneOf(t))
  <2>1. Found(Append(end.words, SubSeq(t, b + 1, n))) = InOrder(t, EndBefore(ProfaneOf(t), n + 1))
    <3> HIDE DEF n, end
    <3> QED
      BY <1>1, <1>3, <1>4, WordEnds
  <2> QED
    BY <1>3, <1>5, <2>1
<1>7. Pieces(t) = all
  BY DEF Pieces
<1>8. all \in Seq(Words)
  <2> HIDE DEF end, Words
  <2> QED
    BY <1>4, AppendProperties
<1> HIDE DEF all
<1>9. S = T
  <2>1. \A i \in DOMAIN all : all[i] \in Words
    BY <1>8, ElementOfSeq, LenProperties
  <2>2. \A w \in Words : w \in Wanted <=> w # <<>> /\ LooksLikeWord(w) /\ IsProfane(w)
    BY DEF Wanted
  <2> HIDE DEF Words
  <2> QED
    BY <2>1, <2>2
<1>10. FindProfaneWords(t) = [i \in DOMAIN Part(all, S) |-> LowerCase(Part(all, S)[i])]
  BY <1>7 DEF FindProfaneWords
<1>11. Found(all) = [i \in DOMAIN Part(all, T) |-> LowerCase(Part(all, T)[i])]
  BY DEF Found, Where
<1> QED
  BY <1>6, <1>9, <1>10, <1>11

\* The profane words found by splitting a message and filtering its pieces
\* (find_profane_words) are exactly its longest runs of letters and digits that are
\* covered by swearwords from end to end, mostly letters and not allowed, every
\* occurrence in order: nothing inside a longer word, nothing lost at either end.
THEOREM ProfanityIsFound == TextSpec => []ProfanityStandsAlone
<1>1. TextType => ProfanityStandsAlone
  <2> SUFFICES ASSUME TextType PROVE ProfanityStandsAlone
    OBVIOUS
  <2>1. FindProfaneWords(text) = InOrder(text, ProfaneOf(text))
    BY ProfanityIs DEF TextType
  <2> QED
    BY <2>1 DEF ProfanityStandsAlone, ProfaneOf, ProfaneAt, SwornAt, DigitsAt
<1> QED
  BY <1>1, Typed, PTL
-----------------------------------------------------------------------------
(* Division, and the digits of a number.                                   *)
LEMMA Division ==
  \A x \in Nat, b \in Nat \ {0} :
    x = b * (x \div b) + (x % b) /\ x % b \in 0 .. b - 1 /\ x \div b \in Nat
  OBVIOUS

LEMMA Multiples == \A b, p, q \in Nat : p < q => b * p + b <= b * q
  OBVIOUS

Quotient(x, b, q, r) == x \div b = q /\ x % b = r

LEMMA DivisionIs ==
  ASSUME NEW x \in Nat, NEW b \in Nat \ {0}, NEW q \in Nat, NEW r \in 0 .. b - 1, x = b * q + r
  PROVE  Quotient(x, b, q, r)
<1> DEFINE y == x \div b
           s == x % b
<1>1. x = b * y + s /\ s \in 0 .. b - 1 /\ y \in Nat
  BY Division
<1> HIDE DEF y, s
<1>2. ~(q < y)
  BY <1>1, Multiples
<1>3. ~(y < q)
  BY <1>1, Multiples
<1>4. y = q /\ s = r
  BY <1>1, <1>2, <1>3
<1> QED
  BY <1>4 DEF y, s, Quotient

LEMMA Distributes == \A x, y, z \in Nat : x * (y + z) = x * y + x * z /\ x * (y * z) = (x * y) * z /\ x * y \in Nat
  OBVIOUS

\* Dividing twice is dividing by the product.
Twice(x, a, b) == (x \div a) \div b = x \div (a * b)

LEMMA DivideTwice ==
  ASSUME NEW x \in Nat, NEW a \in Nat \ {0}, NEW b \in Nat \ {0}
  PROVE  Twice(x, a, b)
<1> DEFINE y == x \div a
           r == x % a
           z == y \div b
           s == y % b
           c == a * b
           u == a * s + r
<1>1. x = a * y + r /\ r \in 0 .. a - 1 /\ y \in Nat
  BY Division
<1> HIDE DEF y, r
<1>2. y = b * z + s /\ s \in 0 .. b - 1 /\ z \in Nat
  BY <1>1, Division
<1> HIDE DEF z, s
<1>3. c \in Nat \ {0}
  OBVIOUS
<1>4. a * y = c * z + a * s
  <2>1. a * y = a * (b * z) + a * s
    BY <1>2, Distributes
  <2> QED
    BY <1>2, <2>1, Distributes
<1>5. x = c * z + u
  <2>1. a * y \in Nat /\ c * z \in Nat /\ a * s \in Nat
    BY <1>1, <1>2, <1>3, Distributes
  <2> HIDE DEF c
  <2> QED
    BY <1>1, <1>4, <2>1
<1>6. u \in 0 .. c - 1
  <2>1. a * s + a <= a * b
    BY <1>2, Multiples
  <2>2. a * s \in Nat
    BY <1>2, Distributes
  <2> QED
    BY <1>1, <2>1, <2>2
<1> HIDE DEF c, u
<1>7. Quotient(x, c, z, u)
  BY <1>2, <1>3, <1>5, <1>6, DivisionIs
<1> QED
  BY <1>7 DEF c, z, y, Twice, Quotient

\* Two digits and one digit.
LEMMA TwoDigits ==
  ASSUME NEW x \in Nat, NEW b \in Nat \ {0}, NEW y \in 0 .. b * b - 1
  PROVE  /\ y = x % (b * b) <=> y \div b = (x \div b) % b /\ y % b = x % b
         /\ y \div b \in 0 .. b - 1
<1> DEFINE c == b * b
           q == x \div c
           m == x % c
           h == m \div b
           l == m % b
<1>1. c \in Nat \ {0} /\ y \in Nat
  OBVIOUS
<1>2. x = c * q + m /\ m \in 0 .. c - 1 /\ q \in Nat
  <2> HIDE DEF c
  <2> QED
    BY <1>1, Division
<1>3. \A k \in 0 .. c - 1 : k \in Nat /\ k = b * (k \div b) + (k % b) /\ k % b \in 0 .. b - 1 /\ k \div b \in Nat /\ k \div b < b
  <2> SUFFICES ASSUME NEW k \in 0 .. c - 1
               PROVE  k \in Nat /\ k = b * (k \div b) + (k % b) /\ k % b \in 0 .. b - 1
                      /\ k \div b \in Nat /\ k \div b < b
    OBVIOUS
  <2> DEFINE p == k \div b
             r == k % b
  <2>1. k \in Nat /\ k < b * b
    BY <1>1
  <2>2. k = b * p + r /\ r \in 0 .. b - 1 /\ p \in Nat
    BY <2>1, Division
  <2> HIDE DEF p, r
  <2>3. p < b
    <3> SUFFICES ASSUME ~(p < b) PROVE FALSE
      OBVIOUS
    <3>1. b * b <= b * p
      <4>1. p = b \/ b < p
        BY <2>2
      <4>2. b < p => b * b + b <= b * p
        BY <2>2, Multiples
      <4>3. b * p \in Nat /\ b * b \in Nat
        BY <2>2, Distributes
      <4> QED
        BY <4>1, <4>2, <4>3
    <3>2. b * p \in Nat /\ b * b \in Nat
      BY <2>2, Distributes
    <3> QED
      BY <2>1, <2>2, <3>1, <3>2
  <2> QED
    BY <2>1, <2>2, <2>3 DEF p, r
<1>4. m = b * h + l /\ l \in 0 .. b - 1 /\ h \in Nat /\ h < b
  BY <1>2, <1>3
<1> HIDE DEF h, l
<1>5. x \div b = b * q + h /\ x % b = l
  <2> DEFINE k == b * q + h
  <2>1. c * q = b * (b * q) /\ b * q \in Nat
    BY <1>2, Distributes
  <2>2. b * k = b * (b * q) + b * h /\ k \in Nat
    BY <1>4, <2>1, Distributes
  <2>3. b * h \in Nat /\ c * q \in Nat /\ b * k \in Nat
    BY <1>1, <1>2, <1>4, <2>2, Distributes
  <2> HIDE DEF k, q, m, c
  <2>4. x = b * k + l
    BY <1>2, <1>4, <2>1, <2>2, <2>3
  <2>5. Quotient(x, b, k, l)
    BY <1>4, <2>2, <2>4, DivisionIs
  <2> QED
    BY <2>5 DEF k, Quotient
<1>6. (b * q + h) % b = h
  <2>1. h \in 0 .. b - 1 /\ b * q + h \in Nat
    BY <1>2, <1>4, Distributes
  <2> DEFINE k == b * q + h
  <2>2. k = b * q + h /\ k \in Nat
    BY <2>1
  <2> HIDE DEF q, k
  <2>3. Quotient(k, b, q, h)
    BY <1>2, <2>1, <2>2, DivisionIs
  <2> QED
    BY <2>3 DEF Quotient, k
<1>7. y = m <=> y \div b = h /\ y % b = l
  <2>1. y = b * (y \div b) + (y % b)
    BY <1>3
  <2>2. m \div b = h /\ m % b = l
    BY DEF h, l
  <2> HIDE DEF m
  <2> QED
    BY <1>4, <2>1, <2>2
<1>8. y \div b \in 0 .. b - 1
  BY <1>3
<1> HIDE DEF q, m
<1> QED
  BY <1>5, <1>6, <1>7, <1>8 DEF c, m

\* A loop over the numbers up to N.
Loops(N, V, z, G) ==
  \E f \in [0 .. N -> V] : \A n \in 0 .. N : f[n] = IF n = 0 THEN z ELSE G[n][f[n - 1]]

LEMMA LoopExists ==
  ASSUME NEW N \in Nat, NEW V, NEW z \in V, NEW G \in [1 .. N -> [V -> V]]
  PROVE  Loops(N, V, z, G)
<1> DEFINE D == 0 .. N
           S == 1 .. N
           m == [n \in D |-> n]
           next == [n \in S |-> n - 1]
           base == [n \in D |-> z]
<1>1. base \in [D -> V] /\ m \in [D -> Nat] /\ S \in SUBSET D /\ next \in [S -> D] /\ N + 1 \in Nat
  OBVIOUS
<1>2. \A p \in D : m[p] < N + 1
  OBVIOUS
<1>3. \A p \in S : m[next[p]] < m[p]
  <2> SUFFICES ASSUME NEW p \in S PROVE m[next[p]] < m[p]
    OBVIOUS
  <2>1. next[p] = p - 1 /\ p - 1 \in D /\ p \in D /\ p - 1 < p
    OBVIOUS
  <2> QED
    BY <2>1
<1>4. Chained(D, V, N + 1, m, S, next, G, base)
  <2>1. G \in [S -> [V -> V]]
    OBVIOUS
  <2> HIDE DEF D, S, m, next, base
  <2> QED
    BY <1>1, <1>2, <1>3, <2>1 DEF Chained
<1>5. PICK f \in [D -> V] : \A p \in D : f[p] = IF p \in S THEN G[p][f[next[p]]] ELSE base[p]
  <2> HIDE DEF D, S, m, next, base
  <2> QED
    BY <1>4, RecursionExists
<1>6. ASSUME NEW n \in D PROVE f[n] = IF n = 0 THEN z ELSE G[n][f[n - 1]]
  <2>1. CASE n = 0
    <3>1. n \notin S
      BY <2>1
    <3>2. f[n] = base[n]
      BY <1>5, <3>1
    <3> QED
      BY <2>1, <3>2
  <2>2. CASE n # 0
    <3>1. n \in S
      BY <2>2
    <3>2. f[n] = G[n][f[next[n]]] /\ next[n] = n - 1
      BY <1>5, <3>1
    <3> QED
      BY <2>2, <3>2
  <2> QED
    BY <2>1, <2>2
<1> QED
  BY <1>6 DEF Loops

-----------------------------------------------------------------------------
(* Powers of two.                                                          *)
Doubling(n) == CHOOSE to : to = [k \in 0 .. n |-> IF k = 0 THEN 1 ELSE 2 * to[k - 1]]

LEMMA DoublingIs ==
  ASSUME NEW n \in Nat
  PROVE  \A k \in 0 .. n : /\ Doubling(n)[k] = IF k = 0 THEN 1 ELSE 2 * Doubling(n)[k - 1]
                           /\ Doubling(n)[k] \in Nat
<1> DEFINE G == [k \in 1 .. n |-> [v \in Nat |-> 2 * v]]
           Loop(g) == g = [k \in 0 .. n |-> IF k = 0 THEN 1 ELSE 2 * g[k - 1]]
           d == Doubling(n)
<1>1. G \in [1 .. n -> [Nat -> Nat]]
  OBVIOUS
<1>2. PICK f \in [0 .. n -> Nat] : \A k \in 0 .. n : f[k] = IF k = 0 THEN 1 ELSE G[k][f[k - 1]]
  <2>1. 1 \in Nat
    OBVIOUS
  <2> HIDE DEF G
  <2>2. Loops(n, Nat, 1, G)
    BY <1>1, <2>1, LoopExists
  <2> QED
    BY <2>2 DEF Loops
<1>3. \A k \in 0 .. n : k # 0 => k \in 1 .. n /\ k - 1 \in 0 .. n
  OBVIOUS
<1>4. \A k \in 0 .. n : f[k] = IF k = 0 THEN 1 ELSE 2 * f[k - 1]
  BY <1>2, <1>3
<1>5. Loop(f)
  BY <1>4
<1>6. Loop(d)
  <2>1. d = CHOOSE g : Loop(g)
    BY DEF Doubling
  <2> HIDE DEF Loop, d
  <2> QED
    BY <1>5, <2>1
<1> HIDE DEF d
<1>7. \A k \in 0 .. n : d[k] = IF k = 0 THEN 1 ELSE 2 * d[k - 1]
  BY <1>6
<1>8. d = f
  <2> DEFINE Bad == {k \in 0 .. n : d[k] # f[k]}
  <2>1. ASSUME Bad # {} PROVE FALSE
    <3>1. PICK k \in Bad : \A j \in Bad : k <= j
      <4>1. Bad \in SUBSET Nat
        OBVIOUS
      <4> HIDE DEF Bad
      <4> QED
        BY <2>1, <4>1, LeastExists
    <3>2. k # 0
      BY <1>4, <1>7
    <3>3. k - 1 \in 0 .. n /\ ~(k <= k - 1)
      BY <3>2
    <3>4. d[k - 1] = f[k - 1]
      BY <3>1, <3>3
    <3> QED
      BY <1>4, <1>7, <3>2, <3>4
  <2>2. \A k \in 0 .. n : d[k] = f[k]
    BY <2>1
  <2>3. DOMAIN d = 0 .. n /\ d = [k \in 0 .. n |-> d[k]]
    BY <1>6
  <2> QED
    BY <2>2, <2>3
<1>9. \A k \in 0 .. n : d[k] \in Nat
  BY <1>8
<1> QED
  BY <1>7, <1>9 DEF d

LEMMA BitIs == Bit(0) = 1 /\ \A n \in Nat : Bit(n) \in Nat \ {0} /\ Bit(n + 1) = 2 * Bit(n)
<1>1. \A n : Bit(n) = Doubling(n)[n]
  BY DEF Bit, Doubling
<1>2. Bit(0) = 1
  BY <1>1, DoublingIs
<1>3. ASSUME NEW n \in Nat PROVE Bit(n + 1) = 2 * Bit(n) /\ Bit(n) \in Nat
  <2> DEFINE a == Doubling(n)
             b == Doubling(n + 1)
             Bad == {k \in 0 .. n : a[k] # b[k]}
  <2>1. \A k \in 0 .. n : a[k] = IF k = 0 THEN 1 ELSE 2 * a[k - 1]
    BY DoublingIs
  <2>2. \A k \in 0 .. n + 1 : b[k] = IF k = 0 THEN 1 ELSE 2 * b[k - 1]
    BY DoublingIs
  <2> HIDE DEF a, b
  <2>3. ASSUME Bad # {} PROVE FALSE
    <3>1. PICK k \in Bad : \A j \in Bad : k <= j
      <4>1. Bad \in SUBSET Nat
        OBVIOUS
      <4> HIDE DEF Bad
      <4> QED
        BY <2>3, <4>1, LeastExists
    <3>2. k # 0 /\ k \in 0 .. n + 1
      BY <2>1, <2>2
    <3>3. k - 1 \in 0 .. n /\ ~(k <= k - 1)
      BY <3>2
    <3>4. a[k - 1] = b[k - 1]
      BY <3>1, <3>3
    <3> QED
      BY <2>1, <2>2, <3>2, <3>4
  <2>4. a[n] = b[n]
    <3>1. n \in 0 .. n
      OBVIOUS
    <3> QED
      BY <2>3, <3>1
  <2>5. b[n + 1] = 2 * b[n]
    <3>1. n + 1 \in 0 .. n + 1 /\ n + 1 # 0 /\ (n + 1) - 1 = n
      OBVIOUS
    <3> QED
      BY <2>2, <3>1
  <2>6. a[n] \in Nat
    BY DoublingIs DEF a
  <2>7. Bit(n) = a[n] /\ Bit(n + 1) = b[n + 1]
    BY <1>1 DEF a, b
  <2> QED
    BY <2>4, <2>5, <2>6, <2>7
<1>4. \A n \in Nat : Bit(n) # 0
  <2> DEFINE Bad == {n \in Nat : Bit(n) = 0}
  <2>1. ASSUME Bad # {} PROVE FALSE
    <3>1. PICK n \in Bad : \A j \in Bad : n <= j
      <4>1. Bad \in SUBSET Nat
        OBVIOUS
      <4> HIDE DEF Bad
      <4> QED
        BY <2>1, <4>1, LeastExists
    <3>2. n # 0
      BY <1>2
    <3>3. n - 1 \in Nat /\ ~(n <= n - 1) /\ (n - 1) + 1 = n
      BY <3>2
    <3>4. Bit(n - 1) # 0 /\ Bit(n) = 2 * Bit(n - 1) /\ Bit(n - 1) \in Nat
      BY <1>3, <3>1, <3>3
    <3> QED
      BY <3>4
  <2> QED
    BY <2>1
<1> QED
  BY <1>2, <1>3, <1>4

LEMMA BitOfSum == \A m, n \in Nat : Bit(m + n) = Bit(m) * Bit(n)
<1> SUFFICES ASSUME NEW m \in Nat PROVE \A n \in Nat : Bit(m + n) = Bit(m) * Bit(n)
  OBVIOUS
<1> DEFINE Bad == {n \in Nat : Bit(m + n) # Bit(m) * Bit(n)}
<1> SUFFICES ASSUME Bad # {} PROVE FALSE
  OBVIOUS
<1>1. PICK n \in Bad : \A j \in Bad : n <= j
  <2>1. Bad \in SUBSET Nat
    OBVIOUS
  <2> HIDE DEF Bad
  <2> QED
    BY <2>1, LeastExists
<1>2. n # 0
  <2>1. Bit(m + 0) = Bit(m) * Bit(0)
    BY BitIs
  <2> QED
    BY <2>1
<1>3. n - 1 \in Nat /\ ~(n <= n - 1) /\ (n - 1) + 1 = n /\ (m + (n - 1)) + 1 = m + n /\ m + (n - 1) \in Nat
  BY <1>2
<1>4. Bit(m + (n - 1)) = Bit(m) * Bit(n - 1)
  BY <1>1, <1>3
<1>5. Bit(m + n) = 2 * Bit(m + (n - 1)) /\ Bit(n) = 2 * Bit(n - 1)
  BY <1>3, BitIs
<1>6. Bit(m) \in Nat /\ Bit(n - 1) \in Nat
  BY <1>3, BitIs
<1>7. \A x, y \in Nat : 2 * (x * y) = x * (2 * y)
  OBVIOUS
<1>8. Bit(m + n) = Bit(m) * Bit(n)
  BY <1>4, <1>5, <1>6, <1>7
<1> QED
  BY <1>8

-----------------------------------------------------------------------------
(* The fields and what a hash begins with.                                 *)
Place(k) == Bit(DigitBits * k)

LEMMA PlaceIs ==
  /\ Base \in Nat \ {0} /\ Place(0) = 1
  /\ \A k \in Nat : Place(k) \in Nat \ {0} /\ Place(k + 1) = Base * Place(k)
<1>1. DigitBits \in Nat /\ DigitBits * 0 = 0
  BY SearchAssumption
<1>2. Base \in Nat \ {0}
  BY <1>1, BitIs DEF Base
<1>3. ASSUME NEW k \in Nat PROVE Place(k) \in Nat \ {0} /\ Place(k + 1) = Base * Place(k)
  <2>1. DigitBits * k \in Nat /\ DigitBits * (k + 1) = DigitBits + DigitBits * k
    BY <1>1
  <2> QED
    BY <1>1, <2>1, BitIs, BitOfSum DEF Place, Base
<1> QED
  BY <1>1, <1>2, <1>3, BitIs DEF Place

\* Digit i of a field of len digits.
DigitAt(value, len, i) == (value \div Place(len - i)) % Base

LEMMA EncodeIs ==
  ASSUME NEW value \in Nat, NEW len \in Nat
  PROVE  /\ EncodeHex(value, len) \in [1 .. len -> Digit]
         /\ Len(EncodeHex(value, len)) = len
         /\ \A i \in 1 .. len : EncodeHex(value, len)[i] = DigitAt(value, len, i)
<1> DEFINE e == EncodeHex(value, len)
<1>1. e = [i \in 1 .. len |-> DigitAt(value, len, i)]
  BY DEF EncodeHex, DigitAt, Place
<1>2. \A i \in 1 .. len : DigitAt(value, len, i) \in Digit
  <2> SUFFICES ASSUME NEW i \in 1 .. len PROVE DigitAt(value, len, i) \in Digit
    OBVIOUS
  <2> DEFINE p == Place(len - i)
             x == value \div p
  <2>1. len - i \in Nat
    OBVIOUS
  <2>2. p \in Nat \ {0} /\ Base \in Nat \ {0}
    BY <2>1, PlaceIs
  <2> HIDE DEF p
  <2>3. x \in Nat
    BY <2>2, Division
  <2> HIDE DEF x
  <2>4. x % Base \in 0 .. Base - 1
    BY <2>2, <2>3, Division
  <2> QED
    BY <2>4 DEF DigitAt, Digit, x, p
<1> HIDE DEF e
<1>3. e \in [1 .. len -> Digit] /\ \A i \in 1 .. len : e[i] = DigitAt(value, len, i)
  BY <1>1, <1>2
<1>4. e \in Seq(Digit)
  BY <1>3, SeqDef
<1>5. Len(e) = len
  BY <1>3, <1>4, LenProperties
<1> QED
  BY <1>3, <1>5 DEF e

\* The number that a list of digits writes, after each of them.
Values(t) == CHOOSE value : value = [n \in 0 .. Len(t) |-> IF n = 0 THEN 0 ELSE value[n - 1] * Base + t[n]]

LEMMA ValuesAre ==
  ASSUME NEW t \in Seq(Digit)
  PROVE  \A k \in 0 .. Len(t) :
           Values(t)[k] = IF k = 0 THEN 0 ELSE Values(t)[k - 1] * Base + t[k]
<1> DEFINE n == Len(t)
           G == [k \in 1 .. n |-> [v \in Nat |-> v * Base + t[k]]]
           Loop(g) == g = [k \in 0 .. Len(t) |-> IF k = 0 THEN 0 ELSE g[k - 1] * Base + t[k]]
           d == Values(t)
<1>1. n \in Nat /\ Base \in Nat /\ \A k \in 1 .. n : t[k] \in Nat
  <2>1. n \in Nat /\ \A k \in 1 .. n : t[k] \in Digit
    BY LenProperties, ElementOfSeq
  <2>2. Base \in Nat
    BY PlaceIs
  <2> QED
    BY <2>1, <2>2 DEF Digit
<1>2. G \in [1 .. n -> [Nat -> Nat]]
  <2>1. \A k \in 1 .. n, v \in Nat : v * Base + t[k] \in Nat
    <3>1. \A x, y, z \in Nat : x * y + z \in Nat
      OBVIOUS
    <3> QED
      BY <1>1, <3>1
  <2> QED
    BY <2>1
<1>3. PICK f \in [0 .. n -> Nat] : \A k \in 0 .. n : f[k] = IF k = 0 THEN 0 ELSE G[k][f[k - 1]]
  <2>1. 0 \in Nat
    OBVIOUS
  <2> HIDE DEF G, n
  <2>2. Loops(n, Nat, 0, G)
    BY <1>1, <1>2, <2>1, LoopExists
  <2> QED
    BY <2>2 DEF Loops
<1>4. \A k \in 0 .. n : k # 0 => k \in 1 .. n /\ k - 1 \in 0 .. n
  BY <1>1
<1>5. \A k \in 0 .. n : f[k] = IF k = 0 THEN 0 ELSE f[k - 1] * Base + t[k]
  BY <1>3, <1>4
<1>6. Loop(f)
  BY <1>5
<1>7. Loop(d)
  <2>1. d = CHOOSE g : Loop(g)
    BY DEF Values
  <2> HIDE DEF Loop, d
  <2> QED
    BY <1>6, <2>1
<1> HIDE DEF d
<1>8. \A k \in 0 .. n : d[k] = IF k = 0 THEN 0 ELSE d[k - 1] * Base + t[k]
  BY <1>7
<1> QED
  BY <1>8 DEF d

LEMMA ParseIs ==
  ASSUME NEW t \in Seq(Digit)
  PROVE  LET parsed == ParseTargetPrefix(t)
         IN  /\ parsed.len = Len(t) /\ parsed.value \in 0 .. Place(Len(t)) - 1
             /\ EncodeHex(parsed.value, parsed.len) = t
<1> DEFINE n == Len(t)
           d == Values(t)
           Reads(k) == /\ d[k] \in 0 .. Place(k) - 1
                       /\ \A i \in 1 .. k : DigitAt(d[k], k, i) = t[i]
           Bad == {k \in 0 .. n : ~Reads(k)}
<1>1. /\ \A k \in 0 .. n : d[k] = IF k = 0 THEN 0 ELSE d[k - 1] * Base + t[k]
      /\ n \in Nat /\ (\A k \in 1 .. n : t[k] \in 0 .. Base - 1)
      /\ Base \in Nat \ {0}
  BY ValuesAre, LenProperties, ElementOfSeq, PlaceIs DEF Digit
<1> HIDE DEF d
<1>2. ASSUME Bad # {} PROVE FALSE
  <2>1. PICK k \in Bad : \A j \in Bad : k <= j
    <3>1. Bad \in SUBSET Nat
      BY <1>1
    <3> HIDE DEF Bad
    <3> QED
      BY <1>2, <3>1, LeastExists
  <2>2. k \in 0 .. n /\ k \in Nat /\ ~Reads(k)
    <3> HIDE DEF Reads
    <3>1. k \in 0 .. n /\ ~Reads(k)
      OBVIOUS
    <3> QED
      BY <1>1, <3>1
  <2>3. CASE k = 0
    <3>1. 0 \in 0 .. n
      BY <1>1
    <3>2. d[0] = 0
      BY <1>1, <3>1
    <3>3. 0 \in 0 .. Place(0) - 1
      BY PlaceIs
    <3>4. Reads(0)
      BY <3>2, <3>3
    <3> QED
      BY <2>2, <2>3, <3>4
  <2>4. CASE k # 0
    <3> DEFINE j == k - 1
               x == d[j]
               y == d[k]
    <3>1. j \in 0 .. n /\ j \in Nat /\ ~(k <= j) /\ k = j + 1 /\ k \in 1 .. n
      BY <1>1, <2>2, <2>4
    <3>2. Reads(j)
      <4>1. j \notin Bad
        BY <2>1, <3>1
      <4> HIDE DEF Reads, j
      <4> QED
        BY <3>1, <4>1
    <3>3. x \in 0 .. Place(j) - 1 /\ \A i \in 1 .. j : DigitAt(x, j, i) = t[i]
      BY <3>2
    <3>4. y = x * Base + t[k] /\ t[k] \in 0 .. Base - 1
      BY <1>1, <2>4, <3>1
    <3>5. Place(j) \in Nat \ {0} /\ Place(k) = Base * Place(j)
      BY <3>1, PlaceIs
    <3> HIDE DEF x, y
    <3>6. y = Base * x + t[k] /\ x \in Nat /\ Base * x \in Nat
      <4>1. x \in Nat
        BY <3>3, <3>5
      <4>2. \A p, q \in Nat : p * q = q * p /\ p * q \in Nat
        OBVIOUS
      <4> QED
        BY <1>1, <3>4, <4>1, <4>2
    <3>7. y \in Nat /\ y \in 0 .. Place(k) - 1
      <4>1. Base * x + Base <= Base * Place(j)
        <5> DEFINE p == Place(j)
        <5>1. p \in Nat /\ x < p
          BY <3>3, <3>5, <3>6
        <5> HIDE DEF p
        <5>2. Base * x + Base <= Base * p
          BY <1>1, <3>6, <5>1, Multiples
        <5> QED
          BY <5>2 DEF p
      <4>2. Base * Place(j) \in Nat
        BY <1>1, <3>5, Distributes
      <4> QED
        BY <1>1, <3>4, <3>5, <3>6, <4>1, <4>2
    <3>8. y \div Base = x /\ y % Base = t[k]
      <4> DEFINE s == t[k]
      <4>1. y = Base * x + s /\ s \in 0 .. Base - 1
        BY <3>4, <3>6
      <4> HIDE DEF s
      <4>2. Quotient(y, Base, x, s)
        BY <1>1, <3>6, <3>7, <4>1, DivisionIs
      <4> QED
        BY <4>2 DEF Quotient, s
    <3>9. ASSUME NEW i \in 1 .. k PROVE DigitAt(y, k, i) = t[i]
      <4>1. CASE i = k
        <5>1. k - i = 0 /\ y \div 1 = y
          BY <3>1, <3>7, <4>1
        <5> QED
          BY <3>8, <4>1, <5>1, PlaceIs DEF DigitAt
      <4>2. CASE i # k
        <5>1. i \in 1 .. j /\ j - i \in Nat /\ k - i = (j - i) + 1
          BY <3>1, <4>2
        <5> DEFINE p == Place(j - i)
        <5>2. p \in Nat \ {0} /\ Place(k - i) = Base * p
          BY <5>1, PlaceIs
        <5> HIDE DEF p
        <5>3. (y \div Base) \div p = y \div (Base * p)
          <6>1. Twice(y, Base, p)
            BY <1>1, <3>7, <5>2, DivideTwice
          <6> QED
            BY <6>1 DEF Twice
        <5>4. DigitAt(y, k, i) = (x \div p) % Base
          BY <3>8, <5>2, <5>3 DEF DigitAt
        <5>5. DigitAt(x, j, i) = (x \div p) % Base
          BY DEF DigitAt, p
        <5> QED
          BY <3>3, <5>1, <5>4, <5>5
      <4> QED
        BY <4>1, <4>2
    <3>10. Reads(k)
      BY <3>7, <3>9 DEF y
    <3> QED
      BY <2>2, <3>10
  <2> QED
    BY <2>3, <2>4
<1>3. Reads(n)
  <2>1. n \in 0 .. n
    BY <1>1
  <2> HIDE DEF Reads
  <2> QED
    BY <1>2, <2>1
<1> DEFINE v == d[n]
           parsed == ParseTargetPrefix(t)
           e == EncodeHex(v, n)
<1>4. v \in 0 .. Place(n) - 1 /\ \A i \in 1 .. n : DigitAt(v, n, i) = t[i]
  BY <1>3
<1>5. parsed = [value |-> v, len |-> n]
  BY DEF ParseTargetPrefix, Values, d
<1>6. v \in Nat
  BY <1>1, <1>4, PlaceIs
<1> HIDE DEF v, n
<1>7. e \in [1 .. n -> Digit] /\ \A i \in 1 .. n : e[i] = DigitAt(v, n, i)
  BY <1>1, <1>6, EncodeIs
<1>8. t \in [1 .. n -> Digit]
  BY SeqDef, LenProperties DEF n
<1>9. e = t
  <2> HIDE DEF e
  <2>1. \A i \in 1 .. n : e[i] = t[i]
    BY <1>4, <1>7
  <2>2. e = [i \in 1 .. n |-> e[i]] /\ t = [i \in 1 .. n |-> t[i]]
    BY <1>7, <1>8
  <2> QED
    BY <2>1, <2>2
<1>10. parsed.len = n /\ parsed.value = v
  BY <1>5
<1> HIDE DEF parsed
<1> QED
  BY <1>4, <1>9, <1>10 DEF parsed, n

\* Comparing bytes, and a half at the end, is comparing digits.
LEMMA MatchIs ==
  ASSUME NEW value \in Nat, NEW len \in Nat, NEW bytes \in Seq(0 .. Base * Base - 1),
         2 * Len(bytes) >= len
  PROVE  MatchesPrefix(bytes, value, len) <=> Begins(EncodeHex(value, len), HexDigits(bytes))
<1> DEFINE e == EncodeHex(value, len)
           h == HexDigits(bytes)
           n == Len(bytes)
           Wrote(i) == DigitAt(value, len, i)
<1>1. n \in Nat /\ Base \in Nat \ {0} /\ \A i \in 1 .. n : bytes[i] \in 0 .. Base * Base - 1
  BY LenProperties, ElementOfSeq, PlaceIs
<1>2. Len(e) = len /\ DOMAIN e = 1 .. len /\ \A i \in 1 .. len : e[i] = Wrote(i)
  BY EncodeIs
<1>3. h = [i \in 1 .. 2 * n |-> IF i % 2 = 1 THEN bytes[(i + 1) \div 2] \div Base
                                ELSE bytes[i \div 2] % Base]
  BY DEF HexDigits
<1>4. Len(h) = 2 * n
  <2> DEFINE X == {h[i] : i \in 1 .. 2 * n}
  <2>1. 2 * n \in Nat
    BY <1>1
  <2>2. h \in [1 .. 2 * n -> X]
    BY <1>3
  <2> HIDE DEF h, X
  <2>3. h \in Seq(X)
    BY <2>1, <2>2, SeqDef
  <2> QED
    BY <2>1, <2>2, <2>3, LenProperties
<1>5. \A i \in 1 .. n : h[2 * i - 1] = bytes[i] \div Base /\ h[2 * i] = bytes[i] % Base
  <2> SUFFICES ASSUME NEW i \in 1 .. n
               PROVE  h[2 * i - 1] = bytes[i] \div Base /\ h[2 * i] = bytes[i] % Base
    OBVIOUS
  <2>1. /\ 2 * i - 1 \in 1 .. 2 * n /\ 2 * i \in 1 .. 2 * n
        /\ (2 * i - 1) % 2 = 1 /\ ((2 * i - 1) + 1) \div 2 = i
        /\ (2 * i) % 2 # 1 /\ (2 * i) \div 2 = i
    BY <1>1
  <2> QED
    BY <1>3, <2>1
<1> HIDE DEF e, h
<1>6. Begins(e, h) <=> \A i \in 1 .. len : h[i] = Wrote(i)
  BY <1>1, <1>2, <1>4 DEF Begins
<1>7. ASSUME NEW i \in 1 .. len \div 2
      PROVE  bytes[i] = (value \div Place(len - 2 * i)) % (Base * Base)
               <=> h[2 * i - 1] = Wrote(2 * i - 1) /\ h[2 * i] = Wrote(2 * i)
  <2>1. i \in 1 .. n /\ len - 2 * i \in Nat /\ len - (2 * i - 1) = (len - 2 * i) + 1
    BY <1>1
  <2> DEFINE p == Place(len - 2 * i)
             x == value \div p
             y == bytes[i]
  <2>2. p \in Nat \ {0} /\ Place(len - (2 * i - 1)) = Base * p
    BY <2>1, PlaceIs
  <2> HIDE DEF p
  <2>3. x \in Nat
    BY <2>2, Division
  <2>4. Wrote(2 * i) = x % Base
    BY DEF DigitAt, p
  <2>5. Wrote(2 * i - 1) = (x \div Base) % Base
    <3>1. (value \div p) \div Base = value \div (p * Base)
      <4>1. Twice(value, p, Base)
        BY <1>1, <2>2, DivideTwice
      <4> QED
        BY <4>1 DEF Twice
    <3>2. p * Base = Base * p
      BY <1>1, <2>2
    <3> QED
      BY <2>2, <3>1, <3>2 DEF DigitAt
  <2>6. y \in 0 .. Base * Base - 1
    BY <1>1, <2>1
  <2> HIDE DEF x, y, Wrote
  <2>7. y = x % (Base * Base) <=> y \div Base = (x \div Base) % Base /\ y % Base = x % Base
    BY <1>1, <2>3, <2>6, TwoDigits
  <2>8. h[2 * i - 1] = y \div Base /\ h[2 * i] = y % Base
    BY <1>5, <2>1 DEF y
  <2> QED
    BY <2>4, <2>5, <2>7, <2>8 DEF x, y, p
<1>8. ASSUME len % 2 = 1
      PROVE  bytes[len \div 2 + 1] \div Base = value % Base <=> h[len] = Wrote(len)
  <2> DEFINE i == len \div 2 + 1
  <2>1. i \in 1 .. n /\ 2 * i - 1 = len
    BY <1>1, <1>8
  <2>2. h[len] = bytes[i] \div Base
    <3> HIDE DEF i
    <3> QED
      BY <1>5, <2>1
  <2>3. Wrote(len) = value % Base
    <3>1. len - len = 0 /\ value \div 1 = value
      OBVIOUS
    <3> QED
      BY <3>1, PlaceIs DEF DigitAt
  <2> QED
    BY <2>2, <2>3
<1>9. MatchesPrefix(bytes, value, len) <=>
        /\ \A i \in 1 .. len \div 2 : bytes[i] = (value \div Place(len - 2 * i)) % (Base * Base)
        /\ len % 2 = 1 => bytes[len \div 2 + 1] \div Base = value % Base
  BY DEF MatchesPrefix, Place
<1> HIDE DEF Wrote
<1>10. (\A i \in 1 .. len : h[i] = Wrote(i)) <=>
         /\ \A i \in 1 .. len \div 2 : h[2 * i - 1] = Wrote(2 * i - 1) /\ h[2 * i] = Wrote(2 * i)
         /\ len % 2 = 1 => h[len] = Wrote(len)
  <2>1. ASSUME \A i \in 1 .. len \div 2 : h[2 * i - 1] = Wrote(2 * i - 1) /\ h[2 * i] = Wrote(2 * i),
               len % 2 = 1 => h[len] = Wrote(len), NEW i \in 1 .. len
        PROVE  h[i] = Wrote(i)
    <3>1. CASE i % 2 = 0
      <4>1. i \div 2 \in 1 .. len \div 2 /\ 2 * (i \div 2) = i
        BY <3>1
      <4> QED
        BY <2>1, <4>1
    <3>2. CASE i % 2 = 1 /\ i # len
      <4>1. (i + 1) \div 2 \in 1 .. len \div 2 /\ 2 * ((i + 1) \div 2) - 1 = i
        BY <3>2
      <4> QED
        BY <2>1, <4>1
    <3>3. CASE i % 2 = 1 /\ i = len
      BY <2>1, <3>3
    <3>4. i % 2 \in {0, 1}
      OBVIOUS
    <3> QED
      BY <3>1, <3>2, <3>3, <3>4
  <2>2. \A i \in 1 .. len \div 2 : 2 * i - 1 \in 1 .. len /\ 2 * i \in 1 .. len
    OBVIOUS
  <2>3. len % 2 = 1 => len \in 1 .. len
    OBVIOUS
  <2> QED
    BY <2>1, <2>2, <2>3
<1>11. MatchesPrefix(bytes, value, len) <=> Begins(e, h)
  BY <1>6, <1>7, <1>8, <1>9, <1>10
<1> QED
  BY <1>11 DEF e, h

\* The threads share out every candidate.
LEMMA RangesCover ==
  ASSUME NEW n \in Nat \ {0}, NEW total \in Nat
  PROVE  /\ \A t \in 1 .. n : LET range == ThreadRange(n, t, total)
                              IN  /\ range.start \in Nat /\ range.end \in Nat
                                  /\ range.start <= range.end
         /\ \A c \in 0 .. total - 1 : \E t \in 1 .. n :
              LET range == ThreadRange(n, t, total) IN c \in range.start .. range.end - 1
<1> DEFINE q == total \div n
           First(t) == q * (t - 1)
           Past(t) == IF t = n THEN total ELSE q * t
<1>1. q \in Nat /\ total = n * q + (total % n) /\ total % n \in 0 .. n - 1
  BY Division
<1>2. \A t : ThreadRange(n, t, total) = [start |-> First(t), end |-> Past(t)]
  BY DEF ThreadRange
<1>3. n * q \in Nat /\ n * q = q * (n - 1) + q /\ q * (n - 1) \in Nat
  <2>1. \A x, y \in Nat : x * y = y * x /\ x * y \in Nat /\ (x # 0 => y * (x - 1) \in Nat /\ y * x = y * (x - 1) + y)
    OBVIOUS
  <2> HIDE DEF q
  <2> QED
    BY <1>1, <2>1
<1> HIDE DEF q
<1>4. ASSUME NEW t \in 1 .. n
      PROVE  First(t) \in Nat /\ q * t \in Nat /\ q * t = First(t) + q
  <2>1. \A x \in Nat : \A y \in Nat \ {0} : x * (y - 1) \in Nat /\ x * y \in Nat /\ x * y = x * (y - 1) + x
    OBVIOUS
  <2> QED
    BY <1>1, <2>1
<1>5. ASSUME NEW t \in 1 .. n PROVE First(t) \in Nat /\ Past(t) \in Nat /\ First(t) <= Past(t)
  <2>1. CASE t = n
    BY <1>1, <1>3, <1>4, <2>1
  <2>2. CASE t # n
    BY <1>1, <1>4, <2>2
  <2> QED
    BY <2>1, <2>2
<1>6. ASSUME NEW c \in 0 .. total - 1 PROVE \E t \in 1 .. n : c \in First(t) .. Past(t) - 1
  <2>1. CASE q * (n - 1) <= c
    <3>1. n \in 1 .. n /\ c \in First(n) .. Past(n) - 1
      BY <1>3, <2>1
    <3> QED
      BY <3>1
  <2>2. CASE ~(q * (n - 1) <= c)
    <3> DEFINE k == c \div q
               t == k + 1
    <3>1. q # 0
      BY <1>1, <1>3, <2>2
    <3>2. c \in Nat /\ q \in Nat \ {0}
      BY <1>1, <3>1
    <3>3. c = q * k + (c % q) /\ c % q \in 0 .. q - 1 /\ k \in Nat
      BY <3>2, Division
    <3> HIDE DEF k
    <3>4. k < n - 1
      <4> SUFFICES ASSUME ~(k < n - 1) PROVE FALSE
        OBVIOUS
      <4>1. k = n - 1 \/ n - 1 < k
        BY <3>3
      <4>2. n - 1 \in Nat
        OBVIOUS
      <4>3. q * (n - 1) <= q * k
        <5>1. n - 1 < k => q * (n - 1) + q <= q * k
          BY <3>2, <3>3, <4>2, Multiples
        <5>2. q * k \in Nat
          BY <3>2, <3>3, Distributes
        <5> QED
          BY <1>3, <3>2, <4>1, <5>1, <5>2
      <4>4. q * k \in Nat
        BY <3>2, <3>3, Distributes
      <4> QED
        BY <1>3, <2>2, <3>2, <3>3, <4>3, <4>4
    <3>5. t \in 1 .. n /\ t # n /\ t - 1 = k
      BY <3>3, <3>4
    <3>6. First(t) = q * k /\ Past(t) = q * k + q /\ q * k \in Nat
      <4>1. q * t = q * k + q /\ q * k \in Nat
        BY <1>4, <3>5
      <4> QED
        BY <3>5, <4>1
    <3>7. c \in First(t) .. Past(t) - 1
      BY <3>2, <3>3, <3>6
    <3> QED
      BY <3>5, <3>7
  <2> QED
    BY <2>1, <2>2
<1> HIDE DEF First, Past
<1> QED
  BY <1>2, <1>5, <1>6

-----------------------------------------------------------------------------
(* The search.  What main has accepted when it searches; what is good about *)
(* a field; and how far each thread has come.                              *)
Chosen ==
  /\ args.prefix_len \in Nat /\ args.prefix_len \in MinLen .. MaxLen /\ args.threads \in Nat
  /\ hash \in Hashes[args.prefix_len]
  /\ args.target # Nothing => /\ args.target \in Seq(Digit) /\ Len(args.target) <= MaxLen
                              /\ args.parent

Good(field) == Begins(IF args.target = Nothing THEN field ELSE args.target, HexDigits(hash[field]))

ThreadStates == [pc : {"turn", "try", "done"}, next : Nat, end : Nat, since : Nat,
                 result : Nat \cup {Nothing}]

Share(t) == ThreadRange(args.threads, t, Total)

SearchedBy(t) ==
  LET w == worker[t]
  IN  /\ w \in ThreadStates
      /\ w.end = Share(t).end /\ Share(t).start \in Nat
      /\ Share(t).start <= w.next /\ w.next <= w.end
      /\ w.pc = "try" => w.next < w.end
      /\ \A c \in Share(t).start .. w.next - 1 : ~Matches(c)
      /\ w.result # Nothing => Matches(w.result) /\ w.pc = "done"
      /\ w.pc = "done" /\ w.result = Nothing => w.next = w.end \/ found

SearchInv ==
  /\ \/ stage \in {"start", "refused"} /\ worker = <<>>
     \/ stage \in {"search", "panicked", "found", "exhausted"} /\ Chosen
  /\ worker # <<>> => /\ args.threads # 0 /\ DOMAIN worker = 1 .. args.threads
                      /\ \A t \in DOMAIN worker : SearchedBy(t)
  /\ found => \E t \in DOMAIN worker : worker[t].result # Nothing
  /\ SearchIsRight

\* A thread finds what is good, whether it looks for the field or the target.
LEMMA MatchesAre ==
  ASSUME Chosen, NEW c \in Nat
  PROVE  Matches(c) <=> Good(EncodeHex(c, args.prefix_len))
<1> DEFINE n == args.prefix_len
           e == EncodeHex(c, n)
           bytes == hash[e]
<1>1. n \in Nat /\ n \in MinLen .. MaxLen /\ n <= MaxLen /\ hash \in Hashes[n]
  BY DEF Chosen
<1>2. e \in [1 .. n -> Digit] /\ Len(e) = n
  BY <1>1, EncodeIs
<1> HIDE DEF e
<1>3. bytes \in Seq(0 .. Base * Base - 1) /\ 2 * Len(bytes) >= MaxLen
  BY <1>1, <1>2, Sha1Assumption
<1>4. MaxLen \in Nat /\ Len(bytes) \in Nat
  BY <1>3, SearchAssumption, LenProperties
<1> HIDE DEF bytes
<1>5. CASE args.target = Nothing
  <2>1. Matches(c) <=> MatchesPrefix(bytes, c, n)
    BY <1>5 DEF Matches, bytes, e
  <2>2. 2 * Len(bytes) >= n
    BY <1>1, <1>3, <1>4
  <2>3. MatchesPrefix(bytes, c, n) <=> Begins(EncodeHex(c, n), HexDigits(bytes))
    BY <1>1, <1>3, <2>2, MatchIs
  <2> QED
    BY <1>5, <2>1, <2>3 DEF Good, bytes, e
<1>6. CASE args.target # Nothing
  <2> DEFINE t == args.target
             p == ParseTargetPrefix(t)
             v == p.value
  <2>1. t \in Seq(Digit) /\ Len(t) <= MaxLen /\ Len(t) \in Nat
    BY <1>6, LenProperties DEF Chosen
  <2>2. Matches(c) <=> MatchesPrefix(bytes, v, p.len)
    BY <1>6 DEF Matches, bytes, e
  <2> HIDE DEF t
  <2>3. p.len = Len(t) /\ v \in 0 .. Place(Len(t)) - 1 /\ EncodeHex(v, p.len) = t
    BY <2>1, ParseIs
  <2> HIDE DEF p
  <2>4. v \in Nat
    BY <2>1, <2>3, PlaceIs
  <2> HIDE DEF v
  <2>5. 2 * Len(bytes) >= Len(t)
    BY <1>3, <1>4, <2>1
  <2>6. MatchesPrefix(bytes, v, Len(t)) <=> Begins(EncodeHex(v, Len(t)), HexDigits(bytes))
    BY <1>3, <2>1, <2>4, <2>5, MatchIs
  <2> QED
    BY <1>6, <2>2, <2>3, <2>6 DEF Good, bytes, e, t, v
<1> QED
  BY <1>5, <1>6

\* Where the space fits in a word every field is a candidate.
LEMMA FieldsAreCandidates ==
  ASSUME Chosen, DigitBits * args.prefix_len < WordBits, NEW field \in DOMAIN hash
  PROVE  \E c \in 0 .. Total - 1 : EncodeHex(c, args.prefix_len) = field
<1> DEFINE n == args.prefix_len
           p == ParseTargetPrefix(field)
<1>1. n \in Nat /\ n \in MinLen .. MaxLen /\ hash \in Hashes[n]
  BY DEF Chosen
<1>2. field \in [1 .. n -> Digit]
  BY <1>1, Sha1Assumption
<1>3. field \in Seq(Digit)
  BY <1>1, <1>2, SeqDef
<1>4. Len(field) = n
  BY <1>1, <1>2, <1>3, LenProperties
<1>5. p.value \in 0 .. Place(n) - 1 /\ EncodeHex(p.value, n) = field
  <2>1. p.len = Len(field) /\ p.value \in 0 .. Place(Len(field)) - 1
        /\ EncodeHex(p.value, p.len) = field
    BY <1>3, ParseIs
  <2> HIDE DEF p
  <2> QED
    BY <1>4, <2>1
<1>6. Total = Place(n)
  <2>1. DigitBits * n \in Nat
    BY <1>1, SearchAssumption
  <2>2. (DigitBits * n) % WordBits = DigitBits * n
    <3> DEFINE x == DigitBits * n
    <3>1. x \in Nat /\ x < WordBits
      BY <2>1
    <3> HIDE DEF x
    <3>2. x % WordBits = x
      BY <3>1, SearchAssumption
    <3> QED
      BY <3>2 DEF x
  <2> QED
    BY <2>2 DEF Total, Place
<1> QED
  BY <1>5, <1>6

LEMMA TotalIsNat == ASSUME Chosen PROVE Total \in Nat
<1>1. args.prefix_len \in Nat
  BY DEF Chosen
<1>2. DigitBits * args.prefix_len \in Nat
  BY <1>1, SearchAssumption
<1> DEFINE x == DigitBits * args.prefix_len
<1> HIDE DEF x
<1>3. x % WordBits \in Nat
  BY <1>2, SearchAssumption DEF x
<1> QED
  BY <1>3, BitIs DEF Total, x

Fits == DigitBits * args.prefix_len < WordBits

LEMMA RightIs ==
  SearchIsRight <=>
    /\ stage # "unverified"
    /\ stage = "exhausted" /\ Fits => \A field \in DOMAIN hash : ~Good(field)
    /\ stage = "found" => /\ Good(printed.value)
                          /\ printed.template.size = Len(printed.value)
                          /\ args.target # Nothing => printed.template.parent
  BY DEF SearchIsRight, Fits, Good

LEMMA SearchInvInit == SearchInit => SearchInv
  BY RightIs DEF SearchInit, SearchInv

LEMMA MainKeepsSearch ==
  ASSUME SearchInv, NEW n \in PrefixLens, NEW k \in ThreadCounts, NEW p \in BOOLEAN,
         NEW target \in Targets, NEW author \in BOOLEAN,
         Main([prefix_len |-> n, threads |-> k, parent |-> p, target |-> target], author)
  PROVE  SearchInv'
<1> DEFINE a == [prefix_len |-> n, threads |-> k, parent |-> p, target |-> target]
<1>1. /\ stage = "start" /\ args' = a /\ worker' = worker /\ found' = found
      /\ \/ Accepted(a, author) /\ stage' = "search" /\ hash' \in Hashes[a.prefix_len]
         \/ stage' = "refused"
  BY DEF Main
<1>2. worker = <<>> /\ ~found
  BY <1>1 DEF SearchInv
<1>3. a.prefix_len = n /\ a.threads = k /\ a.parent = p /\ a.target = target
  OBVIOUS
<1>4. n \in Nat /\ k \in Nat
  BY ArgumentsAssumption
<1> HIDE DEF a
<1>5. ASSUME Accepted(a, author), hash' \in Hashes[n] PROVE Chosen'
  <2>1. n \in MinLen .. MaxLen
    BY <1>3, <1>4, <1>5, SearchAssumption DEF Accepted
  <2>2. ASSUME target # Nothing PROVE target \in Seq(Digit) /\ Len(target) <= MaxLen /\ p
    <3>1. ValidTarget(target) /\ p
      BY <1>3, <1>5, <2>2 DEF Accepted
    <3>2. target \in Seq(Digit \cup {NotLowerHex})
      BY <2>2, ArgumentsAssumption
    <3>3. Len(target) \in Nat /\ DOMAIN target = 1 .. Len(target)
      BY <3>2, LenProperties
    <3>4. \A i \in 1 .. Len(target) : target[i] \in Digit
      <4>1. \A i \in 1 .. Len(target) : target[i] \in Digit \cup {NotLowerHex}
        BY <3>2, ElementOfSeq
      <4> QED
        BY <3>1, <3>3, <4>1 DEF ValidTarget
    <3>5. target \in [1 .. Len(target) -> Digit]
      BY <3>2, <3>3, <3>4, LenProperties
    <3>6. target \in Seq(Digit)
      BY <3>3, <3>5, SeqDef
    <3> QED
      BY <3>1, <3>6 DEF ValidTarget
  <2> QED
    BY <1>1, <1>3, <1>4, <1>5, <2>1, <2>2 DEF Chosen
<1>6. SearchIsRight'
  <2>1. stage' \in {"search", "refused"}
    BY <1>1
  <2> QED
    BY <2>1 DEF SearchIsRight
<1> QED
  BY <1>1, <1>2, <1>3, <1>5, <1>6 DEF SearchInv

LEMMA SpawnKeepsSearch == SearchInv /\ Spawn => SearchInv'
<1> SUFFICES ASSUME SearchInv, Spawn PROVE SearchInv'
  OBVIOUS
<1>1. /\ stage = "search" /\ worker = <<>> /\ Chosen /\ ~found
      /\ args' = args /\ hash' = hash /\ found' = found /\ printed' = printed
  BY DEF SearchInv, Spawn
<1>2. stage' \in {"search", "panicked"}
  BY DEF Spawn
<1>3. Chosen' /\ SearchIsRight'
  BY <1>1, <1>2 DEF Chosen, SearchIsRight
<1>4. CASE args.threads = 0
  <2>1. worker' = worker
    BY <1>4 DEF Spawn
  <2> QED
    BY <1>1, <1>2, <1>3, <2>1 DEF SearchInv
<1>5. CASE args.threads # 0
  <2> DEFINE n == args.threads
             W(t) == [pc |-> "turn", next |-> Share(t).start, end |-> Share(t).end,
                      since |-> 0, result |-> Nothing]
  <2>1. n \in Nat \ {0} /\ Total \in Nat
    BY <1>1, <1>5, TotalIsNat DEF Chosen
  <2>2. worker' = [t \in 1 .. n |-> W(t)]
    BY <1>5 DEF Spawn, Share
  <2>3. \A t \in 1 .. n : Share(t).start \in Nat /\ Share(t).end \in Nat
                          /\ Share(t).start <= Share(t).end
    <3> DEFINE total == Total
    <3> HIDE DEF total
    <3>1. \A t \in 1 .. n : LET range == ThreadRange(n, t, total)
                            IN  /\ range.start \in Nat /\ range.end \in Nat
                                /\ range.start <= range.end
      BY <2>1, RangesCover DEF total
    <3> QED
      BY <3>1 DEF Share, total
  <2>4. ASSUME NEW t \in 1 .. n PROVE SearchedBy(t)'
    <3>1. worker'[t] = W(t)
      BY <2>2
    <3>2. Share(t)' = Share(t)
      BY <1>1 DEF Share, Total
    <3> DEFINE s == Share(t)
    <3>3. s.start \in Nat /\ s.end \in Nat /\ s.start <= s.end
      BY <2>3
    <3> HIDE DEF s
    <3>4. \A c \in s.start .. s.start - 1 : FALSE
      BY <3>3
    <3>5. worker'[t] \in ThreadStates
      BY <3>1, <3>3 DEF ThreadStates, s
    <3> QED
      BY <3>1, <3>2, <3>3, <3>4, <3>5 DEF SearchedBy, s
  <2>5. DOMAIN worker' = 1 .. args'.threads /\ args'.threads # 0
    BY <1>1, <1>5, <2>2
  <2> QED
    BY <1>1, <1>2, <1>3, <1>5, <2>4, <2>5 DEF SearchInv
<1> QED
  BY <1>4, <1>5

\* One thread moves: the others, and what they have looked at, stay.
LEMMA OthersStay ==
  ASSUME SearchInv, NEW t \in DOMAIN worker, NEW w \in ThreadStates,
         worker' = [worker EXCEPT ![t] = w],
         args' = args, hash' = hash, stage' = stage, printed' = printed,
         found => found', w.result = worker[t].result \/ worker[t].result = Nothing,
         found' => found \/ w.result # Nothing, SearchedBy(t)'
  PROVE  SearchInv'
<1>1. /\ worker # <<>> /\ args.threads # 0 /\ DOMAIN worker = 1 .. args.threads
      /\ \A u \in DOMAIN worker : SearchedBy(u)
  <2>1. worker # <<>>
    OBVIOUS
  <2> QED
    BY <2>1 DEF SearchInv
<1>2. DOMAIN worker' = DOMAIN worker /\ worker'[t] = w
      /\ \A u \in DOMAIN worker : u # t => worker'[u] = worker[u]
  OBVIOUS
<1>3. Chosen
  BY <1>1 DEF SearchInv
<1>4. Chosen' /\ SearchIsRight'
  BY <1>3 DEF Chosen, SearchIsRight, SearchInv
<1>5. ASSUME NEW u \in DOMAIN worker, u # t PROVE SearchedBy(u)'
  <2>1. Share(u)' = Share(u) /\ (\A c : Matches(c)' <=> Matches(c))
    BY DEF Share, Total, Matches
  <2>2. SearchedBy(u) /\ worker'[u] = worker[u]
    BY <1>1, <1>2, <1>5
  <2> QED
    BY <2>1, <2>2 DEF SearchedBy
<1>6. \A u \in DOMAIN worker' : SearchedBy(u)'
  BY <1>2, <1>5
<1>7. found' => \E u \in DOMAIN worker' : worker'[u].result # Nothing
  <2>1. ASSUME found PROVE \E u \in DOMAIN worker' : worker'[u].result # Nothing
    <3>1. PICK u \in DOMAIN worker : worker[u].result # Nothing
      BY <2>1 DEF SearchInv
    <3> QED
      BY <1>2, <3>1
  <2> QED
    BY <1>2, <2>1
<1>8. stage' \in {"search", "panicked", "found", "exhausted"}
  BY <1>1 DEF SearchInv
<1> QED
  BY <1>1, <1>2, <1>4, <1>6, <1>7, <1>8 DEF SearchInv

LEMMA TurnKeepsSearch == ASSUME NEW t \in DOMAIN worker, SearchInv, Turn(t) PROVE SearchInv'
<1> DEFINE w     == worker[t]
           polls == w.since + 1 >= BatchSize
           ends  == w.next = w.end \/ (polls /\ found)
           v     == IF ends THEN [w EXCEPT !.pc = "done"]
                    ELSE [w EXCEPT !.pc = "try", !.since = IF polls THEN 0 ELSE @ + 1]
<1>1. /\ w.pc = "turn" /\ worker' = [worker EXCEPT ![t] = v]
      /\ args' = args /\ hash' = hash /\ stage' = stage /\ printed' = printed /\ found' = found
  BY DEF Turn
<1>2. SearchedBy(t)
  <2>1. worker # <<>>
    OBVIOUS
  <2> QED
    BY <2>1 DEF SearchInv
<1>3. w \in ThreadStates
  BY <1>2 DEF SearchedBy
<1>4. /\ v \in ThreadStates /\ v.next = w.next /\ v.end = w.end /\ v.result = w.result
      /\ v.pc = (IF ends THEN "done" ELSE "try")
  <2>1. CASE ends
    <3>1. v = [w EXCEPT !.pc = "done"]
      BY <2>1
    <3> HIDE DEF w, v
    <3> QED
      BY <1>3, <2>1, <3>1 DEF ThreadStates
  <2>2. CASE ~ends
    <3> DEFINE since == IF polls THEN 0 ELSE w.since + 1
    <3>1. v = [w EXCEPT !.pc = "try", !.since = since]
      BY <2>2
    <3>2. since \in Nat
      BY <1>3 DEF ThreadStates
    <3> HIDE DEF w, v, since
    <3> QED
      BY <1>3, <2>2, <3>1, <3>2 DEF ThreadStates
  <2> QED
    BY <2>1, <2>2
<1>5. worker'[t] = v
  BY <1>1
<1>6. SearchedBy(t)'
  <2>1. Share(t)' = Share(t) /\ (\A c : Matches(c)' <=> Matches(c))
    BY <1>1 DEF Share, Total, Matches
  <2> DEFINE s == Share(t)
             x == w.next
             y == w.end
  <2>2. /\ y = s.end /\ s.start \in Nat /\ s.start <= x /\ x <= y
        /\ \A c \in s.start .. x - 1 : ~Matches(c)
        /\ w.result # Nothing => Matches(w.result) /\ w.pc = "done"
    BY <1>2 DEF SearchedBy
  <2>3. x \in Nat /\ y \in Nat
    BY <1>3 DEF ThreadStates
  <2> HIDE DEF v, s
  <2>4. v.pc = "try" => x < y
    BY <1>4, <2>2, <2>3
  <2>5. v.pc = "done" => x = y \/ found
    BY <1>4
  <2> QED
    BY <1>1, <1>4, <1>5, <2>1, <2>2, <2>4, <2>5 DEF SearchedBy, s
<1> HIDE DEF v, w
<1> QED
  BY <1>1, <1>4, <1>6, OthersStay DEF w

LEMMA TryKeepsSearch == ASSUME NEW t \in DOMAIN worker, SearchInv, Try(t) PROVE SearchInv'
<1> DEFINE w   == worker[t]
           hit == Matches(w.next)
           v   == IF hit THEN [w EXCEPT !.pc = "done", !.result = w.next]
                  ELSE [w EXCEPT !.pc = "turn", !.next = @ + 1]
<1>1. /\ w.pc = "try" /\ worker' = [worker EXCEPT ![t] = v] /\ (found' <=> found \/ hit)
      /\ args' = args /\ hash' = hash /\ stage' = stage /\ printed' = printed
  BY DEF Try, Raised
<1>2. SearchedBy(t)
  <2>1. worker # <<>>
    OBVIOUS
  <2> QED
    BY <2>1 DEF SearchInv
<1>3. w \in ThreadStates /\ w.result = Nothing
  BY <1>1, <1>2 DEF SearchedBy
<1>4. /\ v \in ThreadStates /\ v.end = w.end
      /\ hit  => v.pc = "done" /\ v.next = w.next /\ v.result = w.next
      /\ ~hit => v.pc = "turn" /\ v.next = w.next + 1 /\ v.result = w.result
  <2>1. CASE hit
    <3>1. v = [w EXCEPT !.pc = "done", !.result = w.next]
      BY <2>1
    <3> HIDE DEF w, v
    <3> QED
      BY <1>3, <2>1, <3>1 DEF ThreadStates
  <2>2. CASE ~hit
    <3> DEFINE next == w.next + 1
    <3>1. v = [w EXCEPT !.pc = "turn", !.next = next]
      BY <2>2
    <3>2. next \in Nat
      BY <1>3 DEF ThreadStates
    <3> HIDE DEF w, v, next
    <3>3. v \in ThreadStates /\ v.pc = "turn" /\ v.next = next
          /\ v.end = w.end /\ v.result = w.result
      BY <1>3, <3>1, <3>2 DEF ThreadStates
    <3> QED
      BY <2>2, <3>3 DEF next
  <2> QED
    BY <2>1, <2>2
<1>5. worker'[t] = v
  BY <1>1
<1>6. w.next \in Nat /\ w.end \in Nat /\ w.next # Nothing
  BY <1>3, ArgumentsAssumption DEF ThreadStates
<1>7. SearchedBy(t)'
  <2>1. Share(t)' = Share(t) /\ (\A c : Matches(c)' <=> Matches(c))
    BY <1>1 DEF Share, Total, Matches
  <2> DEFINE s == Share(t)
             x == w.next
             y == w.end
  <2>2. /\ y = s.end /\ s.start \in Nat /\ s.start <= x /\ x < y
        /\ \A c \in s.start .. x - 1 : ~Matches(c)
        /\ w.result # Nothing => Matches(w.result) /\ w.pc = "done"
    BY <1>1, <1>2 DEF SearchedBy
  <2>3. x \in Nat /\ y \in Nat
    BY <1>6
  <2> HIDE DEF v, s
  <2>4. CASE hit
    <3>1. v.pc = "done" /\ v.next = x /\ v.result = x /\ v.end = y /\ Matches(x)
      BY <1>4, <2>4
    <3>2. s.start <= x /\ x <= y /\ x # Nothing
      BY <1>6, <2>2, <2>3
    <3> HIDE DEF x, y, hit
    <3> QED
      BY <1>4, <1>5, <2>1, <2>2, <3>1, <3>2 DEF SearchedBy, s
  <2>5. CASE ~hit
    <3> DEFINE z == x + 1
    <3>1. \A c \in s.start .. z - 1 : ~Matches(c)
      <4>1. \A c \in s.start .. z - 1 : c = x \/ c \in s.start .. x - 1
        BY <2>2, <2>3
      <4> QED
        BY <2>2, <2>5, <4>1
    <3>2. s.start <= z /\ z <= y
      BY <2>2, <2>3
    <3>3. v.pc = "turn" /\ v.next = z /\ v.end = y /\ v.result = Nothing
      BY <1>3, <1>4, <2>5
    <3> HIDE DEF x, y, z, hit
    <3> QED
      BY <1>4, <1>5, <2>1, <2>2, <3>1, <3>2, <3>3 DEF SearchedBy, s
  <2> QED
    BY <2>4, <2>5
<1>8. found' => found \/ v.result # Nothing
  BY <1>1, <1>4, <1>6
<1> HIDE DEF v, hit, w
<1> QED
  BY <1>1, <1>3, <1>4, <1>7, <1>8, OthersStay DEF w

LEMMA JoinKeepsSearch == SearchInv /\ Join => SearchInv'
<1> SUFFICES ASSUME SearchInv, Join PROVE SearchInv'
  OBVIOUS
<1> DEFINE n         == args.prefix_len
           hits      == {t \in DOMAIN worker : worker[t].result # Nothing}
           candidate == worker[FirstOf(hits)].result
           field     == EncodeHex(candidate, n)
           object    == BuildFullObject(Template(n, args.parent, args.target), field)
<1>1. /\ stage = "search" /\ worker # <<>>
      /\ \A t \in DOMAIN worker : worker[t].pc = "done"
      /\ args' = args /\ hash' = hash /\ found' = found /\ worker' = worker
  BY DEF Join
<1>2. /\ Chosen /\ args.threads # 0 /\ DOMAIN worker = 1 .. args.threads
      /\ \A t \in DOMAIN worker : SearchedBy(t)
  BY <1>1 DEF SearchInv
<1>3. /\ hits = {} => stage' = "exhausted" /\ printed' = printed
      /\ hits # {} => IF Good(field) THEN stage' = "found" /\ printed' = object
                      ELSE stage' = "unverified" /\ printed' = printed
  BY DEF Join, Good, Sha1, BuildFullObject
<1>4. args.threads \in Nat \ {0} /\ Total \in Nat /\ n \in Nat
  BY <1>2, TotalIsNat DEF Chosen
<1>5. \A t \in DOMAIN worker :
        Share(t)' = Share(t) /\ (\A c : Matches(c)' <=> Matches(c)) /\ SearchedBy(t)'
  <2>1. \A t \in DOMAIN worker : Share(t)' = Share(t) /\ (\A c : Matches(c)' <=> Matches(c))
    BY <1>1 DEF Share, Total, Matches
  <2> QED
    BY <1>1, <1>2, <2>1 DEF SearchedBy
<1>6. Chosen' /\ \A f : Good(f)' <=> Good(f)
  BY <1>1, <1>2 DEF Chosen, Good
<1>7. CASE hits = {}
  <2>1. ~found /\ \A t \in DOMAIN worker : worker[t].result = Nothing
    BY <1>7 DEF SearchInv
  <2>2. ASSUME Fits, NEW f \in DOMAIN hash, Good(f) PROVE FALSE
    <3>1. PICK c \in 0 .. Total - 1 : EncodeHex(c, n) = f
      BY <1>2, <2>2, FieldsAreCandidates DEF Fits
    <3>2. c \in Nat
      BY <1>4, <3>1
    <3>3. Matches(c)
      BY <1>2, <2>2, <3>1, <3>2, MatchesAre
    <3>4. PICK t \in 1 .. args.threads : c \in Share(t).start .. Share(t).end - 1
      <4> DEFINE k == args.threads
                 total == Total
      <4>1. k \in Nat \ {0} /\ total \in Nat /\ c \in 0 .. total - 1
        BY <1>4, <3>1
      <4> HIDE DEF k, total
      <4>2. \E t \in 1 .. k : LET range == ThreadRange(k, t, total)
                              IN  c \in range.start .. range.end - 1
        BY <4>1, RangesCover
      <4> QED
        BY <4>2 DEF Share, k, total
    <3>5. SearchedBy(t) /\ worker[t].pc = "done" /\ worker[t].result = Nothing
      BY <1>1, <1>2, <2>1
    <3>6. worker[t].next = Share(t).end
      BY <2>1, <3>5 DEF SearchedBy
    <3>7. ~Matches(c)
      BY <3>4, <3>5, <3>6 DEF SearchedBy
    <3> QED
      BY <3>3, <3>7
  <2>3. stage' = "exhausted" /\ printed' = printed /\ (Fits' <=> Fits)
    BY <1>1, <1>3, <1>7 DEF Fits
  <2>4. SearchIsRight'
    <3>1. Fits => \A f \in DOMAIN hash : ~Good(f)
      BY <2>2

    <3> QED
      BY <1>1, <2>3, <3>1 DEF SearchIsRight, Fits, Good
  <2> QED
    BY <1>1, <1>2, <1>5, <1>6, <2>1, <2>3, <2>4 DEF SearchInv
<1>8. CASE hits # {}
  <2>1. FirstOf(hits) \in hits
    <3>1. hits \in SUBSET Nat
      BY <1>2, <1>4
    <3> HIDE DEF hits
    <3>2. \E i \in hits : \A j \in hits : i <= j
      BY <1>8, <3>1, LeastExists
    <3> QED
      BY <3>2 DEF FirstOf
  <2>2. candidate \in Nat /\ Matches(candidate)
    <3> DEFINE t == FirstOf(hits)
    <3>1. t \in DOMAIN worker /\ worker[t].result # Nothing
      BY <2>1
    <3> HIDE DEF t
    <3>2. SearchedBy(t)
      BY <1>2, <3>1
    <3>3. worker[t].result \in Nat /\ Matches(worker[t].result)
      BY <3>1, <3>2 DEF SearchedBy, ThreadStates
    <3> QED
      BY <3>3 DEF t
  <2> HIDE DEF candidate
  <2>3. Good(field) /\ Len(field) = n
    BY <1>2, <1>4, <2>2, MatchesAre, EncodeIs
  <2> HIDE DEF field
  <2>4. stage' = "found" /\ printed' = object
    BY <1>3, <1>8, <2>3
  <2>5. /\ object.value = field /\ object.template.size = n
        /\ object.template.parent = args.parent
    BY DEF BuildFullObject, Template
  <2>6. SearchIsRight'
    <3>1. args.target # Nothing => args.parent
      BY <1>2 DEF Chosen
    <3> HIDE DEF object, n
    <3>2. Good(printed'.value) /\ printed'.template.size = Len(printed'.value)
          /\ printed'.template.parent = args.parent
      BY <2>3, <2>4, <2>5
    <3> QED
      BY <1>1, <2>4, <3>1, <3>2 DEF SearchIsRight, Good
  <2> QED
    BY <1>1, <1>2, <1>5, <1>6, <2>4, <2>6 DEF SearchInv
<1> QED
  BY <1>7, <1>8

LEMMA SearchInvNext == SearchInv /\ [SearchNext]_searchVars => SearchInv'
<1> SUFFICES ASSUME SearchInv, [SearchNext]_searchVars PROVE SearchInv'
  OBVIOUS
<1>1. CASE UNCHANGED searchVars
  BY <1>1 DEF searchVars, SearchInv, Chosen, SearchedBy, Share, Total, Matches, SearchIsRight
<1>2. CASE SearchNext
  BY <1>2, MainKeepsSearch, SpawnKeepsSearch, JoinKeepsSearch, TurnKeepsSearch, TryKeepsSearch
     DEF SearchNext
<1> QED
  BY <1>1, <1>2

(* However the threads interleave and stop each other, the search finds a  *)
(* match where there is one and the space fits in a word, and writes only  *)
(* commits whose hash begins with what was sought; the verification of a   *)
(* result never fails (main, search, search_range, matches_prefix).        *)
THEOREM QuineIsRight == SearchSpec => []SearchIsRight
<1>1. SearchInv => SearchIsRight
  BY DEF SearchInv
<1> QED
  BY <1>1, SearchInvInit, SearchInvNext, PTL DEF SearchSpec
=================================================================================
