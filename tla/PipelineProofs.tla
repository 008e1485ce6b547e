------------------------------ MODULE PipelineProofs ------------------------------
(***************************************************************************)
(* Theorems about Pipeline, for every history, every set of rules, every   *)
(* interruption: types, single holders, the log it implements, and what    *)
(* the checkpoint and the caches stand for.                                *)
(***************************************************************************)
EXTENDS Pipeline, AchievementEventsProofs

USE DEF Rules

\* TypeOK is not inductive by itself: the checkpoint commit is visited with the
\* budget that was there when the walk reached it.
BudgetLeft == pc = "retiring" => HasNext

TypeInv == TypeOK /\ BudgetLeft

LEMMA EmptyCacheTyped == EmptyCache \in Caches
BY DEF EmptyCache, Caches

LEMMA GrantAtTyped ==
  ASSUME NEW c \in Commits
  PROVE  GrantAt(c) \in Grant
BY GraphAssumption DEF GrantAt, Grant

LEMMA FinalOutputsTyped ==
  ASSUME NEW rs \in SUBSET Rules
  PROVE  FinalOutputs(rs) \subseteq Outputs
BY GrantAtTyped DEF FinalOutputs, Outputs

\* Exiting leaves nothing in memory.
LEMMA ExitTyped ==
  ASSUME Exit
  PROVE  /\ pc' = "idle" /\ todo' = {} /\ active' = {} /\ mem' \in [Rules -> Caches]
         /\ log' = << >> /\ log' \in Seq(Event)
         /\ frontier' = {} /\ seen' = {} /\ budget' = 0 /\ first' = None /\ pending' = {}
BY EmptyCacheTyped, EmptySeq DEF Exit

\* A visit keeps the run well-typed.
LEMMA ProcessCommitTyped ==
  ASSUME TypeOK, NEW c \in frontier, HasNext, ProcessCommit(c)
  PROVE  /\ mem' \in [Rules -> Caches] /\ pending' \subseteq Outputs
         /\ frontier' \subseteq Commits /\ seen' \subseteq Commits
         /\ budget' \in Nat /\ first' \in Commits \cup {None}
         /\ pc' = "walking"
<1>1. c \in Commits
  BY DEF TypeOK
<1>2. mem' \in [Rules -> Caches]
  <2>1. \A r \in Rules : mem[r] \in Caches /\ [mem[r] EXCEPT ![c] = @ + 1] \in Caches
    BY <1>1 DEF TypeOK, Caches
  <2>2. QED
    BY <2>1 DEF ProcessCommit
<1>3. pending' \subseteq Outputs
  BY <1>1, GrantAtTyped DEF ProcessCommit, Outputs, TypeOK
<1>4. Parents[c] \subseteq Commits
  BY <1>1, GraphAssumption
<1>5. frontier' \subseteq Commits /\ seen' \subseteq Commits
  BY <1>1, <1>4 DEF ProcessCommit, TypeOK
<1>6. budget' \in Nat
  BY DEF ProcessCommit, TypeOK, HasNext
<1>7. first' \in Commits \cup {None} /\ pc' = "walking"
  BY <1>1 DEF ProcessCommit, NoteFirst, TypeOK
<1>8. QED
  BY <1>2, <1>3, <1>5, <1>6, <1>7

\* Every run, whatever the world does to it, keeps its files and its memory
\* well-typed: what it loads is what some run wrote in full, and the walk stops
\* when --depth is used up.
THEOREM PipelineTypeCorrect == Spec => []TypeOK
<1>1. Init => TypeInv
  <2>1. << >> \in Seq(Event)
    BY EmptySeq
  <2>2. NoCheckpoint \in Checkpoints
    BY DEF NoCheckpoint, Checkpoints
  <2>3. Init => head \in Commits /\ enabled \subseteq Rules /\ version \in [Rules -> Versions]
    BY GraphAssumption, BoundsAssumption, RoleAssumption DEF Init
  <2>4. Init => cache \in [Rules -> Caches \cup {None, Torn}] /\ mem \in [Rules -> Caches]
    BY EmptyCacheTyped DEF Init
  <2>5. Init => crashes \in 0..MaxCrashes /\ budget \in Nat
    BY BoundsAssumption DEF Init
  <2>6. Init => /\ ckpt \in Checkpoints \cup {Torn} /\ file \in Seq(Event) \cup {Unreadable}
                /\ log \in Seq(Event) /\ pc = "idle" /\ first \in Commits \cup {None}
    BY <2>1, <2>2 DEF Init
  <2>7. Init => /\ todo \subseteq Rules /\ active \subseteq Rules /\ pending \subseteq Outputs
                /\ frontier \subseteq Commits /\ seen \subseteq Commits /\ spoiled \in BOOLEAN
    BY DEF Init
  <2>8. Init => TypeOK
    BY <2>3, <2>4, <2>5, <2>6, <2>7 DEF TypeOK
  <2>9. QED
    BY <2>8 DEF Init, TypeInv, BudgetLeft
<1>2. TypeInv /\ [Next]_vars => TypeInv'
  <2> SUFFICES ASSUME TypeInv, [Next]_vars PROVE TypeInv'
    OBVIOUS
  <2>1. CASE Reset
    <3>1. NoCheckpoint \in Checkpoints /\ << >> \in Seq(Event)
      BY EmptySeq DEF NoCheckpoint, Checkpoints
    <3>2. QED
      BY <2>1, <3>1 DEF Reset, TypeInv, TypeOK, BudgetLeft, HasNext, world, run, walk
  <2>2. ASSUME NEW depth \in Depths, Start(depth)
        PROVE  TypeInv'
    <3>1. Invalidated \subseteq Rules /\ depth \in Nat
      BY BoundsAssumption DEF Invalidated, TypeInv, TypeOK
    <3>2. QED
      BY <2>2, <3>1 DEF Start, TypeInv, TypeOK, BudgetLeft, world, disk
  <2>3. ASSUME NEW r \in Rules, WipeCache(r)
        PROVE  TypeInv'
    BY <2>3 DEF WipeCache, TypeInv, TypeOK, BudgetLeft, world, walk
  <2>4. CASE PruneLog
    <3>1. Pruned(file, Invalidated) \in Seq(Event)
      BY <2>4, PrunedProperties DEF PruneLog, TypeInv, TypeOK
    <3>2. QED
      BY <2>4, <3>1 DEF PruneLog, TypeInv, TypeOK, BudgetLeft, world, walk
  <2>5. CASE Load
    <3>1. mem' \in [Rules -> Caches]
      BY <2>5, EmptyCacheTyped DEF Load, TypeInv, TypeOK
    <3>2. QED
      BY <2>5, <3>1 DEF Load, TypeInv, TypeOK, BudgetLeft, world, disk
  <2>6. CASE LoadFails
    BY <2>6, ExitTyped DEF LoadFails, TypeInv, TypeOK, BudgetLeft, world, disk
  <2>7. ASSUME NEW c \in frontier, Visit(c)
        PROVE  TypeInv'
    BY <2>7, ProcessCommitTyped DEF Visit, TypeInv, TypeOK, BudgetLeft, world, disk
  <2>8. ASSUME NEW c \in frontier, EarlyExit(c)
        PROVE  TypeInv'
    BY <2>8 DEF EarlyExit, NoteFirst, TypeInv, TypeOK, BudgetLeft, world, disk
  <2>9. ASSUME NEW c \in frontier, ReachCheckpoint(c)
        PROVE  TypeInv'
    BY <2>9 DEF ReachCheckpoint, NoteFirst, HasNext, TypeInv, TypeOK, BudgetLeft, world, disk
  <2>10. ASSUME NEW r \in Rules, Retire(r)
         PROVE  TypeInv'
    <3>1. FinalOutputs({r}) \subseteq Outputs
      BY FinalOutputsTyped
    <3>2. cache' \in [Rules -> Caches \cup {None, Torn}]
      BY <2>10 DEF Retire, TypeInv, TypeOK
    <3>3. QED
      BY <2>10, <3>1, <3>2 DEF Retire, TypeInv, TypeOK, BudgetLeft, HasNext, world, walk
  <2>11. ASSUME NEW c \in frontier, VisitCheckpoint(c)
         PROVE  TypeInv'
    BY <2>11, ProcessCommitTyped DEF VisitCheckpoint, TypeInv, TypeOK, BudgetLeft, world, disk
  <2>12. ASSUME NEW o \in pending, Emit(o)
         PROVE  TypeInv'
    <3>1. o.rule \in AllAchievements /\ o.grant \in Grant
      BY DEF TypeInv, TypeOK, Outputs, AllAchievements
    <3>2. Resolve(log, o.rule, o.grant) \in Seq(Event)
      BY <3>1, ResolveTyped DEF TypeInv, TypeOK
    <3>3. QED
      BY <2>12, <3>2 DEF Emit, TypeInv, TypeOK, BudgetLeft, HasNext, world, disk, walk
  <2>13. CASE Finalize
    <3>1. FinalOutputs(active) \subseteq Outputs
      BY FinalOutputsTyped DEF TypeInv, TypeOK
    <3>2. QED
      BY <2>13, <3>1 DEF Finalize, TypeInv, TypeOK, BudgetLeft, world, disk, walk
  <2>14. CASE EvaluateMeta
    <3>1. FarmerGrants(log) \subseteq Grant /\ Farmer \in AllAchievements
      BY DEF FarmerGrants, AllAchievements, MetaAchievements
    <3>2. log' \in Seq(Event)
      BY <2>14, <3>1, ResolveTyped DEF EvaluateMeta, TypeInv, TypeOK
    <3>3. QED
      BY <2>14, <3>2 DEF EvaluateMeta, TypeInv, TypeOK, BudgetLeft, world, disk, walk
  <2>15. CASE SaveCheckpoint
    <3>1. RulesWithVersions \subseteq Rules \X Versions
      BY DEF RulesWithVersions, TypeInv, TypeOK
    <3>2. ckpt' \in Checkpoints
      BY <2>15, <3>1 DEF SaveCheckpoint, Checkpoints, TypeInv, TypeOK
    <3>3. QED
      BY <2>15, <3>2 DEF SaveCheckpoint, Truncated, TypeInv, TypeOK, BudgetLeft, world, walk
  <2>16. ASSUME NEW r \in Rules, SaveCache(r)
         PROVE  TypeInv'
    <3>1. cache' \in [Rules -> Caches \cup {None, Torn}]
      BY <2>16 DEF SaveCache, TypeInv, TypeOK
    <3>2. QED
      BY <2>16, <3>1 DEF SaveCache, TypeInv, TypeOK, BudgetLeft, world, walk
  <2>17. CASE SaveLog
    BY <2>17, ExitTyped DEF SaveLog, TypeInv, TypeOK, BudgetLeft, world
  <2>18. CASE Crash
    <3>1. crashes' \in 0..MaxCrashes
      BY <2>18, BoundsAssumption DEF Crash, TypeInv, TypeOK
    <3>2. QED
      BY <2>18, <3>1, ExitTyped DEF Crash, TypeInv, TypeOK, BudgetLeft, world, disk
  <2>19. CASE CrashInWrite
    <3>1. crashes' \in 0..MaxCrashes
      BY <2>19, BoundsAssumption DEF CrashInWrite, TypeInv, TypeOK
    <3>2. file # Unreadable => CutShort(Pruned(file, Invalidated)) \subseteq Seq(Event) \cup {Unreadable}
      BY PrunedProperties, CutShortTyped DEF TypeInv, TypeOK
    <3>3. CutShort(log) \subseteq Seq(Event) \cup {Unreadable}
      BY CutShortTyped DEF TypeInv, TypeOK
    <3>4. /\ ckpt' \in Checkpoints \cup {Torn}
          /\ cache' \in [Rules -> Caches \cup {None, Torn}]
          /\ file' \in Seq(Event) \cup {Unreadable}
      BY <2>19, <3>2, <3>3 DEF CrashInWrite, Tear, TypeInv, TypeOK
    <3>5. QED
      BY <2>19, <3>1, <3>4, ExitTyped DEF CrashInWrite, TypeInv, TypeOK, BudgetLeft, world
  <2>20. CASE UNCHANGED vars
    BY <2>20 DEF vars, world, disk, walk, TypeInv, TypeOK, BudgetLeft, HasNext
  <2>21. CASE Check
    BY <2>2, <2>3, <2>4, <2>5, <2>6, <2>7, <2>8, <2>9, <2>10, <2>11, <2>12, <2>13,
       <2>14, <2>15, <2>16, <2>17, <2>21 DEF Check
  <2>22. CASE World
    <3>1. ASSUME NEW h \in Commits, Push(h) \/ Rewrite(h) PROVE TypeInv'
      <4>1. /\ UNCHANGED << disk, run, crashes, enabled, version >>
            /\ head' \in Commits /\ spoiled' \in BOOLEAN
        BY <3>1 DEF TypeInv, TypeOK, Push, Rewrite, Orphaned
      <4>2. QED
        BY <4>1 DEF TypeInv, TypeOK, BudgetLeft, HasNext, disk, run, walk
    <3>2. ASSUME NEW r \in Rules, Enable(r) \/ Disable(r) \/ Upgrade(r) PROVE TypeInv'
      <4>1. /\ UNCHANGED << disk, run, crashes, head, spoiled >>
            /\ enabled' \subseteq Rules /\ version' \in [Rules -> Versions]
        BY <3>2 DEF TypeInv, TypeOK, Enable, Disable, Upgrade
      <4>2. QED
        BY <4>1 DEF TypeInv, TypeOK, BudgetLeft, HasNext, disk, run, walk
    <3>3. QED
      BY <2>1, <2>22, <3>1, <3>2 DEF World
  <2>23. QED
    BY <2>18, <2>19, <2>20, <2>21, <2>22 DEF Next, Fault
<1>3. TypeInv => TypeOK
  BY DEF TypeInv
<1>4. QED
  BY <1>1, <1>2, <1>3, PTL DEF Spec

-----------------------------------------------------------------------------
(***************************************************************************)
(* The log.                                                                *)
(***************************************************************************)

\* Between two grants of a global achievement there is a revocation of the first,
\* in the open log and in the file of the repository.
LogAlternates == Alternates(log) /\ (file # Unreadable => Alternates(file))

LEMMA NextKeepsAlternates ==
  ASSUME TypeOK, LogAlternates, [Next]_vars
  PROVE  LogAlternates'
<1>1. Alternates(<< >>)
  BY DEF Alternates
<1>2. /\ log \in Seq(Event) /\ Alternates(log)
      /\ file # Unreadable => file \in Seq(Event) /\ Alternates(file)
  BY DEF TypeOK, LogAlternates
<1>3. CASE UNCHANGED << log, file >>
  BY <1>3 DEF LogAlternates
<1>4. Exit => log' = << >>
  BY DEF Exit
<1>5. CASE PruneLog
  <2>1. Alternates(Pruned(file, Invalidated))
    BY <1>2, <1>5, PruneAlternates DEF PruneLog
  <2>2. QED
    BY <1>2, <1>5, <2>1 DEF PruneLog, LogAlternates
<1>6. CASE Load
  BY <1>2, <1>6 DEF Load, disk, LogAlternates
<1>7. CASE LoadFails
  BY <1>1, <1>2, <1>4, <1>7 DEF LoadFails, disk, LogAlternates
<1>8. ASSUME NEW o \in pending, Emit(o)
      PROVE  LogAlternates'
  <2>1. o.rule \in AllAchievements /\ o.grant \in Grant
    BY DEF TypeOK, Outputs, AllAchievements
  <2>2. Alternates(Resolve(log, o.rule, o.grant))
    BY <1>2, <2>1, ResolveAlternates
  <2>3. QED
    BY <1>2, <1>8, <2>2 DEF Emit, disk, LogAlternates
<1>9. CASE EvaluateMeta
  <2>1. FarmerGrants(log) \subseteq Grant /\ Farmer \in AllAchievements
    BY DEF FarmerGrants, AllAchievements, MetaAchievements
  <2>2. Alternates(log')
    BY <1>2, <1>9, <2>1, ResolveAlternates DEF EvaluateMeta
  <2>3. QED
    BY <1>2, <1>9, <2>2 DEF EvaluateMeta, disk, LogAlternates
<1>10. CASE SaveLog
  BY <1>1, <1>2, <1>4, <1>10 DEF SaveLog, LogAlternates
<1>11. CASE Crash
  BY <1>1, <1>2, <1>4, <1>11 DEF Crash, disk, LogAlternates
<1>12. CASE CrashInWrite
  <2>1. file # Unreadable =>
          \A f \in CutShort(Pruned(file, Invalidated)) : f # Unreadable => Alternates(f)
    BY <1>2, PrunedProperties, PruneAlternates, CutShortAlternates
  <2>2. \A f \in CutShort(log) : f # Unreadable => Alternates(f)
    BY <1>2, CutShortAlternates
  <2>3. file' # Unreadable => Alternates(file')
    BY <1>2, <1>12, <2>1, <2>2 DEF CrashInWrite, Tear
  <2>4. QED
    BY <1>1, <1>4, <1>12, <2>3 DEF CrashInWrite, LogAlternates
<1>13. CASE Reset
  BY <1>1, <1>2, <1>13 DEF Reset, run, LogAlternates
<1>14. CASE World
  BY <1>3, <1>13, <1>14 DEF World, Push, Rewrite, Enable, Disable, Upgrade, disk, run
<1>15. CASE Check
  <2>1. ASSUME NEW r \in Rules, WipeCache(r) \/ Retire(r) \/ SaveCache(r)
        PROVE  UNCHANGED << log, file >>
    BY <2>1 DEF WipeCache, Retire, SaveCache
  <2>2. ASSUME NEW c \in frontier,
               Visit(c) \/ EarlyExit(c) \/ ReachCheckpoint(c) \/ VisitCheckpoint(c)
        PROVE  UNCHANGED << log, file >>
    BY <2>2 DEF Visit, EarlyExit, ReachCheckpoint, VisitCheckpoint, disk
  <2>3. ASSUME NEW depth \in Depths, Start(depth)
        PROVE  UNCHANGED << log, file >>
    BY <2>3 DEF Start, disk
  <2>4. Finalize \/ SaveCheckpoint => UNCHANGED << log, file >>
    BY DEF Finalize, SaveCheckpoint, disk
  <2>5. QED
    BY <1>3, <1>5, <1>6, <1>7, <1>8, <1>9, <1>10, <1>15, <2>1, <2>2, <2>3, <2>4 DEF Check
<1>16. CASE UNCHANGED vars
  BY <1>3, <1>16 DEF vars, disk
<1>17. QED
  BY <1>11, <1>12, <1>14, <1>15, <1>16 DEF Next, Fault

\* A global achievement has one holder at most, in the log of every run and in
\* every log file that loads, however runs are interrupted, history is rewritten
\* and rules are enabled, disabled and upgraded.
THEOREM PipelineOneHolder == Spec => []OneHolder
<1>1. Init => LogAlternates
  BY DEF Init, LogAlternates, Alternates
<1>2. TypeOK /\ LogAlternates /\ [Next]_vars => LogAlternates'
  BY NextKeepsAlternates
<1>3. TypeOK /\ LogAlternates => OneHolder
  BY AlternatesSingleHolder DEF TypeOK, LogAlternates, OneHolder
<1>4. QED
  BY <1>1, <1>2, <1>3, PipelineTypeCorrect, PTL DEF Spec
-----------------------------------------------------------------------------
(***************************************************************************)
(* The refinement: the log inside a run is the log of AchievementLog.      *)
(***************************************************************************)

\* No log is open and no rule runs before Load, outputs are emitted while the log is
\* open for rules, and a run that wipes has something to wipe.
RunShape ==
  /\ pc \in {"idle", "wiping", "loading"} => log = << >> /\ active = {}
  /\ pending # {} => pc \in {"walking", "retiring", "evaluating"}
  /\ pc = "wiping" => Invalidated # {}

LEMMA NextKeepsRunShape ==
  ASSUME RunShape, [Next]_vars
  PROVE  RunShape'
<1>1. Exit => RunShape'
  BY DEF Exit, RunShape
<1>2. ASSUME UNCHANGED << world, ckpt >> PROVE Invalidated' = Invalidated
  BY <1>2 DEF Invalidated, world
<1>3. CASE Check
  <2>1. ASSUME NEW depth \in Depths, Start(depth) PROVE RunShape'
    BY <1>2, <2>1 DEF Start, Idle, RunShape, disk
  <2>2. ASSUME NEW r \in Rules, WipeCache(r) \/ Retire(r) \/ SaveCache(r)
        PROVE  RunShape'
    BY <1>2, <2>2 DEF WipeCache, Retire, SaveCache, RunShape, walk
  <2>3. PruneLog \/ Load => RunShape'
    BY DEF PruneLog, Load, RunShape, disk
  <2>4. ASSUME NEW c \in frontier,
               Visit(c) \/ EarlyExit(c) \/ ReachCheckpoint(c) \/ VisitCheckpoint(c)
        PROVE  RunShape'
    BY <2>4 DEF Visit, EarlyExit, ReachCheckpoint, VisitCheckpoint, ProcessCommit, RunShape
  <2>5. ASSUME NEW o \in pending, Emit(o) PROVE RunShape'
    BY <2>5 DEF Emit, RunShape
  <2>6. Finalize \/ EvaluateMeta \/ SaveCheckpoint => RunShape'
    BY DEF Finalize, EvaluateMeta, SaveCheckpoint, RunShape
  <2>7. LoadFails \/ SaveLog => RunShape'
    BY <1>1 DEF LoadFails, SaveLog
  <2> QED
    BY <1>3, <2>1, <2>2, <2>3, <2>4, <2>5, <2>6, <2>7 DEF Check
<1>4. CASE Fault
  BY <1>1, <1>4 DEF Fault, Crash, CrashInWrite
<1>5. CASE World
  <2>1. Idle /\ UNCHANGED run
    BY <1>5 DEF World, Push, Rewrite, Enable, Disable, Upgrade, Reset
  <2> QED
    BY <2>1 DEF Idle, run, RunShape
<1>6. CASE UNCHANGED vars
  BY <1>2, <1>6 DEF vars, disk, RunShape
<1> QED
  BY <1>3, <1>4, <1>5, <1>6 DEF Next

\* The instance resolves, prunes and writes logs as this module does.
LEMMA SameResolve ==
  ASSUME NEW l, NEW a, NEW g
  PROVE  Log!Resolve(l, a, g) = Resolve(l, a, g)
BY DEF Log!Resolve, Resolve, Log!Resolution, Resolution, Log!Suppressed, Suppressed,
       Log!Supersedes, Supersedes, Log!Revocation, Revocation, Log!LatestGrant, LatestGrant,
       Log!GrantEvent, GrantEvent, Log!HolderUser, HolderUser, Log!HasHolder, HasHolder,
       Log!Holders, Holders, Log!IsHolder, IsHolder, Log!IsGrantedTo, IsGrantedTo,
       Log!NotRevokedAfter, NotRevokedAfter, Log!IsGrant, IsGrant, Log!IsRevoke, IsRevoke,
       Log!IsFor, IsFor, Log!Kind, Kind

LEMMA SameCardinality == \A S : Log!Cardinality(S) = Cardinality(S)
BY Zenon DEF Log!Cardinality, Cardinality

LEMMA SamePruned ==
  ASSUME NEW l, NEW as
  PROVE  Log!Pruned(l, as) = Pruned(l, as)
<1>1. Log!KeptRows(l, as) = KeptRows(l, as)
  BY DEF Log!KeptRows, KeptRows, Log!MetaAchievements, MetaAchievements
<1>2. \A S, k : Log!NthOf(S, k) = NthOf(S, k)
  BY Zenon DEF Log!NthOf, NthOf, Log!RankIn, RankIn, Log!Cardinality, Cardinality
<1> QED
  <2>1. Log!Cardinality(KeptRows(l, as)) = Cardinality(KeptRows(l, as))
    BY SameCardinality
  <2> HIDE DEF Log!Cardinality, Log!NthOf
  <2> QED
    BY <1>1, <1>2, <2>1 DEF Log!Pruned, Pruned

LEMMA SameCutShort ==
  ASSUME NEW l
  PROVE  Log!CutShort(l) = CutShort(l)
BY DEF Log!CutShort, CutShort

LEMMA SameFarmerGrants == Log!FarmerGrants(log) = FarmerGrants(log)
<1>1. Log!Counted(log) = Counted(log)
  BY DEF Log!Counted, Counted, Log!ActiveGrants, ActiveGrants, Log!NotRevokedAfter,
         NotRevokedAfter, Log!IsRevoke, IsRevoke, Log!MetaAchievements, MetaAchievements
<1>2. \A u : Log!Farms(log, u) <=> Farms(log, u)
  <2>1. Log!Contributors(log) = Contributors(log)
    BY <1>1 DEF Log!Contributors, Contributors
  <2>2. \A u : Log!CountOf(log, u) = CountOf(log, u)
    BY <1>1, SameCardinality, Zenon DEF Log!CountOf, CountOf
  <2> QED
    BY <1>1, <2>1, <2>2, SameCardinality, Zenon DEF Log!Farms, Farms
<1>3. \A u, i : Log!IsLatestCounted(log, u, i) <=> IsLatestCounted(log, u, i)
  BY <1>1 DEF Log!IsLatestCounted, IsLatestCounted
<1>4. Log!Grant = Grant
  BY DEF Log!Grant, Grant
<1> QED
  BY <1>1, <1>2, <1>3, <1>4 DEF Log!FarmerGrants, FarmerGrants

\* What every step of the log is, by phase.
LEMMA NextRefinesLog ==
  ASSUME TypeOK, RunShape, [Next]_vars
  PROVE  [Log!Next]_(Log!vars)
<1> DEFINE Closed == pc \in {"idle", "wiping", "loading"}
           Open   == pc \in {"walking", "retiring", "finalizing", "evaluating"}
           phase  == CASE Closed -> "closed" [] Open -> "open" [] OTHER -> "evaluated"
<1>1. /\ Closed => phase = "closed"
      /\ Open => phase = "open"
      /\ pc \in {"checkpoint", "caches"} => phase = "evaluated"
      /\ (Closed)' => phase' = "closed"
      /\ (Open)' => phase' = "open"
      /\ pc' \in {"checkpoint", "caches"} => phase' = "evaluated"
  OBVIOUS
<1>2. Log!vars = << file, log, phase, crashes >>
  BY DEF Log!vars
<1>3. ASSUME UNCHANGED << file, log, crashes >>, phase' = phase
      PROVE  UNCHANGED Log!vars
  BY <1>3 DEF Log!vars
<1>4. Exit => log' = << >> /\ pc' = "idle" /\ phase' = "closed"
  BY <1>1 DEF Exit
<1>5. Closed => log = << >>
  BY DEF RunShape
<1>6. pc \in {"idle", "wiping", "loading", "walking", "retiring", "finalizing",
              "evaluating", "checkpoint", "caches"}
  BY DEF TypeOK
<1> HIDE DEF phase
<1>7. CASE Check
  <2>1. ASSUME NEW depth \in Depths, Start(depth) PROVE UNCHANGED Log!vars
    BY <1>1, <1>3, <2>1 DEF Start, Idle, disk
  <2>2. ASSUME NEW r \in Rules, WipeCache(r) \/ Retire(r) \/ SaveCache(r)
        PROVE  UNCHANGED Log!vars
    BY <1>1, <1>3, <2>2 DEF WipeCache, Retire, SaveCache
  <2>3. CASE PruneLog
    <3>1. /\ Invalidated \in (SUBSET Achievements) \ {{}}
          /\ pc = "wiping" /\ pc' = "loading" /\ UNCHANGED << log, crashes >>
          /\ file # Unreadable /\ file' = Pruned(file, Invalidated)
      BY <2>3 DEF PruneLog, RunShape, Invalidated, TypeOK
    <3>2. Log!Prune(Invalidated)
      BY <1>1, <3>1, SamePruned DEF Log!Prune, phase
    <3> QED
      BY <3>1, <3>2 DEF Log!Next
  <2>4. CASE Load
    <3>1. Log!Load
      BY <1>1, <2>4 DEF Load, Log!Load, disk, phase
    <3> QED
      BY <3>1 DEF Log!Next
  <2>5. CASE LoadFails
    BY <1>1, <1>3, <1>4, <1>5, <2>5 DEF LoadFails, disk
  <2>6. ASSUME NEW c \in frontier,
               Visit(c) \/ EarlyExit(c) \/ ReachCheckpoint(c) \/ VisitCheckpoint(c)
        PROVE  UNCHANGED Log!vars
    BY <1>1, <1>3, <2>6
       DEF Visit, EarlyExit, ReachCheckpoint, VisitCheckpoint, ProcessCommit, disk
  <2>7. ASSUME NEW o \in pending, Emit(o)
        PROVE  [Log!Next]_(Log!vars)
    <3>1. /\ << o.rule, o.grant >> \in Rules \X Grant
          /\ Open /\ UNCHANGED << file, pc, crashes >> /\ log' = Resolve(log, o.rule, o.grant)
      BY <2>7 DEF Emit, TypeOK, RunShape, Outputs, disk
    <3>2. Log!GrantTo(o.rule, o.grant)
      BY <1>1, <3>1, SameResolve DEF Log!GrantTo, phase
    <3>3. \E ask \in Rules \X Grant : Log!GrantTo(ask[1], ask[2])
      BY <3>1, <3>2
    <3> QED
      BY <3>3 DEF Log!Next
  <2>8. CASE EvaluateMeta
    <3>1. /\ pc = "evaluating" /\ pc' = "checkpoint" /\ UNCHANGED << file, crashes >>
          /\ \/ \E g \in FarmerGrants(log) : log' = Resolve(log, Farmer, g)
             \/ FarmerGrants(log) = {} /\ UNCHANGED log
      BY <2>8 DEF EvaluateMeta, disk
    <3>2. Log!EvaluateMeta
      BY <1>1, <3>1, SameResolve, SameFarmerGrants DEF Log!EvaluateMeta, phase
    <3> QED
      BY <3>2 DEF Log!Next
  <2>9. CASE Finalize
    BY <1>1, <1>3, <2>9 DEF Finalize, disk
  <2>10. CASE SaveCheckpoint
    BY <1>1, <1>3, <2>10 DEF SaveCheckpoint
  <2>11. CASE SaveLog
    <3>1. Log!Save
      BY <1>1, <1>4, <2>11 DEF SaveLog, Log!Save, phase
    <3> QED
      BY <3>1 DEF Log!Next
  <2> QED
    BY <1>7, <2>1, <2>2, <2>3, <2>4, <2>5, <2>6, <2>7, <2>8, <2>9, <2>10, <2>11 DEF Check
<1>8. ASSUME Exit, UNCHANGED file, crashes < MaxCrashes, crashes' = crashes + 1
      PROVE  [Log!Next]_(Log!vars)
  <2>1. Log!Abandon
    BY <1>4, <1>8 DEF Log!Abandon, Log!Dies, phase
  <2> QED
    BY <2>1 DEF Log!Next
<1>9. CASE Crash
  BY <1>8, <1>9 DEF Crash, disk
<1>10. CASE CrashInWrite
  <2>1. CASE UNCHANGED file
    BY <1>8, <1>10, <2>1 DEF CrashInWrite
  <2>2. CASE /\ pc = "wiping" /\ file # Unreadable
             /\ file' \in CutShort(Pruned(file, Invalidated))
    <3>1. Invalidated \in (SUBSET Achievements) \ {{}}
      BY <2>2 DEF RunShape, Invalidated, TypeOK
    <3>2. Log!PruneCutShort(Invalidated)
      BY <1>1, <1>4, <1>5, <1>10, <2>2, SamePruned, SameCutShort
         DEF CrashInWrite, Log!PruneCutShort, Log!Dies, phase
    <3> QED
      BY <3>1, <3>2 DEF Log!Next
  <2>3. CASE pc = "caches" /\ file' \in CutShort(log)
    <3>1. Log!SaveCutShort
      BY <1>1, <1>4, <1>10, <2>3, SameCutShort DEF CrashInWrite, Log!SaveCutShort, Log!Dies, phase
    <3> QED
      BY <3>1 DEF Log!Next
  <2> QED
    BY <1>10, <2>1, <2>2, <2>3 DEF CrashInWrite, Tear
<1>11. CASE World
  <2>1. CASE Reset
    <3>1. Log!Discard
      BY <1>1, <2>1 DEF Reset, Idle, run, Log!Discard, phase
    <3> QED
      BY <3>1 DEF Log!Next
  <2>2. CASE ~Reset
    <3>1. UNCHANGED << file, log, pc, crashes >>
      BY <1>11, <2>2 DEF World, Push, Rewrite, Enable, Disable, Upgrade, disk, run
    <3> QED
      BY <1>3, <3>1 DEF phase
  <2> QED
    BY <2>1, <2>2
<1>12. CASE UNCHANGED vars
  BY <1>3, <1>12 DEF vars, disk, phase
<1> QED
  BY <1>7, <1>9, <1>10, <1>11, <1>12 DEF Next, Fault

\* A run opens, extends, saves, prunes and loses its log only as AchievementLog
\* allows, whatever the walk, the rules, the checkpoint and the interruptions do.
THEOREM PipelineImplementsLog == Spec => ImplementsLog
<1>1. Init => Log!Init
  BY DEF Init, Log!Init
<1>2. Init => RunShape
  BY DEF Init, RunShape
<1>3. RunShape /\ [Next]_vars => RunShape'
  BY NextKeepsRunShape
<1>4. TypeOK /\ RunShape /\ [Next]_vars => [Log!Next]_(Log!vars)
  BY NextRefinesLog
<1> QED
  BY <1>1, <1>2, <1>3, <1>4, PipelineTypeCorrect, PTL DEF Spec, ImplementsLog, Log!Spec

-----------------------------------------------------------------------------
(***************************************************************************)
(* What the files are for: the checkpoint keeps its word, each commit is   *)
(* counted once, and a run that finds nothing new changes nothing.         *)
(*                                                                         *)
(* One invariant carries them, Consistent: what the files say between runs *)
(* and what the walk, the caches in memory, the open log and the outputs   *)
(* still to be emitted say together at every point of a run.               *)
(***************************************************************************)

\* What the checkpoint stands for.
Base == IF ckpt.commit = None THEN {} ELSE Reach[ckpt.commit]

\* A cache that has counted each commit of S once.
Once(S) == [c \in Commits |-> IF c \in S THEN 1 ELSE 0]

Best(S) == {c \in S : \A d \in S : Score[c] <= Score[d]}

\* The cache file m of rule r stands for the commits that were due.
CacheStands(m, r, due) == r \in Cached => m = Once(due) \/ (m = None /\ due = {})

\* The log l and the outputs waiting for the users of w are, together, what rule r
\* earns over the commits that were due.
EarnedFrom(l, w, r, due) ==
  LET authors == {Author[c] : c \in due}
      holders == HoldersIn(l, r) \cup w
  IN  CASE Role[r] = "match" -> IF Kind(r) = "PerUser"
                                THEN holders = authors
                                ELSE /\ holders \subseteq authors
                                     /\ authors # {} => holders # {}
        [] Role[r] = "count" ->
             \A u \in Users :
               GrantsTo(l, r, u) + (IF u \in w THEN 1 ELSE 0) =
                 Cardinality({m \in Milestones :
                                m <= Cardinality({c \in due : Author[c] = u})})
        [] Role[r] = "best"  ->
             (IF w = {} THEN HoldersIn(l, r) ELSE w) = {Author[c] : c \in Best(due)}

NoRows(l, r) == \A i \in DOMAIN l : l[i].ach # r

\* A rule that starts from nothing.
Fresh(r) == cache[r] = None /\ NoRows(file, r)

\* The phases in which the log is open and the checkpoint is the old one.
InRun == pc \in {"walking", "retiring", "finalizing", "evaluating", "checkpoint"}

\* The rules that were retired in this run: their caches are ahead of the
\* checkpoint.
Retired == IF InRun THEN enabled \ active ELSE {}

\* The files parse, and the checkpoint is one that some run wrote in full, for a
\* commit that is still in the history of the head.
FilesParse ==
  /\ ckpt # Torn /\ file # Unreadable /\ \A r \in Rules : cache[r] # Torn
  /\ \A r \in Rules \ Cached : cache[r] = None
  /\ ckpt.commit = None => ckpt.rules = {}
  /\ ckpt.commit # None => ckpt.commit \in Reach[head]
  /\ \A p \in ckpt.rules : p[2] <= version[p[1]]
  /\ \A p, q \in ckpt.rules : p[1] = q[1] => p = q

\* The checkpoint keeps its word; a retired rule is ahead of it.
WordKept ==
  pc # "caches" =>
    \A r \in Rules : HasProcessed(r) =>
      /\ CacheStands(cache[r], r, Due(r, IF r \in Retired THEN Reach[head] ELSE Base))
      /\ EarnedFrom(file, {}, r, Due(r, Base))

\* Rules the checkpoint does not name start from nothing, once the invalidated
\* ones are wiped.
OthersFresh ==
  /\ pc = "wiping" =>
       /\ todo \subseteq Invalidated
       /\ \A r \in enabled : ~HasProcessed(r) =>
            \/ r \in Invalidated /\ (r \in todo \/ cache[r] = None)
            \/ Fresh(r)
  /\ pc = "loading" \/ InRun => \A r \in enabled : ~HasProcessed(r) => Fresh(r)

\* The walk has seen an upper part of history, down to its frontier.
WalkDown ==
  /\ head \in seen \cup frontier
  /\ \A d \in seen : Parents[d] \subseteq seen \cup frontier
  /\ seen \cup frontier \subseteq Reach[head]
  /\ frontier \cap seen = {}
  /\ first \in {None, head}
  /\ seen # {} => first = head
  /\ seen = {} => frontier = {head}

\* The checkpoint commit lies right below, and all that is left lies behind it.
AtCheckpoint ==
  /\ ckpt.commit # None
  /\ first = head
  /\ frontier \subseteq Base /\ seen \cap Base = {}

\* The commits rule r has absorbed in this run or before it.
Covered(r) ==
  IF r \in active THEN (IF HasProcessed(r) THEN Base ELSE {}) \cup seen ELSE Reach[head]

\* No commit is met a second time.
Apart(r) == HasProcessed(r) => seen \cap Base = {}

\* Who is still running, by phase.
WhoRuns ==
  /\ active \subseteq enabled
  /\ \A r \in enabled \ active : HasProcessed(r)
  /\ \A r \in active : ckpt.commit \in seen => ~HasProcessed(r)
  /\ pc = "walking" /\ ckpt.commit \notin seen => active = enabled
  /\ pc = "retiring" =>
       AtCheckpoint /\ ckpt.commit = NextCommit /\ ckpt.commit \in frontier
  /\ pc = "finalizing" =>
       AtCheckpoint /\ budget > 0 /\ active = enabled /\ \A r \in active : HasProcessed(r)
  /\ pc \in {"evaluating", "checkpoint"} /\ ~Truncated =>
       /\ first = head
       /\ \A r \in active : Apart(r) /\ Covered(r) = Reach[head]

WalkConsistent == InRun => WalkDown /\ WhoRuns

\* Outputs wait one per rule; those of a "best" rule come from its finalize.
Finalized(r) == r \notin active \/ pc \in {"evaluating", "checkpoint"}

OutputsWait ==
  InRun =>
    /\ \A o, p \in pending : o.rule = p.rule => o = p
    /\ \A o \in pending : /\ o.rule \in enabled
                          /\ Role[o.rule] = "best" => Finalized(o.rule)
                          /\ pc = "retiring" => o.rule \notin active

\* The users rule r has an output waiting for.
Waiting(r) == {o.grant.user : o \in {o \in pending : o.rule = r}}

\* What the log should know of rule r: a "best" rule speaks in its finalize.
Goal(r) ==
  IF Role[r] = "best" /\ ~Finalized(r)
  THEN IF HasProcessed(r) THEN Base ELSE {}
  ELSE Covered(r)

\* Each running rule has in memory, and each rule has in the log, what the
\* commits it covered make of it.
RulesConsistent ==
  InRun => /\ \A r \in active : Apart(r) => mem[r] = Once(IF r \in Cached
                                                          THEN Due(r, Covered(r)) ELSE {})
           /\ \A r \in enabled : (r \in active => Apart(r)) =>
                EarnedFrom(log, Waiting(r), r, Due(r, Goal(r)))

\* The new checkpoint is written, the caches and the log are not yet.
SavingConsistent ==
  pc = "caches" =>
    /\ ckpt = [commit |-> head, rules |-> RulesWithVersions]
    /\ active \subseteq enabled /\ todo \subseteq active \cap Cached
    /\ \A r \in active : mem[r] = Once(IF r \in Cached THEN Due(r, Reach[head]) ELSE {})
    /\ \A r \in enabled : /\ r \notin todo => CacheStands(cache[r], r, Due(r, Reach[head]))
                          /\ EarnedFrom(log, {}, r, Due(r, Reach[head]))

Sound ==
  /\ FilesParse
  /\ WordKept
  /\ OthersFresh
  /\ WalkConsistent
  /\ OutputsWait
  /\ RulesConsistent
  /\ SavingConsistent

Consistent == ~spoiled => Sound

USE DEF Rules

-----------------------------------------------------------------------------
(***************************************************************************)
(* History.                                                                *)
(***************************************************************************)

\* Reach[h] is the least set around h that is closed under parents.
LEMMA ReachProperties ==
  ASSUME NEW h \in Commits
  PROVE  /\ Reach[h] \subseteq Commits
         /\ h \in Reach[h]
         /\ \A d \in Reach[h] : Parents[d] \subseteq Reach[h]
         /\ \A S \in SUBSET Commits :
              h \in S /\ (\A d \in S : Parents[d] \subseteq S) => Reach[h] \subseteq S
<1>1. Reach[h] = {c \in Commits : \A S \in SUBSET Commits :
                    h \in S /\ (\A d \in S : Parents[d] \subseteq S) => c \in S}
  BY DEF Reach
<1>2. ASSUME NEW d \in Reach[h], NEW e \in Parents[d] PROVE e \in Reach[h]
  <2>1. e \in Commits
    BY <1>1, <1>2, GraphAssumption
  <2>2. ASSUME NEW S \in SUBSET Commits, h \in S, \A x \in S : Parents[x] \subseteq S
        PROVE  e \in S
    BY <1>1, <1>2, <2>2
  <2> QED
    BY <1>1, <2>1, <2>2
<1> QED
  BY <1>1, <1>2

LEMMA ReachTransitive ==
  ASSUME NEW h \in Commits, NEW d \in Reach[h]
  PROVE  Reach[d] \subseteq Reach[h]
<1>1. d \in Commits
  BY ReachProperties
<1> QED
  BY <1>1, ReachProperties

\* What the walk has seen down to a frontier that lies in a closed set is, with
\* that set, all of history.
LEMMA WalkComplete ==
  ASSUME TypeOK, WalkDown, NEW S \in SUBSET Reach[head],
         \A d \in S : Parents[d] \subseteq S, frontier \subseteq S
  PROVE  seen \cup S = Reach[head]
<1>1. head \in Commits /\ Reach[head] \subseteq Commits
  BY ReachProperties DEF TypeOK
<1>2. seen \cup S \subseteq Reach[head]
  BY DEF WalkDown
<1>3. head \in seen \cup S
  BY DEF WalkDown
<1>4. \A d \in seen \cup S : Parents[d] \subseteq seen \cup S
  BY DEF WalkDown
<1>5. Reach[head] \subseteq seen \cup S
  BY <1>1, <1>2, <1>3, <1>4, ReachProperties
<1> QED
  BY <1>2, <1>5

-----------------------------------------------------------------------------
(***************************************************************************)
(* Least elements, and the best of a set of commits.                       *)
(***************************************************************************)

LEMMA LeastProperties ==
  ASSUME NEW S \in SUBSET Rules, S # {}
  PROVE  Least(S) \in S
<1>1. \E x \in S : \A y \in S : x <= y
  BY RuleAssumption, LeastExists
<1> QED
  BY <1>1 DEF Least

\* Among commits there is one best, if there is any commit at all.
LEMMA BestProperties ==
  ASSUME NEW S \in SUBSET Commits
  PROVE  /\ Best(S) \subseteq S
         /\ S # {} => Best(S) # {}
         /\ \A c, d \in Best(S) : c = d
         /\ \A T \in SUBSET S : \A c \in Best(S) \cap T : Best(T) = {c}
<1>1. Best(S) \subseteq S
  BY DEF Best
<1>2. S # {} => Best(S) # {}
  <2> SUFFICES ASSUME S # {} PROVE Best(S) # {}
    OBVIOUS
  <2> DEFINE scores == {Score[c] : c \in S}
  <2>1. scores \in SUBSET Nat /\ scores # {}
    BY ScoreAssumption
  <2>2. PICK x \in scores : \A y \in scores : x <= y
    BY <2>1, LeastExists
  <2> QED
    BY <2>2 DEF Best
<1>3. \A T \in SUBSET Commits : \A c, d \in Best(T) : c = d
  <2> SUFFICES ASSUME NEW T \in SUBSET Commits, NEW c \in Best(T), NEW d \in Best(T)
               PROVE  c = d
    OBVIOUS
  <2>1. /\ c \in Commits /\ d \in Commits
        /\ Score[c] <= Score[d] /\ Score[d] <= Score[c]
    BY DEF Best
  <2>2. Score[c] \in Nat /\ Score[d] \in Nat
    BY <2>1, ScoreAssumption
  <2>3. Score[c] = Score[d]
    BY <2>1, <2>2
  <2> QED
    BY <2>1, <2>3, ScoreAssumption
<1>4. ASSUME NEW T \in SUBSET S, NEW c \in Best(S) \cap T PROVE Best(T) = {c}
  <2>1. c \in Best(T)
    BY <1>4 DEF Best
  <2>2. T \in SUBSET Commits
    OBVIOUS
  <2> QED
    BY <1>3, <2>1, <2>2
<1> QED
  BY <1>1, <1>2, <1>3, <1>4

-----------------------------------------------------------------------------
(***************************************************************************)
(* Counting.                                                               *)
(***************************************************************************)

\* A record is read off a cache that has counted each commit of S once.
LEMMA RecordOfOnce ==
  ASSUME NEW S \in SUBSET Commits
  PROVE  Once(S) \in Caches /\ Record(Once(S)) = Best(S)
<1>1. \A c \in Commits : Once(S)[c] > 0 <=> c \in S
  BY DEF Once
<1>2. Record(Once(S)) = Best(S)
  BY <1>1 DEF Record, Best
<1>3. Once(S) \in Caches
  BY DEF Once, Caches
<1> QED
  BY <1>2, <1>3

\* A cache that has counted each commit of S once has a user's commits in S.
LEMMA CountInOnce ==
  ASSUME NEW S \in SUBSET Commits, NEW u
  PROVE  /\ IsFiniteSet({c \in S : Author[c] = u})
         /\ CountIn(Once(S), u) = Cardinality({c \in S : Author[c] = u})
<1> DEFINE By  == {c \in S : Author[c] = u}
           Two == UNION {{c} \X (1..Once(S)[c]) : c \in {c \in Commits : Author[c] = u}}
           f   == [c \in By |-> << c, 1 >>]
<1>1. IsFiniteSet(By)
  <2>1. By \in SUBSET Commits
    OBVIOUS
  <2> QED
    BY <2>1, GraphAssumption, FS_Subset
<1>2. \A c \in Commits : 1..Once(S)[c] = IF c \in S THEN {1} ELSE {}
  <2>1. ASSUME NEW c \in Commits PROVE 1..Once(S)[c] = IF c \in S THEN {1} ELSE {}
    <3>1. CASE c \in S
      <4>1. Once(S)[c] = 1 /\ 1..1 = {1}
        BY <3>1 DEF Once
      <4> QED
        BY <3>1, <4>1
    <3>2. CASE c \notin S
      <4>1. Once(S)[c] = 0 /\ 1..0 = {}
        BY <3>2 DEF Once
      <4> QED
        BY <3>2, <4>1
    <3> QED
      BY <3>1, <3>2
  <2> QED
    BY <2>1
<1>3. \A x : x \in Two <=> \E c \in By : x = << c, 1 >>
  <2>1. ASSUME NEW x \in Two PROVE \E c \in By : x = << c, 1 >>
    <3>1. PICK c \in Commits : Author[c] = u /\ x \in {c} \X (1..Once(S)[c])
      BY <2>1
    <3>2. c \in S /\ x \in {c} \X {1}
      BY <1>2, <3>1
    <3> QED
      BY <3>1, <3>2
  <2>2. ASSUME NEW c \in By PROVE << c, 1 >> \in Two
    <3>1. c \in Commits /\ Author[c] = u /\ << c, 1 >> \in {c} \X (1..Once(S)[c])
      BY <1>2, <2>2
    <3> QED
      BY <3>1
  <2> QED
    BY <2>1, <2>2
<1>4. f \in Bijection(By, Two)
  <2> HIDE DEF By, Two
  <2>1. f \in [By -> Two]
    BY <1>3
  <2>2. \A a, b \in By : f[a] = f[b] => a = b
    OBVIOUS
  <2>3. \A x \in Two : \E c \in By : f[c] = x
    BY <1>3
  <2> QED
    BY <2>1, <2>2, <2>3 DEF Bijection, Injection, Surjection, IsInjective
<1> HIDE DEF f, By, Two
<1>5. Cardinality(By) = Cardinality(Two)
  <2>1. ExistsBijection(By, Two)
    BY <1>4 DEF ExistsBijection
  <2> QED
    BY <1>1, <2>1, FS_Bijection
<1> QED
  BY <1>1, <1>5 DEF By, Two, CountIn

\* One more commit of a user.
LEMMA OneMoreCommit ==
  ASSUME NEW S \in SUBSET Commits, NEW c \in Commits, c \notin S, NEW u
  PROVE  /\ Cardinality({d \in S : Author[d] = u}) \in Nat
         /\ Cardinality({d \in S \cup {c} : Author[d] = u}) =
              Cardinality({d \in S : Author[d] = u}) + (IF Author[c] = u THEN 1 ELSE 0)
<1> DEFINE By == {d \in S : Author[d] = u}
           new == {d \in S \cup {c} : Author[d] = u}
<1>1. IsFiniteSet(By)
  BY CountInOnce
<1>2. Cardinality(By) \in Nat
  BY <1>1, FS_CardinalityType
<1>3. CASE Author[c] = u
  <2>1. new = By \cup {c} /\ c \notin By
    BY <1>3
  <2> HIDE DEF new, By
  <2>2. Cardinality(By \cup {c}) = Cardinality(By) + 1
    BY <1>1, <2>1, FS_AddElement
  <2>3. Cardinality(new) = Cardinality(By) + 1
    BY <2>1, <2>2
  <2> QED
    BY <1>2, <1>3, <2>3 DEF new, By
<1>4. CASE Author[c] # u
  <2>1. new = By
    BY <1>4
  <2> QED
    BY <1>2, <1>4, <2>1
<1> QED
  BY <1>3, <1>4

\* One more commit passes a milestone, if its count is one.
LEMMA OneMoreMilestone ==
  ASSUME NEW n \in Nat
  PROVE  /\ Cardinality({m \in Milestones : m <= n}) \in Nat
         /\ Cardinality({m \in Milestones : m <= n + 1}) =
              Cardinality({m \in Milestones : m <= n})
                + (IF n + 1 \in Milestones THEN 1 ELSE 0)
<1> DEFINE old == {m \in Milestones : m <= n}
           new == {m \in Milestones : m <= n + 1}
<1>1. \A m \in Milestones : m \in Nat /\ m # 0
  BY BoundsAssumption
<1>2. IsFiniteSet(old)
  <2>1. old \in SUBSET (1..n)
    BY <1>1
  <2>2. IsFiniteSet(1..n)
    BY FS_Interval
  <2> HIDE DEF old
  <2> QED
    BY <2>1, <2>2, FS_Subset
<1>3. Cardinality(old) \in Nat
  BY <1>2, FS_CardinalityType
<1>4. CASE n + 1 \in Milestones
  <2>1. new = old \cup {n + 1} /\ n + 1 \notin old
    BY <1>1, <1>4
  <2> HIDE DEF new, old
  <2>2. Cardinality(old \cup {n + 1}) = Cardinality(old) + 1
    BY <1>2, <2>1, FS_AddElement
  <2>3. Cardinality(new) = Cardinality(old) + 1
    BY <2>1, <2>2
  <2> QED
    BY <1>3, <1>4, <2>3 DEF new, old
<1>5. CASE n + 1 \notin Milestones
  <2>1. new = old
    BY <1>1, <1>5
  <2> QED
    BY <1>3, <1>5, <2>1
<1> QED
  BY <1>4, <1>5

-----------------------------------------------------------------------------
(***************************************************************************)
(* What a resolved grant and a pruning make of a rule's rows.              *)
(***************************************************************************)

\* Resolving a grant appends nothing, or the grant, or a revocation and the grant.
LEMMA ResolveExtends ==
  ASSUME NEW l \in Seq(Event), NEW a \in AllAchievements, NEW g \in Grant
  PROVE  LET e == GrantEvent(a, g)
         IN  /\ e \in Event /\ IsGrant(e, a) /\ e.user = g.user
             /\ \/ Suppressed(l, a, g) /\ Resolve(l, a, g) = l
                \/ \E m \in Seq(Event) :
                     /\ m = l \/ \E d \in Event : IsRevoke(d, a) /\ m = l \o << d >>
                     /\ Resolve(l, a, g) = m \o << e >>
<1> DEFINE e == GrantEvent(a, g)
           d == Revocation(l, a, HolderUser(l, a))
<1>1. e \in Event /\ IsGrant(e, a) /\ e.user = g.user
  BY DEF GrantEvent, Grant, Event, IsGrant
<1>2. CASE Suppressed(l, a, g)
  <2>1. Resolve(l, a, g) = l \o << >>
    BY <1>2 DEF Resolve, Resolution
  <2>2. Resolve(l, a, g) = l
    BY <2>1, ConcatEmptySeq
  <2> QED
    BY <1>1, <1>2, <2>2
<1>3. CASE ~Suppressed(l, a, g) /\ ~Supersedes(l, a)
  <2>1. Resolve(l, a, g) = l \o << e >>
    BY <1>3 DEF Resolve, Resolution
  <2> QED
    BY <1>1, <2>1
<1>4. CASE ~Suppressed(l, a, g) /\ Supersedes(l, a)
  <2>1. HasHolder(l, a)
    BY <1>4 DEF Supersedes
  <2>2. d \in Event /\ IsRevoke(d, a)
    BY <2>1, HolderProperties
  <2>3. Resolve(l, a, g) = l \o << d, e >>
    BY <1>4 DEF Resolve, Resolution
  <2> HIDE DEF d, e
  <2>4. l \o << d, e >> = (l \o << d >>) \o << e >> /\ l \o << d >> \in Seq(Event)
    BY <1>1, <2>2, ExtendByOne
  <2> QED
    BY <1>1, <2>2, <2>3, <2>4 DEF e
<1> QED
  BY <1>2, <1>3, <1>4

\* Grants are counted over a finite log.
LEMMA GrantsToTyped ==
  ASSUME NEW l \in Seq(Event), NEW b, NEW u
  PROVE  /\ IsFiniteSet({i \in DOMAIN l : IsGrant(l[i], b) /\ l[i].user = u})
         /\ GrantsTo(l, b, u) \in Nat
<1> DEFINE S == {i \in DOMAIN l : IsGrant(l[i], b) /\ l[i].user = u}
<1>1. 1 \in Int /\ Len(l) \in Int /\ DOMAIN l = 1..Len(l)
  BY LenProperties
<1>2. S \in SUBSET (1..Len(l))
  BY <1>1
<1>3. IsFiniteSet(1..Len(l))
  BY <1>1, FS_Interval
<1> HIDE DEF S
<1>4. IsFiniteSet(S)
  BY <1>2, <1>3, FS_Subset
<1>5. Cardinality(S) \in Nat
  BY <1>4, FS_CardinalityType
<1> QED
  BY <1>4, <1>5 DEF S, GrantsTo

\* One more row.
LEMMA RowsAfterOne ==
  ASSUME NEW l \in Seq(Event), NEW e \in Event, NEW b
  PROVE  /\ NoRows(l, b) /\ e.ach # b => NoRows(l \o << e >>, b)
         /\ \A u : /\ GrantsTo(l, b, u) \in Nat
                   /\ GrantsTo(l \o << e >>, b, u) =
                        GrantsTo(l, b, u) + (IF IsGrant(e, b) /\ e.user = u THEN 1 ELSE 0)
<1> DEFINE n   == Len(l)
           new == l \o << e >>
<1>1. /\ n \in Nat /\ DOMAIN l = 1..n /\ DOMAIN new = 1..(n + 1)
      /\ \A i \in 1..n : new[i] = l[i]
      /\ new[n + 1] = e
  BY ExtendByOne
<1> HIDE DEF new, n
<1>2. NoRows(l, b) /\ e.ach # b => NoRows(new, b)
  <2>1. \A j \in DOMAIN new : j = n + 1 \/ j \in DOMAIN l
    BY <1>1
  <2> QED
    BY <1>1, <2>1 DEF NoRows
<1>3. ASSUME NEW u
      PROVE  /\ GrantsTo(l, b, u) \in Nat
             /\ GrantsTo(new, b, u) =
                  GrantsTo(l, b, u) + (IF IsGrant(e, b) /\ e.user = u THEN 1 ELSE 0)
  <2> DEFINE old  == {i \in DOMAIN l : IsGrant(l[i], b) /\ l[i].user = u}
             more == {i \in DOMAIN new : IsGrant(new[i], b) /\ new[i].user = u}
  <2>1. IsFiniteSet(old)
    BY GrantsToTyped
  <2>2. Cardinality(old) \in Nat
    BY <2>1, FS_CardinalityType
  <2>3. more = IF IsGrant(e, b) /\ e.user = u THEN old \cup {n + 1} ELSE old
    <3>1. \A i \in 1..n : i \in more <=> i \in old
      BY <1>1
    <3>2. n + 1 \in more <=> IsGrant(e, b) /\ e.user = u
      BY <1>1
    <3>3. more \subseteq 1..(n + 1) /\ old \subseteq 1..n
      BY <1>1
    <3>4. \A i \in 1..(n + 1) : i \in 1..n \/ i = n + 1
      BY <1>1
    <3>5. n + 1 \in 1..(n + 1) /\ \A i \in 1..n : i \in 1..(n + 1)
      BY <1>1
    <3> HIDE DEF more, old
    <3>6. CASE IsGrant(e, b) /\ e.user = u
      <4>1. more = old \cup {n + 1}
        BY <3>1, <3>2, <3>3, <3>4, <3>5, <3>6
      <4> QED
        BY <3>6, <4>1
    <3>7. CASE ~(IsGrant(e, b) /\ e.user = u)
      <4>1. more = old
        BY <3>1, <3>2, <3>3, <3>4, <3>5, <3>7
      <4> QED
        BY <3>7, <4>1
    <3> QED
      BY <3>6, <3>7
  <2>4. n + 1 \notin old
    BY <1>1
  <2> HIDE DEF more, old
  <2>5. Cardinality(old \cup {n + 1}) = Cardinality(old) + 1
    BY <2>1, <2>4, FS_AddElement
  <2>6. Cardinality(more) =
          Cardinality(old) + (IF IsGrant(e, b) /\ e.user = u THEN 1 ELSE 0)
    BY <2>2, <2>3, <2>5
  <2> QED
    BY <2>2, <2>6 DEF GrantsTo, old, more
<1> QED
  BY <1>2, <1>3 DEF new

\* Resolving a grant of one achievement adds no row of another, and a recurrent one
\* is always granted.
LEMMA ResolveRowsOf ==
  ASSUME NEW l \in Seq(Event), NEW a \in AllAchievements, NEW g \in Grant
  PROVE  LET new == Resolve(l, a, g)
         IN  /\ \A b : b # a /\ NoRows(l, b) => NoRows(new, b)
             /\ \A b, u : b # a => GrantsTo(new, b, u) = GrantsTo(l, b, u)
             /\ Kind(a) = "PerUserRecurrent" =>
                  \A u : GrantsTo(new, a, u) =
                           GrantsTo(l, a, u) + (IF g.user = u THEN 1 ELSE 0)
<1> DEFINE e   == GrantEvent(a, g)
           new == Resolve(l, a, g)
<1>1. /\ e \in Event /\ IsGrant(e, a) /\ e.user = g.user
      /\ \/ Suppressed(l, a, g) /\ new = l
         \/ \E m \in Seq(Event) :
              /\ m = l \/ \E d \in Event : IsRevoke(d, a) /\ m = l \o << d >>
              /\ new = m \o << e >>
  BY ResolveExtends
<1> HIDE DEF e, new
<1>2. CASE Suppressed(l, a, g) /\ new = l
  <2>1. Kind(a) # "PerUserRecurrent"
    BY <1>2 DEF Suppressed
  <2>2. /\ \A b : b # a /\ NoRows(l, b) => NoRows(new, b)
        /\ \A b, u : b # a => GrantsTo(new, b, u) = GrantsTo(l, b, u)
        /\ Kind(a) = "PerUserRecurrent" =>
             \A u : GrantsTo(new, a, u) = GrantsTo(l, a, u) + (IF g.user = u THEN 1 ELSE 0)
    BY <1>2, <2>1
  <2> QED
    BY <2>2 DEF new
<1>3. ASSUME NEW m \in Seq(Event), new = m \o << e >>,
             m = l \/ \E d \in Event : IsRevoke(d, a) /\ m = l \o << d >>
      PROVE  /\ \A b : b # a /\ NoRows(l, b) => NoRows(new, b)
             /\ \A b, u : b # a => GrantsTo(new, b, u) = GrantsTo(l, b, u)
             /\ \A u : GrantsTo(new, a, u) = GrantsTo(l, a, u) + (IF g.user = u THEN 1 ELSE 0)
  <2>1. /\ \A b : b # a /\ NoRows(l, b) => NoRows(m, b)
        /\ \A b, u : GrantsTo(m, b, u) = GrantsTo(l, b, u)
    <3>1. CASE m = l
      BY <3>1
    <3>2. ASSUME NEW d \in Event, IsRevoke(d, a), m = l \o << d >>
          PROVE  /\ \A b : b # a /\ NoRows(l, b) => NoRows(m, b)
                 /\ \A b, u : GrantsTo(m, b, u) = GrantsTo(l, b, u)
      <4>1. d.ach = a /\ \A b : ~IsGrant(d, b)
        BY <3>2 DEF IsRevoke, IsGrant
      <4>2. \A b, u : GrantsTo(l, b, u) \in Nat /\ GrantsTo(m, b, u) = GrantsTo(l, b, u) + 0
        BY <3>2, <4>1, RowsAfterOne, ZenonT(60)
      <4> QED
        BY <3>2, <4>1, <4>2, RowsAfterOne
    <3> QED
      BY <1>3, <3>1, <3>2
  <2>2. e.ach = a /\ \A b : IsGrant(e, b) <=> b = a
    BY <1>1 DEF IsGrant
  <2>3. \A b : b # a /\ NoRows(m, b) => NoRows(new, b)
    BY <1>1, <1>3, <2>2, RowsAfterOne
  <2>4. \A b, u : /\ GrantsTo(m, b, u) \in Nat
                  /\ GrantsTo(new, b, u) =
                       GrantsTo(m, b, u) + (IF b = a /\ g.user = u THEN 1 ELSE 0)
    <3> SUFFICES ASSUME NEW b, NEW u
                 PROVE  /\ GrantsTo(m, b, u) \in Nat
                        /\ GrantsTo(new, b, u) =
                             GrantsTo(m, b, u) + (IF b = a /\ g.user = u THEN 1 ELSE 0)
      OBVIOUS
    <3>1. /\ GrantsTo(m, b, u) \in Nat
          /\ GrantsTo(m \o << e >>, b, u) =
               GrantsTo(m, b, u) + (IF IsGrant(e, b) /\ e.user = u THEN 1 ELSE 0)
      <4>1. e \in Event /\ m \in Seq(Event)
        BY <1>1
      <4> QED
        BY <4>1, RowsAfterOne, Zenon
    <3> QED
      BY <1>1, <1>3, <2>2, <3>1
  <2> QED
    BY <2>1, <2>3, <2>4
<1> QED
  BY <1>1, <1>2, <1>3 DEF new

\* Pruning keeps every row of an achievement it was not told to drop, and none of
\* one that it was.
LEMMA PruneKeepsGrants ==
  ASSUME NEW l \in Seq(Event), NEW as, NEW b, b \notin as \cup MetaAchievements, NEW u
  PROVE  GrantsTo(Pruned(l, as), b, u) = GrantsTo(l, b, u)
<1> DEFINE kept == KeptRows(l, as)
           new  == Pruned(l, as)
           Old(k) == NthOf(kept, k)
<1>1. /\ \A k \in DOMAIN new : Old(k) \in kept /\ new[k] = l[Old(k)] /\ k \in Nat
      /\ \A i \in kept : \E k \in DOMAIN new : Old(k) = i
      /\ \A k, m \in DOMAIN new : k < m <=> Old(k) < Old(m)
  <2>1. /\ Pruned(l, as) \in Seq(Event)
        /\ \A k \in DOMAIN Pruned(l, as) :
             /\ NthOf(KeptRows(l, as), k) \in KeptRows(l, as)
             /\ Pruned(l, as)[k] = l[NthOf(KeptRows(l, as), k)]
        /\ \A i \in KeptRows(l, as) :
             \E k \in DOMAIN Pruned(l, as) : NthOf(KeptRows(l, as), k) = i
        /\ \A k, m \in DOMAIN Pruned(l, as) :
             k < m <=> NthOf(KeptRows(l, as), k) < NthOf(KeptRows(l, as), m)
        /\ DOMAIN Pruned(l, as) = 1..Len(Pruned(l, as))
    BY PrunedProperties, ZenonT(60)
  <2>2. \A k \in DOMAIN Pruned(l, as) : k \in Nat
    BY <2>1, LenProperties
  <2> QED
    BY <2>1, <2>2
<1>2. DOMAIN l = 1..Len(l) /\ Len(l) \in Nat
  BY LenProperties
<1>3. kept = {i \in DOMAIN l : l[i].ach \notin as \cup MetaAchievements}
  BY DEF KeptRows
<1> HIDE DEF kept, new, Old
<1>4. \A k, m \in DOMAIN new : Old(k) = Old(m) => k = m
  <2> SUFFICES ASSUME NEW k \in DOMAIN new, NEW m \in DOMAIN new, Old(k) = Old(m)
               PROVE  k = m
    OBVIOUS
  <2>1. k \in Nat /\ m \in Nat /\ Old(k) \in Nat
    <3>1. Old(k) \in kept /\ k \in Nat /\ m \in Nat
      BY <1>1
    <3>2. \A i \in kept : i \in Nat
      BY <1>2, <1>3
    <3> QED
      BY <3>1, <3>2
  <2>2. ~(k < m) /\ ~(m < k)
    BY <1>1, <2>1
  <2> QED
    BY <2>1, <2>2
<1>5. GrantsTo(new, b, u) = GrantsTo(l, b, u)
  <2> DEFINE From == {k \in DOMAIN new : IsGrant(new[k], b) /\ new[k].user = u}
             To   == {i \in DOMAIN l : IsGrant(l[i], b) /\ l[i].user = u}
             f    == [k \in From |-> Old(k)]
  <2>1. f \in [From -> To]
    BY <1>1, <1>3
  <2>2. \A k, m \in From : f[k] = f[m] => k = m
    BY <1>4
  <2>3. \A i \in To : \E k \in From : f[k] = i
    <3> SUFFICES ASSUME NEW i \in To PROVE \E k \in From : f[k] = i
      OBVIOUS
    <3>1. i \in kept
      BY <1>3 DEF IsGrant
    <3>2. PICK k \in DOMAIN new : Old(k) = i
      BY <1>1, <3>1
    <3> QED
      BY <1>1, <3>2
  <2>4. IsFiniteSet(From)
    <3>1. IsFiniteSet(To)
      BY GrantsToTyped
    <3> HIDE DEF From, To, f
    <3>2. f \in Injection(From, To)
      BY <2>1, <2>2 DEF Injection, IsInjective
    <3> QED
      BY <3>1, <3>2, FS_Injection
  <2> HIDE DEF From, To, f
  <2>5. ExistsBijection(From, To)
    BY <2>1, <2>2, <2>3 DEF ExistsBijection, Bijection, Injection, Surjection, IsInjective
  <2>6. Cardinality(To) = Cardinality(From)
    BY <2>4, <2>5, FS_Bijection
  <2> QED
    BY <2>6 DEF GrantsTo, From, To
<1> QED
  BY <1>5 DEF new

LEMMA PruneDropsRows ==
  ASSUME NEW l \in Seq(Event), NEW as, NEW b, b \in as \/ NoRows(l, b)
  PROVE  NoRows(Pruned(l, as), b)
<1>1. /\ Pruned(l, as) \in Seq(Event)
      /\ \A k \in DOMAIN Pruned(l, as) :
           /\ NthOf(KeptRows(l, as), k) \in KeptRows(l, as)
           /\ Pruned(l, as)[k] = l[NthOf(KeptRows(l, as), k)]
      /\ \A i \in KeptRows(l, as) :
           \E k \in DOMAIN Pruned(l, as) : NthOf(KeptRows(l, as), k) = i
      /\ \A k, m \in DOMAIN Pruned(l, as) :
           k < m <=> NthOf(KeptRows(l, as), k) < NthOf(KeptRows(l, as), m)
      /\ DOMAIN Pruned(l, as) = 1..Len(Pruned(l, as))
  BY PrunedProperties, ZenonT(60)
<1>2. \A i \in KeptRows(l, as) : l[i].ach # b
  BY DEF KeptRows, NoRows
<1> QED
  BY <1>1, <1>2 DEF NoRows

\* Who holds an achievement, as active_grants sees it.
LEMMA HoldersAreGranted ==
  ASSUME NEW l, NEW b
  PROVE  \A u : u \in HoldersIn(l, b) <=> IsGrantedTo(l, b, u)
BY ActiveMeansGranted DEF HoldersIn

LEMMA ResolveHoldersIn ==
  ASSUME NEW l \in Seq(Event), SingleHolder(l), NEW a \in AllAchievements, NEW g \in Grant
  PROVE  LET new == Resolve(l, a, g)
         IN  /\ \A b : b # a => HoldersIn(new, b) = HoldersIn(l, b)
             /\ Kind(a) \notin GlobalKinds =>
                  HoldersIn(new, a) = HoldersIn(l, a) \cup {g.user}
             /\ Kind(a) = "Global" =>
                  HoldersIn(new, a) =
                    IF HoldersIn(l, a) # {} THEN HoldersIn(l, a) ELSE {g.user}
             /\ Kind(a) = "GlobalRevocable" => HoldersIn(new, a) = {g.user}
<1> DEFINE new == Resolve(l, a, g)
<1>1. /\ \A b, v : b # a => (IsGrantedTo(new, b, v) <=> IsGrantedTo(l, b, v))
      /\ Kind(a) \notin GlobalKinds =>
           \A v : IsGrantedTo(new, a, v) <=> v = g.user \/ IsGrantedTo(l, a, v)
      /\ Kind(a) = "Global" =>
           IF HasHolder(l, a) THEN new = l
           ELSE \A v : IsGrantedTo(new, a, v) <=> v = g.user
      /\ Kind(a) = "GlobalRevocable" =>
           \A v : IsGrantedTo(new, a, v) <=> v = g.user
  BY ResolveHolders
<1>2. \A b, u : /\ u \in HoldersIn(new, b) <=> IsGrantedTo(new, b, u)
                /\ u \in HoldersIn(l, b) <=> IsGrantedTo(l, b, u)
  BY HoldersAreGranted
<1>3. Kind(a) = "Global" => (HasHolder(l, a) <=> HoldersIn(l, a) # {})
  <2>1. Kind(a) = "Global" => a \in GlobalOnes
    BY DEF GlobalOnes, GlobalKinds
  <2>2. Kind(a) = "Global" =>
          \A v : IsGrantedTo(l, a, v) <=> HasHolder(l, a) /\ v = HolderUser(l, a)
    BY <2>1, HolderIsGranted
  <2> QED
    BY <1>2, <2>2
<1> HIDE DEF new
<1>4. ASSUME NEW b, b # a PROVE HoldersIn(new, b) = HoldersIn(l, b)
  <2>1. \A v : IsGrantedTo(new, b, v) <=> IsGrantedTo(l, b, v)
    BY <1>1, <1>4
  <2>2. \A v : v \in HoldersIn(new, b) <=> v \in HoldersIn(l, b)
    BY <1>2, <2>1
  <2> QED
    BY <2>2
<1>5. Kind(a) \notin GlobalKinds => HoldersIn(new, a) = HoldersIn(l, a) \cup {g.user}
  BY <1>1, <1>2
<1>6. Kind(a) = "Global" =>
        HoldersIn(new, a) = IF HoldersIn(l, a) # {} THEN HoldersIn(l, a) ELSE {g.user}
  BY <1>1, <1>2, <1>3
<1>7. Kind(a) = "GlobalRevocable" => HoldersIn(new, a) = {g.user}
  BY <1>1, <1>2
<1> QED
  BY <1>4, <1>5, <1>6, <1>7 DEF new

LEMMA PruneHoldersIn ==
  ASSUME NEW l \in Seq(Event), NEW as, NEW b, b \notin as \cup MetaAchievements
  PROVE  HoldersIn(Pruned(l, as), b) = HoldersIn(l, b)
<1>1. \A u : IsGrantedTo(Pruned(l, as), b, u) <=> IsGrantedTo(l, b, u)
  BY PruneHolders
<1> QED
  BY <1>1, HoldersAreGranted

\* A rule without rows has granted nothing to anyone.
LEMMA NothingGranted ==
  ASSUME NEW l \in Seq(Event), NEW b, NoRows(l, b)
  PROVE  HoldersIn(l, b) = {} /\ \A u : GrantsTo(l, b, u) = 0
<1>1. HoldersIn(l, b) = {}
  BY DEF HoldersIn, ActiveGrants, NoRows
<1>2. ASSUME NEW u PROVE GrantsTo(l, b, u) = 0
  <2>1. {i \in DOMAIN l : IsGrant(l[i], b) /\ l[i].user = u} = {}
    BY DEF NoRows, IsGrant
  <2> QED
    BY <2>1, FS_EmptySet DEF GrantsTo
<1> QED
  BY <1>1, <1>2

-----------------------------------------------------------------------------
(***************************************************************************)
(* What a rule earns.                                                      *)
(***************************************************************************)

\* How a rule works fixes how its achievement is granted.
LEMMA RuleKinds ==
  ASSUME NEW r \in Rules
  PROVE  /\ Role[r] \in {"match", "count", "best"}
         /\ r \in AllAchievements /\ r # Farmer /\ Kind(r) \in Kinds
         /\ Role[r] = "count" => Kind(r) = "PerUserRecurrent"
         /\ Role[r] = "best" => Kind(r) = "GlobalRevocable"
<1>1. r # Farmer /\ Kind(r) = KindOf[r]
  BY FarmerAssumption DEF Kind
<1>2. r \in AllAchievements
  BY DEF AllAchievements
<1>3. Kind(r) \in Kinds
  BY <1>1, KindAssumption
<1>4. Role[r] \in {"match", "count", "best"}
  BY RoleAssumption DEF Roles
<1>5. /\ Role[r] = "count" => KindOf[r] = "PerUserRecurrent"
      /\ Role[r] = "best" => KindOf[r] = "GlobalRevocable"
  BY RoleAssumption
<1> QED
  BY <1>1, <1>2, <1>3, <1>4, <1>5

LEMMA AwardedIsEarned ==
  ASSUME NEW r \in Rules, NEW l \in Seq(Event), NEW cs
  PROVE  Awarded(l, r, cs) <=> EarnedFrom(l, {}, r, Due(r, cs))
<1>1. CASE Role[r] = "match"
  BY <1>1 DEF Awarded, EarnedFrom
<1>2. CASE Role[r] = "count"
  <2>1. \A u \in Users : GrantsTo(l, r, u) + (IF u \in {} THEN 1 ELSE 0) = GrantsTo(l, r, u)
    <3>1. \A u : GrantsTo(l, r, u) \in Nat
      BY GrantsToTyped
    <3> QED
      BY <3>1
  <2> QED
    BY <1>2, <2>1 DEF Awarded, EarnedFrom
<1>3. CASE Role[r] = "best"
  BY <1>3 DEF Awarded, EarnedFrom, Best
<1> QED
  BY <1>1, <1>2, <1>3, RuleKinds

\* It depends on who holds the achievement and how often it was granted.
LEMMA SameRowsEarn ==
  ASSUME NEW r \in Rules, NEW l, NEW m, NEW w, NEW due,
         HoldersIn(m, r) = HoldersIn(l, r),
         \A u : GrantsTo(m, r, u) = GrantsTo(l, r, u),
         EarnedFrom(l, w, r, due)
  PROVE  EarnedFrom(m, w, r, due)
BY RuleKinds DEF EarnedFrom

LEMMA NothingEarned ==
  ASSUME NEW r \in Rules, NEW l \in Seq(Event), NoRows(l, r)
  PROVE  EarnedFrom(l, {}, r, {})
<1>1. HoldersIn(l, r) = {} /\ \A u : GrantsTo(l, r, u) = 0
  BY NothingGranted
<1>2. {c \in {} : TRUE} = {} /\ Best({}) = {}
  BY DEF Best
<1>3. \A u : {m \in Milestones : m <= Cardinality({c \in {} : Author[c] = u})} = {}
  <2>1. \A u : {c \in {} : Author[c] = u} = {}
    OBVIOUS
  <2>2. Cardinality({}) = 0
    BY FS_EmptySet
  <2>3. \A m \in Milestones : ~(m <= 0)
    BY BoundsAssumption
  <2> QED
    BY <2>1, <2>2, <2>3
<1>4. \A u : Cardinality({m \in Milestones :
                            m <= Cardinality({c \in {} : Author[c] = u})}) = 0
  BY <1>3, FS_EmptySet
<1>5. CASE Role[r] = "match"
  BY <1>1, <1>5 DEF EarnedFrom
<1>6. CASE Role[r] = "count"
  BY <1>1, <1>4, <1>6 DEF EarnedFrom
<1>7. CASE Role[r] = "best"
  BY <1>1, <1>2, <1>7 DEF EarnedFrom
<1> QED
  BY <1>5, <1>6, <1>7, RuleKinds

\* A grant of another achievement, or a pruning of others, changes nothing.
LEMMA OthersEarn ==
  ASSUME NEW r \in Rules, NEW l \in Seq(Event), SingleHolder(l),
         NEW a \in AllAchievements, NEW g \in Grant, a # r, NEW w, NEW due,
         EarnedFrom(l, w, r, due)
  PROVE  EarnedFrom(Resolve(l, a, g), w, r, due)
<1>1. HoldersIn(Resolve(l, a, g), r) = HoldersIn(l, r)
  BY ResolveHoldersIn
<1>2. \A u : GrantsTo(Resolve(l, a, g), r, u) = GrantsTo(l, r, u)
  BY ResolveRowsOf
<1> QED
  BY <1>1, <1>2, SameRowsEarn

LEMMA PruneEarns ==
  ASSUME NEW r \in Rules, NEW l \in Seq(Event), NEW as, r \notin as, NEW w, NEW due,
         EarnedFrom(l, w, r, due)
  PROVE  EarnedFrom(Pruned(l, as), w, r, due)
<1>1. r \notin as \cup MetaAchievements
  BY FarmerAssumption DEF MetaAchievements
<1>2. HoldersIn(Pruned(l, as), r) = HoldersIn(l, r)
  BY <1>1, PruneHoldersIn
<1>3. \A u : GrantsTo(Pruned(l, as), r, u) = GrantsTo(l, r, u)
  BY <1>1, PruneKeepsGrants, ZenonT(60)
<1> QED
  BY <1>2, <1>3, SameRowsEarn

\* Emitting the output a rule has waiting.
LEMMA EmitEarns ==
  ASSUME NEW r \in Rules, NEW l \in Seq(Event), SingleHolder(l), NEW g \in Grant, NEW due,
         EarnedFrom(l, {g.user}, r, due)
  PROVE  EarnedFrom(Resolve(l, r, g), {}, r, due)
<1> DEFINE new == Resolve(l, r, g)
<1> SUFFICES EarnedFrom(new, {}, r, due)
  OBVIOUS
<1>1. r \in AllAchievements /\ g.user \in Users
  BY RuleKinds DEF Grant
<1>2. /\ Kind(r) \notin GlobalKinds => HoldersIn(new, r) = HoldersIn(l, r) \cup {g.user}
      /\ Kind(r) = "Global" =>
           HoldersIn(new, r) = IF HoldersIn(l, r) # {} THEN HoldersIn(l, r) ELSE {g.user}
      /\ Kind(r) = "GlobalRevocable" => HoldersIn(new, r) = {g.user}
  BY <1>1, ResolveHoldersIn
<1>3. Kind(r) = "PerUserRecurrent" =>
        \A u : GrantsTo(new, r, u) = GrantsTo(l, r, u) + (IF g.user = u THEN 1 ELSE 0)
  BY <1>1, ResolveRowsOf
<1>4. \A u : GrantsTo(l, r, u) \in Nat /\ GrantsTo(new, r, u) \in Nat
  <2>1. new \in Seq(Event)
    BY <1>1, ResolveTyped
  <2> HIDE DEF new
  <2> QED
    BY <2>1, GrantsToTyped
<1> HIDE DEF new
<1>5. CASE Role[r] = "match"
  <2>1. Kind(r) \in Kinds
    BY RuleKinds
  <2>2. CASE Kind(r) = "PerUser"
    BY <1>2, <1>5, <2>2 DEF EarnedFrom, GlobalKinds
  <2>3. CASE Kind(r) = "PerUserRecurrent"
    BY <1>2, <1>5, <2>3 DEF EarnedFrom, GlobalKinds
  <2>4. CASE Kind(r) = "Global"
    BY <1>2, <1>5, <2>4 DEF EarnedFrom
  <2>5. CASE Kind(r) = "GlobalRevocable"
    BY <1>2, <1>5, <2>5 DEF EarnedFrom
  <2> QED
    BY <2>1, <2>2, <2>3, <2>4, <2>5 DEF Kinds
<1>6. CASE Role[r] = "count"
  <2>1. Kind(r) = "PerUserRecurrent"
    BY <1>6, RuleKinds
  <2>2. \A u \in Users : GrantsTo(new, r, u) + (IF u \in {} THEN 1 ELSE 0) =
                           GrantsTo(l, r, u) + (IF u \in {g.user} THEN 1 ELSE 0)
    BY <1>3, <1>4, <2>1
  <2> QED
    BY <1>6, <2>2 DEF EarnedFrom
<1>7. CASE Role[r] = "best"
  <2>1. Kind(r) = "GlobalRevocable"
    BY <1>7, RuleKinds
  <2> QED
    BY <1>2, <1>7, <2>1 DEF EarnedFrom
<1> QED
  BY <1>5, <1>6, <1>7, RuleKinds

\* A commit a rule reacts to: its author gets a match, or passes a milestone.
LEMMA CommitEarns ==
  ASSUME NEW r \in Rules, Role[r] # "best", NEW l \in Seq(Event),
         NEW due \in SUBSET Commits, NEW c \in Commits, c \notin due,
         EarnedFrom(l, {}, r, due), NEW w,
         w = IF \/ Role[r] = "match"
                \/ Cardinality({d \in due : Author[d] = Author[c]}) + 1 \in Milestones
             THEN {Author[c]} ELSE {}
  PROVE  EarnedFrom(l, w, r, due \cup {c})
<1>1. CASE Role[r] = "match"
  <2>1. w = {Author[c]}
    BY <1>1
  <2>2. {Author[d] : d \in due \cup {c}} = {Author[d] : d \in due} \cup {Author[c]}
    OBVIOUS
  <2>3. HoldersIn(l, r) \cup w = (HoldersIn(l, r) \cup {}) \cup {Author[c]}
    BY <2>1
  <2>4. CASE Kind(r) = "PerUser"
    BY <1>1, <2>2, <2>3, <2>4 DEF EarnedFrom
  <2>5. CASE Kind(r) # "PerUser"
    BY <1>1, <2>2, <2>3, <2>5 DEF EarnedFrom
  <2> QED
    BY <2>4, <2>5
<1>2. CASE Role[r] = "count"
  <2> DEFINE N(u)   == Cardinality({d \in due : Author[d] = u})
             New(u) == Cardinality({d \in due \cup {c} : Author[d] = u})
             M(n)   == Cardinality({m \in Milestones : m <= n})
  <2>1. \A u \in Users : GrantsTo(l, r, u) + (IF u \in {} THEN 1 ELSE 0) = M(N(u))
    BY <1>2 DEF EarnedFrom
  <2>2. \A u : N(u) \in Nat /\ New(u) = N(u) + (IF Author[c] = u THEN 1 ELSE 0)
    BY OneMoreCommit
  <2>3. \A n \in Nat : M(n) \in Nat /\ M(n + 1) = M(n) + (IF n + 1 \in Milestones THEN 1 ELSE 0)
    BY OneMoreMilestone
  <2>4. \A u : GrantsTo(l, r, u) \in Nat
    BY GrantsToTyped
  <2>5. \A u : u \in w <=> u = Author[c] /\ N(u) + 1 \in Milestones
    BY <1>2
  <2> HIDE DEF N, New, M
  <2>6. ASSUME NEW u \in Users
        PROVE  GrantsTo(l, r, u) + (IF u \in w THEN 1 ELSE 0) = M(New(u))
    <3>1. GrantsTo(l, r, u) = M(N(u))
      BY <2>1, <2>4
    <3>2. CASE u = Author[c]
      <4>1. New(u) = N(u) + 1 /\ N(u) \in Nat
        BY <2>2, <3>2
      <4> QED
        BY <2>3, <2>5, <3>1, <3>2, <4>1
    <3>3. CASE u # Author[c]
      <4>1. New(u) = N(u) /\ N(u) \in Nat /\ u \notin w
        BY <2>2, <2>5, <3>3
      <4> QED
        BY <2>4, <3>1, <4>1
    <3> QED
      BY <3>2, <3>3
  <2> QED
    BY <1>2, <2>6 DEF EarnedFrom, M, New
<1> QED
  BY <1>1, <1>2, RuleKinds

\* The candidate of a "best" rule, over the record its file holds.
LEMMA CandidateEarns ==
  ASSUME NEW r \in Rules, Role[r] = "best", NEW l,
         NEW due \in SUBSET Commits, NEW old \in SUBSET due,
         EarnedFrom(l, {}, r, old), NEW cs,
         \/ cs = {c \in Best(due) : c \notin Best(old)}
         \/ cs = Best(due) /\ old = {}
  PROVE  EarnedFrom(l, {Author[c] : c \in cs}, r, due)
<1>1. HoldersIn(l, r) = {Author[c] : c \in Best(old)}
  BY DEF EarnedFrom
<1>2. CASE cs = {}
  <2>1. Best(due) = Best(old)
    <3>1. Best(due) \subseteq Best(old)
      BY <1>2, BestProperties
    <3>2. ASSUME NEW c \in Best(old) PROVE c \in Best(due)
      <4>1. due # {} /\ Best(old) \subseteq old /\ old \in SUBSET Commits
        BY BestProperties
      <4>2. PICK d \in Best(due) : TRUE
        BY <4>1, BestProperties
      <4>3. d = c
        BY <3>1, <4>1, <4>2, BestProperties
      <4> QED
        BY <4>2, <4>3
    <3> QED
      BY <3>1, <3>2
  <2>2. {Author[c] : c \in cs} = {}
    BY <1>2
  <2> QED
    BY <1>1, <2>1, <2>2 DEF EarnedFrom
<1>3. CASE cs # {}
  <2>1. cs \subseteq Best(due)
    OBVIOUS
  <2>2. cs = Best(due)
    <3>1. \A c, d \in Best(due) : c = d
      BY BestProperties
    <3> QED
      BY <1>3, <2>1, <3>1
  <2>3. {Author[c] : c \in cs} # {}
    BY <1>3
  <2> QED
    BY <2>2, <2>3 DEF EarnedFrom
<1> QED
  BY <1>2, <1>3

\* One more commit counted.
LEMMA OnceMore ==
  ASSUME NEW S \in SUBSET Commits, NEW c \in Commits, c \notin S
  PROVE  [Once(S) EXCEPT ![c] = @ + 1] = Once(S \cup {c})
<1> DEFINE more == [Once(S) EXCEPT ![c] = @ + 1]
<1>1. more = [d \in Commits |-> IF d = c THEN Once(S)[c] + 1 ELSE Once(S)[d]]
  BY DEF Once
<1>2. Once(S)[c] + 1 = 1 /\ \A d \in Commits : Once(S)[d] = IF d \in S THEN 1 ELSE 0
  BY DEF Once
<1>3. \A d \in Commits : more[d] = IF d \in S \cup {c} THEN 1 ELSE 0
  <2> HIDE DEF more
  <2> QED
    BY <1>1, <1>2
<1> QED
  BY <1>1, <1>3 DEF Once

-----------------------------------------------------------------------------
(***************************************************************************)
(* Between runs: the world moves, and a run is prepared.                   *)
(***************************************************************************)

\* What the checkpoint says of a rule that was not retired.
Stands(r) ==
  /\ CacheStands(cache[r], r, Due(r, Base))
  /\ EarnedFrom(file, {}, r, Due(r, Base))

\* When a process has ended, only the files matter.
LEMMA IdleSound ==
  ASSUME pc' = "idle", FilesParse',
         \A r \in Rules : HasProcessed(r)' => Stands(r)'
  PROVE  Sound'
<1>1. WordKept'
  BY DEF WordKept, Stands, Due, Base, Retired, InRun
<1>2. OthersFresh' /\ WalkConsistent' /\ OutputsWait' /\ RulesConsistent' /\ SavingConsistent'
  BY DEF OthersFresh, WalkConsistent, OutputsWait, RulesConsistent, SavingConsistent, InRun
<1> QED
  BY <1>1, <1>2 DEF Sound

\* And before one is open.
LEMMA ClosedStands ==
  ASSUME Sound, pc \in {"idle", "wiping", "loading"}
  PROVE  \A r \in Rules : HasProcessed(r) => Stands(r)
BY DEF Sound, WordKept, Stands, Due, Base, Retired, InRun

\* The rules a checkpoint names, and at which version.
LEMMA CheckpointRules ==
  ASSUME TypeOK, FilesParse
  PROVE  /\ ckpt \in Checkpoints
         /\ \A p \in ckpt.rules : p = << p[1], p[2] >> /\ p[1] \in Rules /\ p[2] \in Versions
         /\ \A r : HasProcessed(r) => ckpt.commit # None /\ ckpt.commit \in Commits
         /\ \A r : HasProcessed(r) => r \notin Invalidated
         /\ \A r \in enabled : ~HasProcessed(r) /\ r \notin Invalidated =>
                                 \A p \in ckpt.rules : p[1] # r
<1>1. ckpt \in Checkpoints
  BY DEF TypeOK, FilesParse
<1>2. ckpt.rules \in SUBSET (Rules \X Versions) /\ ckpt.commit \in Commits \cup {None}
  BY <1>1 DEF Checkpoints
<1>3. \A p \in ckpt.rules : p = << p[1], p[2] >> /\ p[1] \in Rules /\ p[2] \in Versions
  BY <1>2
<1>4. \A r : HasProcessed(r) => ckpt.commit # None
  BY DEF HasProcessed, FilesParse
<1>5. ASSUME NEW r, HasProcessed(r), r \in Invalidated PROVE FALSE
  <2>1. PICK p \in ckpt.rules : p[1] = r /\ p[2] # version[r]
    BY <1>5 DEF Invalidated
  <2>2. << r, version[r] >> \in ckpt.rules
    BY <1>5 DEF HasProcessed
  <2>3. p = << r, version[r] >>
    BY <2>1, <2>2 DEF FilesParse
  <2> QED
    BY <2>1, <2>3
<1>6. ASSUME NEW r \in enabled, ~HasProcessed(r), r \notin Invalidated,
             NEW p \in ckpt.rules, p[1] = r
      PROVE  FALSE
  <2>1. p[2] = version[r]
    BY <1>6 DEF Invalidated
  <2>2. p = << r, version[r] >>
    BY <1>3, <1>6, <2>1
  <2> QED
    BY <1>6, <2>2 DEF HasProcessed
<1> QED
  BY <1>1, <1>2, <1>3, <1>4, <1>5, <1>6

LEMMA WorldSound ==
  ASSUME TypeOK, Consistent, World, ~spoiled'
  PROVE  Sound'
<1>1. ASSUME Reset PROVE Sound'
  <2>1. /\ pc' = "idle" /\ ckpt' = NoCheckpoint
        /\ cache' = [r \in Rules |-> None] /\ file' = << >> /\ version' = version
    BY <1>1 DEF Reset, Idle, run, world
  <2>2. /\ NoCheckpoint # Torn /\ << >> # Unreadable /\ None # Torn
        /\ NoCheckpoint.commit = None /\ NoCheckpoint.rules = {}
    <3>1. NoCheckpoint \in Checkpoints /\ << >> \in Seq(Event)
      BY DEF NoCheckpoint, Checkpoints
    <3> QED
      BY <3>1, FileAssumption, UnreadableAssumption DEF NoCheckpoint
  <2>3. FilesParse'
    BY <2>1, <2>2 DEF FilesParse
  <2>4. \A r \in Rules : ~HasProcessed(r)'
    BY <2>1, <2>2 DEF HasProcessed
  <2> QED
    BY <2>1, <2>3, <2>4, IdleSound
<1>2. ASSUME ~Reset PROVE Sound'
  <2>1. /\ pc = "idle" /\ pc' = "idle"
        /\ ckpt' = ckpt /\ cache' = cache /\ file' = file
    BY <1>2 DEF World, Push, Rewrite, Enable, Disable, Upgrade, Idle, disk, run
  <2>2. ~spoiled
    BY <1>2 DEF World, Push, Rewrite, Enable, Disable, Upgrade
  <2>3. Sound /\ \A r \in Rules : HasProcessed(r) => Stands(r)
    BY <2>1, <2>2, ClosedStands DEF Consistent
  <2>4. FilesParse
    BY <2>3 DEF Sound
  <2>5. ckpt.commit # None => ckpt.commit \in Reach[head']
    <3>1. ASSUME NEW h \in Commits, Push(h) PROVE Reach[head] \subseteq Reach[head']
      BY <3>1, ReachTransitive DEF Push
    <3>2. ASSUME NEW h \in Commits, Rewrite(h) PROVE ckpt.commit \in Reach[head'] \cup {None}
      BY <2>4, <3>2 DEF Rewrite, Orphaned, FilesParse
    <3> QED
      BY <1>2, <2>4, <3>1, <3>2 DEF World, Enable, Disable, Upgrade, FilesParse
  <2>6. \A p \in ckpt.rules : p[2] <= version'[p[1]] /\ p[2] <= version[p[1]]
    <3>1. \A p \in ckpt.rules : p[1] \in Rules /\ p[2] \in Nat /\ p[2] <= version[p[1]]
      BY <2>4, CheckpointRules, RoleAssumption DEF FilesParse
    <3>2. \A r \in Rules : version[r] \in Nat
      BY RoleAssumption DEF TypeOK
    <3>3. ASSUME NEW r \in Rules, Upgrade(r), NEW p \in ckpt.rules PROVE p[2] <= version'[p[1]]
      <4>1. PICK v \in Versions : v > version[r] /\ version' = [version EXCEPT ![r] = v]
        BY <3>3 DEF Upgrade
      <4>2. v \in Nat /\ version \in [Rules -> Versions]
        BY RoleAssumption DEF TypeOK
      <4>3. CASE p[1] = r
        BY <3>1, <3>2, <4>1, <4>2, <4>3
      <4>4. CASE p[1] # r
        BY <3>1, <4>1, <4>2, <4>4
      <4> QED
        BY <4>3, <4>4
    <3>4. (\A r \in Rules : ~Upgrade(r)) => version' = version
      BY <1>2 DEF World, Push, Rewrite, Enable, Disable
    <3> QED
      BY <3>1, <3>3, <3>4
  <2>7. FilesParse'
    BY <2>1, <2>4, <2>5, <2>6 DEF FilesParse
  <2>8. \A r \in Rules : HasProcessed(r)' => version'[r] = version[r]
    <3>1. ASSUME NEW q \in Rules, Upgrade(q), NEW r \in Rules, HasProcessed(r)'
          PROVE  version'[r] = version[r]
      <4>1. PICK v \in Versions : v > version[q] /\ version' = [version EXCEPT ![q] = v]
        BY <3>1 DEF Upgrade
      <4>2. v \in Nat /\ version[q] \in Nat /\ version \in [Rules -> Versions]
        BY RoleAssumption DEF TypeOK
      <4>3. CASE r = q
        <5>1. version'[r] = v /\ << r, v >> \in ckpt.rules
          BY <2>1, <3>1, <4>1, <4>2, <4>3 DEF HasProcessed
        <5>2. v <= version[q]
          BY <2>6, <4>3, <5>1
        <5> QED
          BY <4>1, <4>2, <5>2
      <4>4. CASE r # q
        BY <4>1, <4>2, <4>4
      <4> QED
        BY <4>3, <4>4
    <3>2. (\A r \in Rules : ~Upgrade(r)) => version' = version
      BY <1>2 DEF World, Push, Rewrite, Enable, Disable
    <3> QED
      BY <3>1, <3>2
  <2>9. ASSUME NEW r \in Rules, HasProcessed(r)' PROVE Stands(r)'
    <3>1. version'[r] = version[r]
      BY <2>8, <2>9
    <3>2. HasProcessed(r)
      BY <2>1, <2>9, <3>1 DEF HasProcessed
    <3>3. Stands(r)
      BY <2>3, <3>2
    <3> QED
      BY <2>1, <3>1, <3>3 DEF Stands, Due, Base
  <2> QED
    BY <2>1, <2>3, <2>7, <2>9, IdleSound
<1> QED
  BY <1>1, <1>2

\* Everything but OthersFresh is as between runs while the log is closed.
LEMMA ClosedSound ==
  ASSUME pc' \in {"wiping", "loading"}, FilesParse', OthersFresh',
         \A r \in Rules : HasProcessed(r)' => Stands(r)'
  PROVE  Sound'
<1>1. WordKept'
  BY DEF WordKept, Stands, Due, Base, Retired, InRun
<1>2. WalkConsistent' /\ OutputsWait' /\ RulesConsistent' /\ SavingConsistent'
  BY DEF WalkConsistent, OutputsWait, RulesConsistent, SavingConsistent, InRun
<1> QED
  BY <1>1, <1>2 DEF Sound

LEMMA StartSound ==
  ASSUME TypeOK, Sound, NEW depth \in Depths, Start(depth), ~spoiled'
  PROVE  Sound'
<1>1. /\ pc = "idle" /\ pc' = (IF Invalidated = {} THEN "loading" ELSE "wiping")
      /\ todo' = Invalidated
      /\ UNCHANGED << head, enabled, version, ckpt, cache, file >>
      /\ \A r \in enabled : ~Leftover(r)
  BY DEF Start, Idle, world, disk
<1>2. /\ \A r \in Rules : HasProcessed(r)' <=> HasProcessed(r)
      /\ \A r \in Rules : Stands(r)' <=> Stands(r)
      /\ Invalidated' = Invalidated
  BY <1>1 DEF HasProcessed, Stands, Due, Base, Invalidated
<1>3. FilesParse /\ \A r \in Rules : HasProcessed(r) => Stands(r)
  BY <1>1, ClosedStands DEF Sound
<1>4. FilesParse'
  BY <1>1, <1>3 DEF FilesParse
<1>5. \A r \in enabled : ~HasProcessed(r) => r \in Invalidated \/ Fresh(r)
  <2> SUFFICES ASSUME NEW r \in enabled, ~HasProcessed(r), r \notin Invalidated
               PROVE  Fresh(r)
    OBVIOUS
  <2>1. \A p \in ckpt.rules : p[1] # r
    BY <1>3, CheckpointRules
  <2> QED
    BY <1>1, <2>1 DEF Leftover, Fresh, NoRows
<1>6. OthersFresh'
  <2>1. enabled \subseteq Rules
    BY DEF TypeOK
  <2>2. \A r \in enabled : Fresh(r)' <=> Fresh(r)
    BY <1>1 DEF Fresh
  <2>3. CASE Invalidated = {}
    BY <1>1, <1>2, <1>5, <2>1, <2>2, <2>3 DEF OthersFresh, InRun
  <2>4. CASE Invalidated # {}
    BY <1>1, <1>2, <1>5, <2>1, <2>2, <2>4 DEF OthersFresh, InRun
  <2> QED
    BY <2>3, <2>4
<1> QED
  BY <1>1, <1>2, <1>3, <1>4, <1>6, ClosedSound

LEMMA WipeCacheSound ==
  ASSUME TypeOK, Sound, NEW q \in Rules, WipeCache(q)
  PROVE  Sound'
<1>1. /\ pc = "wiping" /\ pc' = "wiping" /\ q \in todo /\ todo' = todo \ {q}
      /\ cache' = [cache EXCEPT ![q] = None]
      /\ UNCHANGED << head, enabled, version, ckpt, file >>
  BY LeastProperties DEF WipeCache, world, TypeOK
<1>2. FilesParse /\ OthersFresh /\ \A r \in Rules : HasProcessed(r) => Stands(r)
  BY <1>1, ClosedStands DEF Sound
<1>3. q \in Invalidated /\ ~HasProcessed(q)
  BY <1>1, <1>2, CheckpointRules DEF OthersFresh
<1>4. \A r \in Rules : cache'[r] = IF r = q THEN None ELSE cache[r]
  BY <1>1 DEF TypeOK
<1>5. /\ \A r \in Rules : HasProcessed(r)' <=> HasProcessed(r)
      /\ \A r \in Rules \ {q} : Stands(r)' <=> Stands(r)
      /\ Invalidated' = Invalidated
  BY <1>1, <1>4 DEF HasProcessed, Stands, Due, Base, Invalidated
<1>6. FilesParse'
  BY <1>1, <1>2, <1>4, FileAssumption DEF FilesParse
<1>7. OthersFresh'
  <2>1. enabled \subseteq Rules
    BY DEF TypeOK
  <2>2. \A r \in enabled : Fresh(r) => Fresh(r)'
    BY <1>1, <1>4, <2>1 DEF Fresh
  <2>3. ASSUME NEW r \in enabled, ~HasProcessed(r)
        PROVE  \/ r \in Invalidated /\ (r \in todo' \/ cache'[r] = None)
               \/ Fresh(r)'
    BY <1>1, <1>2, <1>4, <2>1, <2>2, <2>3 DEF OthersFresh
  <2> QED
    BY <1>1, <1>2, <1>5, <2>1, <2>3 DEF OthersFresh, InRun
<1> QED
  BY <1>1, <1>2, <1>3, <1>5, <1>6, <1>7, ClosedSound

LEMMA PruneLogSound ==
  ASSUME TypeOK, Sound, PruneLog
  PROVE  Sound'
<1>1. /\ pc = "wiping" /\ pc' = "loading" /\ todo = {}
      /\ file # Unreadable /\ file' = Pruned(file, Invalidated)
      /\ UNCHANGED << head, enabled, version, ckpt, cache >>
  BY DEF PruneLog, world
<1>2. FilesParse /\ OthersFresh /\ \A r \in Rules : HasProcessed(r) => Stands(r)
  BY <1>1, ClosedStands DEF Sound
<1>3. file \in Seq(Event) /\ file' \in Seq(Event)
  <2>1. file \in Seq(Event)
    BY <1>1 DEF TypeOK
  <2> QED
    BY <1>1, <2>1, PrunedProperties
<1>4. \A r \in Rules : HasProcessed(r)' <=> HasProcessed(r)
  BY <1>1 DEF HasProcessed
<1>5. FilesParse'
  BY <1>1, <1>2, <1>3, UnreadableAssumption DEF FilesParse
<1>6. ASSUME NEW r \in Rules, HasProcessed(r) PROVE Stands(r)'
  <2>1. Stands(r) /\ r \notin Invalidated
    BY <1>2, <1>6, CheckpointRules
  <2>2. EarnedFrom(file', {}, r, Due(r, Base))
    BY <1>1, <1>3, <2>1, PruneEarns DEF Stands
  <2> QED
    BY <1>1, <2>1, <2>2 DEF Stands, Due, Base
<1>7. ASSUME NEW r \in enabled, ~HasProcessed(r) PROVE Fresh(r)'
  <2>1. cache[r] = None /\ (r \in Invalidated \/ NoRows(file, r))
    BY <1>1, <1>2, <1>7 DEF OthersFresh, Fresh
  <2>2. NoRows(file', r)
    BY <1>1, <1>3, <2>1, PruneDropsRows
  <2> QED
    BY <1>1, <2>1, <2>2 DEF Fresh
<1>8. OthersFresh'
  <2>1. enabled \subseteq Rules
    BY DEF TypeOK
  <2> QED
    BY <1>1, <1>4, <1>7, <2>1 DEF OthersFresh, InRun
<1> QED
  BY <1>1, <1>4, <1>5, <1>6, <1>8, ClosedSound

\* The files parse, so no run fails to load them.
LEMMA LoadSucceeds ==
  ASSUME TypeOK, Sound, LoadFails
  PROVE  FALSE
BY DEF Sound, FilesParse, LoadFails, TypeOK

LEMMA LoadSound ==
  ASSUME TypeOK, RunShape, Sound, Load
  PROVE  Sound'
<1>1. /\ pc = "loading" /\ pc' = "walking" /\ file # Unreadable
      /\ log' = file /\ active' = enabled
      /\ mem' = [r \in Rules |-> IF r \in enabled /\ cache[r] # None THEN cache[r]
                                                                     ELSE EmptyCache]
      /\ frontier' = {head} /\ seen' = {} /\ first' = None /\ pending' = {}
      /\ UNCHANGED << head, enabled, version, ckpt, cache, file >>
  BY DEF Load, world, disk, RunShape
<1>2. FilesParse /\ OthersFresh /\ \A r \in Rules : HasProcessed(r) => Stands(r)
  BY <1>1, ClosedStands DEF Sound
<1>3. /\ enabled \subseteq Rules /\ head \in Commits /\ file \in Seq(Event)
      /\ Base \subseteq Commits
  BY <1>1, <1>2, CheckpointRules, ReachProperties DEF TypeOK, Base, Checkpoints
<1>4. /\ \A r \in Rules : HasProcessed(r)' <=> HasProcessed(r)
      /\ \A r \in Rules : Stands(r)' <=> Stands(r)
      /\ \A r \in Rules : Fresh(r)' <=> Fresh(r)
      /\ Base' = Base /\ Retired' = {}
  BY <1>1 DEF HasProcessed, Stands, Due, Base, Fresh, Retired
<1>5. FilesParse'
  BY <1>1, <1>2 DEF FilesParse
<1>6. WordKept'
  BY <1>1, <1>2, <1>4 DEF WordKept, Stands, Due
<1>7. OthersFresh'
  BY <1>1, <1>2, <1>3, <1>4 DEF OthersFresh
<1>8. WalkConsistent'
  <2>1. head \in Reach[head]
    BY <1>3, ReachProperties
  <2>2. WalkDown'
    BY <1>1, <2>1 DEF WalkDown
  <2>3. WhoRuns'
    BY <1>1 DEF WhoRuns
  <2> QED
    BY <2>2, <2>3 DEF WalkConsistent
<1>9. OutputsWait' /\ SavingConsistent'
  BY <1>1 DEF OutputsWait, SavingConsistent
<1>10. RulesConsistent'
  <2> DEFINE Done(r) == IF HasProcessed(r) THEN Base ELSE {}
  <2>1. ASSUME NEW r \in enabled
        PROVE  /\ CacheStands(cache[r], r, Due(r, Done(r)))
               /\ EarnedFrom(file, {}, r, Due(r, Done(r)))
    <3>1. CASE HasProcessed(r)
      BY <1>2, <1>3, <3>1 DEF Stands
    <3>2. CASE ~HasProcessed(r)
      <4>1. cache[r] = None /\ NoRows(file, r)
        BY <1>1, <1>2, <3>2 DEF OthersFresh, Fresh
      <4>2. Due(r, Done(r)) = {}
        BY <3>2 DEF Due
      <4>3. EarnedFrom(file, {}, r, {})
        BY <1>3, <4>1, NothingEarned
      <4> QED
        BY <4>1, <4>2, <4>3 DEF CacheStands
    <3> QED
      BY <3>1, <3>2
  <2>2. \A r \in enabled : /\ Covered(r)' = Done(r) /\ Goal(r)' = Done(r)
                           /\ Waiting(r)' = {}
    BY <1>1, <1>3, <1>4 DEF Covered, Goal, Waiting, Finalized
  <2> HIDE DEF Done
  <2>3. ASSUME NEW r \in enabled
        PROVE  mem'[r] = Once(IF r \in Cached THEN Due(r, Done(r)) ELSE {})
    <3>1. EmptyCache = Once({})
      BY DEF EmptyCache, Once
    <3>2. mem'[r] = IF cache[r] # None THEN cache[r] ELSE EmptyCache
      BY <1>1, <1>3
    <3>3. CASE r \in Cached
      <4>1. Due(r, Done(r)) \in SUBSET Commits
        BY <1>3 DEF Due, Done
      <4>2. Once(Due(r, Done(r))) # None
        BY <4>1, RecordOfOnce, FileAssumption
      <4> QED
        BY <2>1, <3>1, <3>2, <3>3, <4>2 DEF CacheStands
    <3>4. CASE r \notin Cached
      BY <1>2, <1>3, <3>1, <3>2, <3>4 DEF FilesParse
    <3> QED
      BY <3>3, <3>4
  <2>4. ASSUME NEW r \in enabled
        PROVE  /\ Due(r, Covered(r))' = Due(r, Done(r))
               /\ Due(r, Goal(r))' = Due(r, Done(r))
    BY <1>1, <2>2 DEF Due
  <2> QED
    BY <1>1, <2>1, <2>2, <2>3, <2>4 DEF RulesConsistent
<1> QED
  BY <1>5, <1>6, <1>7, <1>8, <1>9, <1>10 DEF Sound

-----------------------------------------------------------------------------
(***************************************************************************)
(* The walk.                                                               *)
(***************************************************************************)

\* While a run writes no file and retires no rule, the files stand as they did.
LEMMA FilesUntouched ==
  ASSUME Sound, InRun, InRun',
         UNCHANGED << head, enabled, version, ckpt, cache, file, active >>
  PROVE  /\ FilesParse' /\ WordKept' /\ OthersFresh' /\ SavingConsistent'
         /\ \A r : HasProcessed(r)' <=> HasProcessed(r)
         /\ Base' = Base
<1>1. (\A r : HasProcessed(r)' <=> HasProcessed(r)) /\ Base' = Base /\ Retired' = Retired
  BY DEF HasProcessed, Base, Retired
<1>2. FilesParse'
  BY DEF Sound, FilesParse
<1>3. pc # "caches" /\ pc' # "caches" /\ pc # "wiping" /\ pc' # "wiping"
  BY DEF InRun
<1>4. WordKept'
  BY <1>1, <1>3 DEF Sound, WordKept, Due
<1>5. OthersFresh'
  BY <1>1, <1>3 DEF Sound, OthersFresh, Fresh
<1>6. SavingConsistent'
  BY <1>3 DEF SavingConsistent
<1> QED
  BY <1>1, <1>2, <1>4, <1>5, <1>6

\* Commits a rule covered are commits.
LEMMA CoveredTyped ==
  ASSUME TypeOK, FilesParse
  PROVE  /\ Base \subseteq Commits /\ Reach[head] \subseteq Commits
         /\ \A r : Covered(r) \subseteq Commits /\ Goal(r) \subseteq Commits
         /\ \A d \in Base : Parents[d] \subseteq Base
         /\ Base \subseteq Reach[head]
<1>1. ckpt.commit # None => ckpt.commit \in Reach[head] /\ ckpt.commit \in Commits
  BY CheckpointRules DEF FilesParse, Checkpoints
<1>2. head \in Commits /\ seen \subseteq Commits
  BY DEF TypeOK
<1>3. Reach[head] \subseteq Commits
  BY <1>2, ReachProperties
<1>4. /\ Base \subseteq Commits /\ Base \subseteq Reach[head]
      /\ \A d \in Base : Parents[d] \subseteq Base
  BY <1>1, <1>2, ReachProperties, ReachTransitive DEF Base
<1>5. \A r : Covered(r) \subseteq Commits
  BY <1>2, <1>3, <1>4 DEF Covered
<1> QED
  BY <1>3, <1>4, <1>5 DEF Goal

LEMMA WalkOn ==
  ASSUME TypeOK, WalkDown, NEW c \in frontier, ProcessCommit(c), UNCHANGED head
  PROVE  WalkDown' /\ c \notin seen /\ first' = head
<1>1. c \in Commits /\ c \in Reach[head] /\ c \notin seen /\ head \in Commits
  BY DEF TypeOK, WalkDown
<1>2. Parents[c] \subseteq Reach[head] /\ c \notin Parents[c]
  BY <1>1, ReachProperties, GraphAssumption
<1>3. seen' = seen \cup {c} /\ frontier' = (frontier \ {c}) \cup (Parents[c] \ seen)
  BY DEF ProcessCommit
<1>4. first' = head
  <2>1. head # None /\ (first = None => c = head)
    BY <1>1, GraphAssumption DEF WalkDown
  <2> QED
    BY <2>1 DEF ProcessCommit, NoteFirst, WalkDown
<1>5. head \in seen' \cup frontier' /\ seen' \cup frontier' \subseteq Reach[head]
  BY <1>1, <1>2, <1>3 DEF WalkDown
<1>6. \A d \in seen' : Parents[d] \subseteq seen' \cup frontier'
  BY <1>3 DEF WalkDown
<1>7. frontier' \cap seen' = {} /\ seen' # {}
  BY <1>2, <1>3 DEF WalkDown
<1> QED
  BY <1>1, <1>4, <1>5, <1>6, <1>7 DEF WalkDown

\* A running rule absorbs a commit it has not covered.
LEMMA RuleAbsorbs ==
  ASSUME TypeOK, FilesParse, NEW c \in Commits, ProcessCommit(c), pending = {},
         UNCHANGED << head, enabled, version, ckpt, active, log >>, pc # "evaluating",
         pc # "checkpoint", NEW r \in active, c \notin seen, Apart(r)',
         mem[r] = Once(IF r \in Cached THEN Due(r, Covered(r)) ELSE {}),
         EarnedFrom(log, Waiting(r), r, Due(r, Goal(r)))
  PROVE  /\ mem'[r] = Once(IF r \in Cached THEN Due(r, Covered(r))' ELSE {})
         /\ EarnedFrom(log', Waiting(r)', r, Due(r, Goal(r))')
<1> DEFINE old  == Covered(r)
           due  == Due(r, Covered(r))
           acts == c \in Matches[r][version[r]]
<1>1. /\ r \in Rules /\ log \in Seq(Event) /\ log' = log
      /\ (HasProcessed(r)' <=> HasProcessed(r)) /\ Base' = Base
      /\ seen' = seen \cup {c} /\ r \in active'
  BY DEF TypeOK, ProcessCommit, HasProcessed, Base
<1>2. c \notin Covered(r)
  <2>1. HasProcessed(r) => c \notin Base
    BY <1>1 DEF Apart
  <2> QED
    BY <2>1 DEF Covered
<1>3. Covered(r)' = Covered(r) \cup {c}
  BY <1>1 DEF Covered
<1>4. /\ due \in SUBSET Commits /\ c \notin due
      /\ Due(r, Covered(r))' = IF acts THEN due \cup {c} ELSE due
  <2>1. due \in SUBSET Commits
    BY CoveredTyped DEF Due
  <2> QED
    BY <1>2, <1>3, <2>1 DEF Due
<1>5. mem'[r] = IF r \in Cached /\ acts THEN [mem[r] EXCEPT ![c] = @ + 1] ELSE mem[r]
  BY <1>1 DEF ProcessCommit
<1>6. mem'[r] = Once(IF r \in Cached THEN Due(r, Covered(r))' ELSE {})
  <2> HIDE DEF due, acts
  <2>1. CASE r \in Cached /\ acts
    <3>1. mem[r] = Once(due)
      BY <2>1 DEF due
    <3>2. [Once(due) EXCEPT ![c] = @ + 1] = Once(due \cup {c})
      BY <1>4, OnceMore
    <3> QED
      BY <1>4, <1>5, <2>1, <3>1, <3>2
  <2>2. CASE ~(r \in Cached /\ acts)
    <3>1. mem'[r] = Once(IF r \in Cached THEN due ELSE {})
      BY <1>5, <2>2 DEF due
    <3> QED
      BY <1>4, <2>2, <3>1
  <2> QED
    BY <2>1, <2>2
<1>7. Waiting(r) = {}
  BY DEF Waiting
<1>8. Waiting(r)' = IF GrantsAt(r, c) THEN {Author[c]} ELSE {}
  <2>1. pending' = {[rule |-> q, grant |-> GrantAt(c)] : q \in {q \in active : GrantsAt(q, c)}}
    BY DEF ProcessCommit
  <2>2. \A o \in pending' : o.rule = r => GrantsAt(r, c) /\ o.grant.user = Author[c]
    BY <2>1 DEF GrantAt
  <2>3. GrantsAt(r, c) => \E o \in pending' : o.rule = r
    <3>1. GrantsAt(r, c) => [rule |-> r, grant |-> GrantAt(c)] \in pending'
      BY <2>1
    <3>2. [rule |-> r, grant |-> GrantAt(c)].rule = r
      OBVIOUS
    <3> QED
      BY <3>1, <3>2
  <2>4. CASE GrantsAt(r, c)
    BY <2>2, <2>3, <2>4 DEF Waiting
  <2>5. CASE ~GrantsAt(r, c)
    BY <2>2, <2>5 DEF Waiting
  <2> QED
    BY <2>4, <2>5
<1>9. ~Finalized(r) /\ ~Finalized(r)'
  BY <1>1 DEF Finalized, ProcessCommit
<1>10. CASE Role[r] = "best"
  <2>1. Goal(r)' = Goal(r)
    BY <1>1, <1>9, <1>10 DEF Goal
  <2>2. Due(r, Goal(r))' = Due(r, Goal(r))
    BY <2>1 DEF Due
  <2>3. ~GrantsAt(r, c)
    BY <1>10 DEF GrantsAt
  <2>4. Waiting(r)' = Waiting(r)
    BY <1>7, <1>8, <2>3
  <2> QED
    BY <1>1, <1>6, <2>2, <2>4
<1>11. CASE Role[r] # "best"
  <2>1. Goal(r) = Covered(r) /\ Goal(r)' = Covered(r)'
    BY <1>11 DEF Goal
  <2>2. EarnedFrom(log, {}, r, due)
    BY <1>7, <2>1
  <2>3. Due(r, Goal(r))' = Due(r, Covered(r))'
    BY <2>1 DEF Due
  <2>4. CASE ~acts
    <3>1. ~GrantsAt(r, c)
      BY <2>4 DEF GrantsAt
    <3> HIDE DEF due, acts
    <3> QED
      BY <1>1, <1>4, <1>6, <1>8, <2>2, <2>3, <2>4, <3>1
  <2>5. CASE acts
    <3>1. GrantsAt(r, c) <=>
            \/ Role[r] = "match"
            \/ Cardinality({d \in due : Author[d] = Author[c]}) + 1 \in Milestones
      <4>1. CASE Role[r] = "match"
        BY <2>5, <4>1 DEF GrantsAt
      <4>2. CASE Role[r] = "count"
        <5>1. mem[r] = Once(due)
          BY <1>1, <4>2 DEF Cached
        <5> HIDE DEF due
        <5>2. CountIn(mem[r], Author[c]) = Cardinality({d \in due : Author[d] = Author[c]})
          BY <1>4, <5>1, CountInOnce
        <5> QED
          BY <2>5, <4>2, <5>2 DEF GrantsAt
      <4> QED
        BY <1>1, <1>11, <4>1, <4>2, RuleKinds
    <3> HIDE DEF due, acts
    <3>2. EarnedFrom(log, Waiting(r)', r, due \cup {c})
      BY <1>1, <1>4, <1>8, <1>11, <2>2, <3>1, CommitEarns
    <3> QED
      BY <1>1, <1>4, <1>6, <2>3, <2>5, <3>2
  <2> QED
    BY <2>4, <2>5
<1> QED
  BY <1>10, <1>11

\* A visit: of any other commit, or of the checkpoint commit by rules that have not
\* processed it.
LEMMA ProcessCommitSound ==
  ASSUME TypeOK, Sound, NEW c \in frontier, ProcessCommit(c), pending = {},
         pc \in {"walking", "retiring"},
         UNCHANGED << head, enabled, version, ckpt, cache, file, active, log >>,
         \/ pc = "walking" /\ c # ckpt.commit
         \/ c = ckpt.commit /\ \A r \in active : ~HasProcessed(r)
  PROVE  Sound'
<1>1. InRun /\ InRun' /\ pc' = "walking"
  BY DEF InRun, ProcessCommit
<1>2. /\ FilesParse' /\ WordKept' /\ OthersFresh' /\ SavingConsistent'
      /\ \A r : HasProcessed(r)' <=> HasProcessed(r)
      /\ Base' = Base
  BY <1>1, FilesUntouched
<1>3. FilesParse /\ WalkDown /\ WhoRuns /\ RulesConsistent
  BY <1>1 DEF Sound, WalkConsistent
<1>4. WalkDown' /\ c \notin seen /\ seen' = seen \cup {c} /\ c \in Commits
  BY <1>3, WalkOn DEF ProcessCommit, TypeOK
<1>5. WhoRuns'
  BY <1>1, <1>2, <1>3, <1>4 DEF WhoRuns
<1>6. pending' = {[rule |-> r, grant |-> GrantAt(c)] : r \in {r \in active : GrantsAt(r, c)}}
  BY DEF ProcessCommit
<1>7. OutputsWait'
  <2>1. \A o \in pending' : /\ o.rule \in active /\ GrantsAt(o.rule, c)
                            /\ o = [rule |-> o.rule, grant |-> GrantAt(c)]
    BY <1>6
  <2>2. \A r \in Rules : GrantsAt(r, c) => Role[r] # "best"
    BY DEF GrantsAt
  <2>3. active \subseteq enabled /\ enabled \subseteq Rules /\ enabled' = enabled
    BY <1>3 DEF WhoRuns, TypeOK
  <2> QED
    BY <1>1, <2>1, <2>2, <2>3 DEF OutputsWait
<1>8. RulesConsistent'
  <2>1. \A r \in active : Apart(r)' => Apart(r)
    BY <1>2, <1>4 DEF Apart
  <2>2. ASSUME NEW r \in active, Apart(r)'
        PROVE  /\ mem'[r] = Once(IF r \in Cached THEN Due(r, Covered(r))' ELSE {})
               /\ EarnedFrom(log', Waiting(r)', r, Due(r, Goal(r))')
    <3>1. r \in enabled /\ Apart(r)
      BY <1>3, <2>1, <2>2 DEF WhoRuns
    <3>2. /\ mem[r] = Once(IF r \in Cached THEN Due(r, Covered(r)) ELSE {})
          /\ EarnedFrom(log, Waiting(r), r, Due(r, Goal(r)))
      BY <1>1, <1>3, <3>1 DEF RulesConsistent
    <3> QED
      BY <1>3, <1>4, <2>2, <3>2, RuleAbsorbs
  <2>3. ASSUME NEW r \in enabled, r \notin active
        PROVE  EarnedFrom(log', Waiting(r)', r, Due(r, Goal(r))')
    <3>1. EarnedFrom(log, Waiting(r), r, Due(r, Goal(r)))
      BY <1>1, <1>3, <2>3 DEF RulesConsistent
    <3>2. \A o \in pending' : o.rule # r
      BY <1>6, <2>3
    <3>3. Waiting(r) = {} /\ Waiting(r)' = {}
      BY <3>2 DEF Waiting
    <3>4. Goal(r)' = Goal(r)
      BY <2>3 DEF Goal, Finalized, Covered
    <3>5. Due(r, Goal(r))' = Due(r, Goal(r))
      BY <3>4 DEF Due
    <3> QED
      BY <3>1, <3>3, <3>5
  <2>4. enabled' = enabled /\ active' = active
    OBVIOUS
  <2> QED
    BY <2>2, <2>3, <2>4 DEF RulesConsistent
<1> QED
  BY <1>2, <1>5, <1>4, <1>7, <1>8 DEF Sound, WalkConsistent

LEMMA VisitSound ==
  ASSUME TypeOK, Sound, NEW c \in frontier, Visit(c) \/ VisitCheckpoint(c)
  PROVE  Sound'
<1>1. /\ ProcessCommit(c) /\ pending = {} /\ pc \in {"walking", "retiring"}
      /\ UNCHANGED << head, enabled, version, ckpt, cache, file, active, log >>
  BY DEF Visit, VisitCheckpoint, world, disk
<1>2. CASE Visit(c)
  BY <1>1, <1>2, ProcessCommitSound DEF Visit
<1>3. CASE VisitCheckpoint(c)
  <2>1. c = ckpt.commit
    BY <1>3 DEF VisitCheckpoint, Sound, WalkConsistent, WhoRuns, InRun
  <2>2. \A r \in active : ~HasProcessed(r)
    BY <1>3 DEF VisitCheckpoint, Unchanged
  <2> QED
    BY <1>1, <2>1, <2>2, ProcessCommitSound
<1> QED
  BY <1>2, <1>3

\* The walk meets the checkpoint commit, and nothing is overlooked.
LEMMA MeetCheckpointSound ==
  ASSUME TypeOK, Sound, NEW c \in frontier, EarlyExit(c) \/ ReachCheckpoint(c), ~spoiled'
  PROVE  Sound'
<1>1. /\ pc = "walking" /\ pending = {} /\ HasNext /\ c = NextCommit /\ c = ckpt.commit
      /\ NoteFirst(c) /\ ~Overlooks(c)
      /\ \/ pc' = "finalizing" /\ \A r \in active : HasProcessed(r)
         \/ pc' = "retiring"
      /\ UNCHANGED << head, enabled, version, ckpt, cache, file, active, mem, log,
                      frontier, seen, budget, pending >>
  BY DEF EarlyExit, ReachCheckpoint, world, disk
<1>2. InRun /\ InRun'
  BY <1>1 DEF InRun
<1>3. /\ FilesParse' /\ WordKept' /\ OthersFresh' /\ SavingConsistent'
      /\ \A r : HasProcessed(r)' <=> HasProcessed(r)
      /\ Base' = Base
  BY <1>1, <1>2, FilesUntouched
<1>4. FilesParse /\ WalkDown /\ WhoRuns /\ RulesConsistent
  BY <1>2 DEF Sound, WalkConsistent
<1>5. c \in Commits /\ c # None /\ head # None /\ Base = Reach[c]
  BY <1>1, GraphAssumption DEF TypeOK, Base
<1>6. first' = head
  BY <1>1, <1>4, <1>5 DEF NoteFirst, WalkDown
<1>7. WalkDown'
  BY <1>1, <1>4, <1>6 DEF WalkDown
<1>8. WhoRuns'
  <2>1. frontier \subseteq Base /\ seen \cap Base = {}
    BY <1>1, <1>5 DEF Overlooks
  <2>2. AtCheckpoint'
    BY <1>1, <1>3, <1>5, <1>6, <2>1 DEF AtCheckpoint
  <2>3. ckpt.commit \notin seen
    BY <1>1, <1>4 DEF WalkDown
  <2>4. active = enabled
    BY <1>1, <1>4, <2>3 DEF WhoRuns
  <2>5. NextCommit' = NextCommit
    BY <1>1 DEF NextCommit
  <2>6. budget > 0
    BY <1>1 DEF HasNext
  <2> QED
    BY <1>1, <1>3, <1>4, <2>2, <2>3, <2>4, <2>5, <2>6 DEF WhoRuns
<1>9. OutputsWait'
  BY <1>1 DEF OutputsWait
<1>10. RulesConsistent'
  <2>1. \A r : (Apart(r)' <=> Apart(r)) /\ Covered(r)' = Covered(r)
               /\ (Finalized(r)' <=> Finalized(r)) /\ Waiting(r)' = Waiting(r)
    BY <1>1, <1>3 DEF Apart, Covered, Finalized, Waiting
  <2>2. \A r : Goal(r)' = Goal(r)
    BY <1>3, <2>1 DEF Goal
  <2>3. \A r : Due(r, Goal(r))' = Due(r, Goal(r)) /\ Due(r, Covered(r))' = Due(r, Covered(r))
    BY <1>1, <2>1, <2>2 DEF Due
  <2> QED
    BY <1>1, <1>2, <1>4, <2>1, <2>3 DEF RulesConsistent
<1> QED
  BY <1>3, <1>7, <1>8, <1>9, <1>10 DEF Sound, WalkConsistent

-----------------------------------------------------------------------------
(***************************************************************************)
(* Outputs: a rule is finalized, its outputs are emitted, meta runs.       *)
(***************************************************************************)

\* The outputs of finalize: one at most for each "best" rule.
LEMMA FinalOutputsProperties ==
  ASSUME TypeOK, NEW rs \in SUBSET Rules
  PROVE  /\ \A o \in FinalOutputs(rs) : o.rule \in rs /\ Role[o.rule] = "best"
         /\ \A o, p \in FinalOutputs(rs) : o.rule = p.rule => o = p
         /\ \A r \in rs : {o.grant.user : o \in {o \in FinalOutputs(rs) : o.rule = r}} =
                            {Author[c] : c \in IF Role[r] = "best" THEN Candidate(r) ELSE {}}
<1>1. ASSUME NEW o \in FinalOutputs(rs)
      PROVE  /\ o.rule \in rs /\ Role[o.rule] = "best" /\ o.rule \in Rules
             /\ \E c \in Candidate(o.rule) : o = [rule |-> o.rule, grant |-> GrantAt(c)]
  <2>1. PICK rc \in rs \X Commits : /\ Role[rc[1]] = "best" /\ rc[2] \in Candidate(rc[1])
                                    /\ o = [rule |-> rc[1], grant |-> GrantAt(rc[2])]
    BY DEF FinalOutputs
  <2>2. o.rule = rc[1] /\ rc[1] \in rs
    BY <2>1
  <2> QED
    BY <2>1, <2>2
<1>2. ASSUME NEW r \in rs, Role[r] = "best", NEW c \in Candidate(r)
      PROVE  [rule |-> r, grant |-> GrantAt(c)] \in FinalOutputs(rs)
  <2>1. << r, c >> \in rs \X Commits
    BY DEF Candidate, Record
  <2>2. << r, c >>[1] = r /\ << r, c >>[2] = c
    OBVIOUS
  <2> QED
    BY <1>2, <2>1, <2>2 DEF FinalOutputs
<1>3. \A r \in Rules : \A c, d \in Candidate(r) : c = d
  <2> SUFFICES ASSUME NEW r \in Rules, NEW c \in Candidate(r), NEW d \in Candidate(r)
               PROVE  c = d
    OBVIOUS
  <2> DEFINE S == {x \in Commits : mem[r][x] > 0}
  <2>1. c \in Best(S) /\ d \in Best(S)
    BY DEF Candidate, Record, Best
  <2>2. S \in SUBSET Commits
    OBVIOUS
  <2> QED
    BY <2>1, <2>2, BestProperties
<1>4. \A o, p \in FinalOutputs(rs) : o.rule = p.rule => o = p
  BY <1>1, <1>3
<1>5. ASSUME NEW r \in rs
      PROVE  {o.grant.user : o \in {o \in FinalOutputs(rs) : o.rule = r}} =
               {Author[c] : c \in IF Role[r] = "best" THEN Candidate(r) ELSE {}}
  <2> DEFINE users == {o.grant.user : o \in {o \in FinalOutputs(rs) : o.rule = r}}
             cs    == IF Role[r] = "best" THEN Candidate(r) ELSE {}
  <2>1. ASSUME NEW u \in users PROVE u \in {Author[c] : c \in cs}
    <3>1. PICK o \in FinalOutputs(rs) : o.rule = r /\ u = o.grant.user
      BY <2>1
    <3>2. PICK c \in Candidate(r) : o = [rule |-> r, grant |-> GrantAt(c)]
      BY <1>1, <3>1
    <3>3. u = Author[c] /\ Role[r] = "best"
      BY <1>1, <3>1, <3>2 DEF GrantAt
    <3> QED
      BY <3>2, <3>3
  <2>2. ASSUME NEW c \in cs PROVE Author[c] \in users
    <3>1. Role[r] = "best" /\ c \in Candidate(r)
      BY <2>2
    <3> DEFINE o == [rule |-> r, grant |-> GrantAt(c)]
    <3>2. o \in FinalOutputs(rs)
      BY <1>2, <3>1
    <3>3. o.rule = r /\ o.grant.user = Author[c]
      BY DEF GrantAt
    <3> HIDE DEF o
    <3> QED
      BY <3>2, <3>3
  <2> HIDE DEF users, cs
  <2>3. users = {Author[c] : c \in cs}
    BY <2>1, <2>2
  <2> QED
    BY <2>3 DEF users, cs
<1> QED
  BY <1>1, <1>4, <1>5

\* Finalizing a running rule accounts for every commit it covered.
LEMMA FinalizeEarns ==
  ASSUME TypeOK, Sound, InRun, NEW r \in active, Apart(r), Waiting(r) = {}, ~Finalized(r),
         NEW w, w = {Author[c] : c \in IF Role[r] = "best" THEN Candidate(r) ELSE {}}
  PROVE  EarnedFrom(log, w, r, Due(r, Covered(r)))
<1>1. /\ FilesParse /\ WordKept /\ OthersFresh /\ WhoRuns /\ RulesConsistent
      /\ r \in Rules /\ r \in enabled
  BY DEF Sound, WalkConsistent, WhoRuns, TypeOK
<1>2. /\ mem[r] = Once(IF r \in Cached THEN Due(r, Covered(r)) ELSE {})
      /\ EarnedFrom(log, {}, r, Due(r, Goal(r)))
  BY <1>1 DEF RulesConsistent
<1>3. CASE Role[r] # "best"
  <2>1. Goal(r) = Covered(r) /\ w = {}
    BY <1>3 DEF Goal
  <2> QED
    BY <1>2, <2>1
<1>4. CASE Role[r] = "best"
  <2> DEFINE due == Due(r, Covered(r))
             old == Due(r, Goal(r))
  <2>1. r \in Cached /\ Goal(r) = IF HasProcessed(r) THEN Base ELSE {}
    BY <1>1, <1>4 DEF Cached, Goal
  <2>2. Goal(r) \subseteq Covered(r) /\ Covered(r) \subseteq Commits
    BY <1>1, <2>1, CoveredTyped DEF Covered
  <2>3. due \in SUBSET Commits /\ old \in SUBSET due
    BY <2>2 DEF Due
  <2>4. cache[r] = Once(old) \/ (cache[r] = None /\ old = {})
    <3>1. CASE HasProcessed(r)
      <4>1. r \notin Retired /\ pc # "caches"
        BY DEF Retired, InRun
      <4>2. CacheStands(cache[r], r, Due(r, Base))
        BY <1>1, <3>1, <4>1 DEF WordKept
      <4> QED
        BY <2>1, <3>1, <4>2 DEF CacheStands
    <3>2. CASE ~HasProcessed(r)
      <4>1. cache[r] = None
        BY <1>1, <3>2 DEF OthersFresh, Fresh
      <4> QED
        BY <2>1, <3>2, <4>1 DEF Due
    <3> QED
      BY <3>1, <3>2
  <2>5. mem[r] = Once(due)
    BY <1>2, <2>1
  <2> HIDE DEF due, old
  <2>6. Record(mem[r]) = Best(due) /\ (cache[r] = Once(old) => Record(cache[r]) = Best(old))
    <3>1. old \in SUBSET Commits
      BY <2>3
    <3> QED
      BY <2>3, <2>5, <3>1, RecordOfOnce
  <2>7. \/ Candidate(r) = {c \in Best(due) : c \notin Best(old)}
        \/ Candidate(r) = Best(due) /\ old = {}
    <3>1. CASE cache[r] = None
      <4>1. old = {}
        BY <2>3, <2>4, <3>1, RecordOfOnce, FileAssumption
      <4> QED
        BY <2>6, <3>1, <4>1 DEF Candidate
    <3>2. CASE cache[r] # None
      BY <2>4, <2>6, <3>2 DEF Candidate
    <3> QED
      BY <3>1, <3>2
  <2>8. EarnedFrom(log, {}, r, old) /\ w = {Author[c] : c \in Candidate(r)}
    BY <1>2, <1>4 DEF old
  <2>9. EarnedFrom(log, w, r, due)
    BY <1>1, <1>4, <2>3, <2>7, <2>8, CandidateEarns
  <2> QED
    BY <2>9 DEF due
<1> QED
  BY <1>3, <1>4

\* At the checkpoint, a rule that has processed what lies behind it has, with what
\* the walk has seen, processed everything.
LEMMA CoveredAtCheckpoint ==
  ASSUME TypeOK, FilesParse, WalkDown, AtCheckpoint, NEW r \in active, HasProcessed(r)
  PROVE  Apart(r) /\ Covered(r) = Reach[head]
<1>1. Base \subseteq Reach[head] /\ \A d \in Base : Parents[d] \subseteq Base
  BY CoveredTyped
<1>2. seen \cup Base = Reach[head]
  BY <1>1, WalkComplete DEF AtCheckpoint
<1> QED
  BY <1>2 DEF Covered, Apart, AtCheckpoint

LEMMA RetireSound ==
  ASSUME TypeOK, Sound, NEW q \in Rules, Retire(q)
  PROVE  Sound'
<1>1. /\ pc = "retiring" /\ pc' = "retiring" /\ q \in active /\ HasProcessed(q)
      /\ pending' = pending \cup FinalOutputs({q})
      /\ cache' = IF q \in Cached THEN [cache EXCEPT ![q] = mem[q]] ELSE cache
      /\ active' = active \ {q}
      /\ UNCHANGED << head, enabled, version, ckpt, file, mem, log, frontier, seen,
                      budget, first >>
  <2>1. Unchanged \in SUBSET Rules
    BY DEF Unchanged, TypeOK
  <2>2. Retire(q) => Least(Unchanged) \in Unchanged
    BY <2>1, LeastProperties DEF Retire
  <2> QED
    BY <2>2 DEF Retire, Unchanged, world, walk
<1>2. InRun /\ InRun'
  BY <1>1 DEF InRun
<1>3. /\ FilesParse /\ WordKept /\ OthersFresh /\ WalkDown /\ WhoRuns /\ OutputsWait
      /\ RulesConsistent /\ AtCheckpoint /\ active \subseteq enabled /\ enabled \subseteq Rules
  BY <1>1, <1>2 DEF Sound, WalkConsistent, WhoRuns, TypeOK
<1>4. Apart(q) /\ Covered(q) = Reach[head]
  BY <1>1, <1>3, CoveredAtCheckpoint
<1>5. /\ \A r : HasProcessed(r)' <=> HasProcessed(r)
      /\ Base' = Base
      /\ Retired' = Retired \cup {q} /\ q \notin Retired
  BY <1>1, <1>2, <1>3 DEF HasProcessed, Base, Retired
<1>6. /\ \A r \in Rules : cache'[r] = IF r = q /\ q \in Cached THEN mem[q] ELSE cache[r]
      /\ mem[q] \in Caches /\ mem[q] # Torn
  BY <1>1, FileAssumption DEF TypeOK
<1>7. FilesParse'
  BY <1>1, <1>3, <1>6 DEF FilesParse
<1>8. WordKept'
  <2>1. ASSUME NEW r \in Rules, HasProcessed(r)
        PROVE  /\ CacheStands(cache'[r], r, Due(r, IF r \in Retired' THEN Reach[head] ELSE Base))
               /\ EarnedFrom(file, {}, r, Due(r, Base))
    <3>1. /\ CacheStands(cache[r], r, Due(r, IF r \in Retired THEN Reach[head] ELSE Base))
          /\ EarnedFrom(file, {}, r, Due(r, Base))
      BY <1>1, <1>3, <2>1 DEF WordKept
    <3>2. CASE r # q
      BY <1>5, <1>6, <3>1, <3>2
    <3>3. CASE r = q
      <4>1. r \in Retired'
        BY <1>5, <3>3
      <4>2. q \in Cached => cache'[q] = Once(Due(q, Reach[head]))
        BY <1>1, <1>2, <1>3, <1>4, <1>6 DEF RulesConsistent
      <4> QED
        BY <3>1, <3>3, <4>1, <4>2 DEF CacheStands
    <3> QED
      BY <3>2, <3>3
  <2> QED
    BY <1>1, <1>5, <2>1 DEF WordKept, Due
<1>9. OthersFresh'
  <2>1. \A r \in enabled : ~HasProcessed(r) => Fresh(r)
    BY <1>2, <1>3 DEF OthersFresh
  <2>2. \A r \in enabled : ~HasProcessed(r) => Fresh(r)'
    BY <1>1, <1>3, <1>6, <2>1 DEF Fresh
  <2> QED
    BY <1>1, <1>5, <2>2 DEF OthersFresh
<1>10. WalkDown' /\ AtCheckpoint' /\ NextCommit' = NextCommit
  BY <1>1, <1>3, <1>5 DEF WalkDown, AtCheckpoint, NextCommit
<1>11. WhoRuns'
  BY <1>1, <1>3, <1>5, <1>10 DEF WhoRuns
<1> DEFINE outs == FinalOutputs({q})
<1>12. /\ \A o \in outs : o.rule = q
       /\ \A o, p \in outs : o.rule = p.rule => o = p
       /\ {o.grant.user : o \in {o \in outs : o.rule = q}} =
            {Author[c] : c \in IF Role[q] = "best" THEN Candidate(q) ELSE {}}
  <2>1. {q} \in SUBSET Rules /\ q \in {q}
    OBVIOUS
  <2>2. /\ \A o \in FinalOutputs({q}) : o.rule \in {q} /\ Role[o.rule] = "best"
        /\ \A o, p \in FinalOutputs({q}) : o.rule = p.rule => o = p
        /\ \A r \in {q} : {o.grant.user : o \in {o \in FinalOutputs({q}) : o.rule = r}} =
                            {Author[c] : c \in IF Role[r] = "best" THEN Candidate(r) ELSE {}}
    BY <2>1, FinalOutputsProperties
  <2> QED
    BY <2>1, <2>2
<1> HIDE DEF outs
<1>13. \A o \in pending : o.rule \notin active /\ o.rule # q
  BY <1>1, <1>2, <1>3 DEF OutputsWait
<1>14. OutputsWait'
  <2>1. \A o, p \in pending' : o.rule = p.rule => o = p
    BY <1>1, <1>2, <1>3, <1>12, <1>13 DEF OutputsWait, outs
  <2>2. \A o \in pending' : o.rule \in enabled /\ o.rule \notin active'
    BY <1>1, <1>2, <1>3, <1>12, <1>13 DEF OutputsWait, outs
  <2> QED
    BY <1>1, <2>1, <2>2 DEF OutputsWait, Finalized
<1>15. RulesConsistent'
  <2>1. /\ \A r : Apart(r)' <=> Apart(r)
        /\ \A r : r # q => /\ Covered(r)' = Covered(r)
                           /\ Finalized(r)' <=> Finalized(r)
    BY <1>1, <1>5 DEF Apart, Covered, Finalized
  <2>2. \A r : r # q => Goal(r)' = Goal(r)
    BY <1>5, <2>1 DEF Goal
  <2>3. \A r : r # q => /\ Due(r, Goal(r))' = Due(r, Goal(r))
                        /\ Due(r, Covered(r))' = Due(r, Covered(r))
    BY <1>1, <2>1, <2>2 DEF Due
  <2>4. \A r : r # q => Waiting(r)' = Waiting(r)
    BY <1>1, <1>12 DEF Waiting, outs
  <2>5. EarnedFrom(log, Waiting(q)', q, Due(q, Goal(q))')
    <3>1. Waiting(q) = {} /\ ~Finalized(q)
      BY <1>1, <1>13 DEF Waiting, Finalized
    <3>2. Waiting(q)' = {Author[c] : c \in IF Role[q] = "best" THEN Candidate(q) ELSE {}}
      <4>1. \A o : o \in pending' /\ o.rule = q <=> o \in outs /\ o.rule = q
        BY <1>1, <1>13 DEF outs
      <4>2. Waiting(q)' = {o.grant.user : o \in {o \in outs : o.rule = q}}
        BY <4>1 DEF Waiting
      <4> QED
        BY <1>12, <4>2
    <3>3. EarnedFrom(log, Waiting(q)', q, Due(q, Covered(q)))
      BY <1>1, <1>2, <1>4, <3>1, <3>2, FinalizeEarns
    <3>4. Goal(q)' = Reach[head]
      BY <1>1 DEF Goal, Finalized, Covered
    <3>5. Due(q, Goal(q))' = Due(q, Covered(q))
      BY <1>1, <1>4, <3>4 DEF Due
    <3> QED
      BY <3>3, <3>5
  <2> QED
    BY <1>1, <1>2, <1>3, <2>1, <2>3, <2>4, <2>5 DEF RulesConsistent
<1>16. SavingConsistent'
  BY <1>1 DEF SavingConsistent
<1> QED
  BY <1>7, <1>8, <1>9, <1>10, <1>11, <1>14, <1>15, <1>16 DEF Sound, WalkConsistent

LEMMA EmitSound ==
  ASSUME TypeOK, RunShape, OneHolder, Sound, NEW o \in pending, Emit(o)
  PROVE  Sound'
<1>1. /\ pc \in {"walking", "retiring", "evaluating"} /\ pc' = pc
      /\ log' = Resolve(log, o.rule, o.grant) /\ pending' = pending \ {o}
      /\ UNCHANGED << head, enabled, version, ckpt, cache, file, active, mem, frontier, seen,
                      budget, first >>
  BY DEF Emit, RunShape, world, disk, walk
<1>2. InRun /\ InRun'
  BY <1>1 DEF InRun
<1>3. /\ FilesParse' /\ WordKept' /\ OthersFresh' /\ SavingConsistent'
      /\ \A r : HasProcessed(r)' <=> HasProcessed(r)
      /\ Base' = Base
  BY <1>1, <1>2, FilesUntouched
<1>4. /\ WalkDown /\ WhoRuns /\ OutputsWait /\ RulesConsistent
      /\ enabled \subseteq Rules /\ log \in Seq(Event) /\ SingleHolder(log)
      /\ o.rule \in AllAchievements /\ o.grant \in Grant /\ o.rule \in Rules
  BY <1>2 DEF Sound, WalkConsistent, TypeOK, OneHolder, Outputs, AllAchievements
<1>5. WalkDown' /\ WhoRuns'
  <2>1. /\ WalkDown' /\ NextCommit' = NextCommit /\ (AtCheckpoint' <=> AtCheckpoint)
        /\ (Truncated' <=> Truncated)
    BY <1>1, <1>3, <1>4 DEF WalkDown, NextCommit, AtCheckpoint, Truncated
  <2>2. \A r : (Apart(r)' <=> Apart(r)) /\ Covered(r)' = Covered(r)
    BY <1>1, <1>3 DEF Apart, Covered
  <2> QED
    BY <1>1, <1>3, <1>4, <2>1, <2>2 DEF WhoRuns
<1>6. OutputsWait'
  BY <1>1, <1>2, <1>4 DEF OutputsWait, Finalized
<1>7. RulesConsistent'
  <2>1. \A r : (Apart(r)' <=> Apart(r)) /\ Covered(r)' = Covered(r)
               /\ (Finalized(r)' <=> Finalized(r))
    BY <1>1, <1>3 DEF Apart, Covered, Finalized
  <2>2. \A r : Goal(r)' = Goal(r)
    BY <1>3, <2>1 DEF Goal
  <2>3. \A r : Due(r, Goal(r))' = Due(r, Goal(r)) /\ Due(r, Covered(r))' = Due(r, Covered(r))
    BY <1>1, <2>1, <2>2 DEF Due
  <2>4. \A p \in pending : p.rule = o.rule => p = o
    BY <1>2, <1>4 DEF OutputsWait
  <2>5. ASSUME NEW r \in enabled, NEW due, EarnedFrom(log, Waiting(r), r, due)
        PROVE  EarnedFrom(log', Waiting(r)', r, due)
    <3>1. CASE r = o.rule
      <4>1. Waiting(r) = {o.grant.user} /\ Waiting(r)' = {}
        BY <1>1, <2>4, <3>1 DEF Waiting
      <4>2. EarnedFrom(Resolve(log, r, o.grant), {}, r, due)
        BY <1>4, <2>5, <3>1, <4>1, EmitEarns
      <4> QED
        BY <1>1, <3>1, <4>1, <4>2
    <3>2. CASE r # o.rule
      <4>1. Waiting(r)' = Waiting(r)
        BY <1>1, <3>2 DEF Waiting
      <4>2. EarnedFrom(Resolve(log, o.rule, o.grant), Waiting(r), r, due)
        BY <1>4, <2>5, <3>2, OthersEarn
      <4> QED
        BY <1>1, <4>1, <4>2
    <3> QED
      BY <3>1, <3>2
  <2> QED
    BY <1>1, <1>2, <1>4, <2>1, <2>3, <2>5 DEF RulesConsistent
<1> QED
  BY <1>3, <1>5, <1>6, <1>7 DEF Sound, WalkConsistent

\* The meta-achievement is no rule's.
LEMMA EvaluateMetaSound ==
  ASSUME TypeOK, OneHolder, Sound, EvaluateMeta
  PROVE  Sound'
<1>1. /\ pc = "evaluating" /\ pc' = "checkpoint" /\ pending = {} /\ pending' = {}
      /\ log' = log \/ \E g \in Grant : log' = Resolve(log, Farmer, g)
      /\ UNCHANGED << head, enabled, version, ckpt, cache, file, active, mem, frontier, seen,
                      budget, first >>
  BY DEF EvaluateMeta, FarmerGrants, world, disk, walk
<1>2. InRun /\ InRun'
  BY <1>1 DEF InRun
<1>3. /\ FilesParse' /\ WordKept' /\ OthersFresh' /\ SavingConsistent'
      /\ \A r : HasProcessed(r)' <=> HasProcessed(r)
      /\ Base' = Base
  BY <1>1, <1>2, FilesUntouched
<1>4. /\ WalkDown /\ WhoRuns /\ RulesConsistent
      /\ enabled \subseteq Rules /\ log \in Seq(Event) /\ SingleHolder(log)
  BY <1>2 DEF Sound, WalkConsistent, TypeOK, OneHolder
<1>5. \A r : /\ (Apart(r)' <=> Apart(r)) /\ Covered(r)' = Covered(r)
             /\ (Finalized(r)' <=> Finalized(r)) /\ Waiting(r)' = Waiting(r)
  BY <1>1, <1>3 DEF Apart, Covered, Finalized, Waiting
<1>6. WalkDown' /\ WhoRuns'
  <2>1. WalkDown' /\ (Truncated' <=> Truncated)
    BY <1>1, <1>4 DEF WalkDown, Truncated
  <2> QED
    BY <1>1, <1>3, <1>4, <1>5, <2>1 DEF WhoRuns
<1>7. OutputsWait'
  BY <1>1 DEF OutputsWait
<1>8. RulesConsistent'
  <2>1. \A r : Goal(r)' = Goal(r)
    BY <1>3, <1>5 DEF Goal
  <2>2. \A r : Due(r, Goal(r))' = Due(r, Goal(r)) /\ Due(r, Covered(r))' = Due(r, Covered(r))
    BY <1>1, <1>5, <2>1 DEF Due
  <2>3. ASSUME NEW r \in enabled, NEW due, EarnedFrom(log, Waiting(r), r, due)
        PROVE  EarnedFrom(log', Waiting(r)', r, due)
    <3>1. r \in Rules /\ r # Farmer /\ Farmer \in AllAchievements
      BY <1>4, RuleKinds DEF AllAchievements, MetaAchievements
    <3>2. \A g \in Grant : EarnedFrom(Resolve(log, Farmer, g), Waiting(r), r, due)
      BY <1>4, <2>3, <3>1, OthersEarn
    <3> QED
      BY <1>1, <1>5, <2>3, <3>2
  <2> QED
    BY <1>1, <1>2, <1>4, <1>5, <2>2, <2>3 DEF RulesConsistent
<1> QED
  BY <1>3, <1>6, <1>7, <1>8 DEF Sound, WalkConsistent

\* The walk has ended: every running rule is finalized.
LEMMA FinalizeSound ==
  ASSUME TypeOK, Sound, Finalize
  PROVE  Sound'
<1>1. /\ pc = "finalizing" \/ (pc = "walking" /\ ~HasNext)
      /\ pc' = "evaluating" /\ pending = {} /\ pending' = FinalOutputs(active)
      /\ UNCHANGED << head, enabled, version, ckpt, cache, file, active, mem, log,
                      frontier, seen, budget, first >>
  BY DEF Finalize, world, disk, walk
<1>2. InRun /\ InRun' /\ pc \notin {"evaluating", "checkpoint"}
  BY <1>1 DEF InRun
<1>3. /\ FilesParse' /\ WordKept' /\ OthersFresh' /\ SavingConsistent'
      /\ \A r : HasProcessed(r)' <=> HasProcessed(r)
      /\ Base' = Base
  BY <1>1, <1>2, FilesUntouched
<1>4. /\ FilesParse /\ WalkDown /\ WhoRuns /\ RulesConsistent
      /\ active \subseteq enabled /\ enabled \subseteq Rules
      /\ active \in SUBSET Rules
  BY <1>2 DEF Sound, WalkConsistent, WhoRuns, TypeOK
<1>5. \A r : (Apart(r)' <=> Apart(r)) /\ Covered(r)' = Covered(r)
  BY <1>1, <1>3 DEF Apart, Covered
<1>6. ~Truncated => first = head /\ \A r \in active : Apart(r) /\ Covered(r) = Reach[head]
  <2>1. CASE pc = "finalizing"
    <3>1. AtCheckpoint /\ \A r \in active : HasProcessed(r)
      BY <1>4, <2>1 DEF WhoRuns
    <3> QED
      BY <1>4, <3>1, CoveredAtCheckpoint DEF AtCheckpoint
  <2>2. CASE pc = "walking" /\ ~HasNext /\ ~Truncated
    <3>1. frontier = {}
      BY <2>2 DEF HasNext, Truncated, TypeOK
    <3>2. first = head
      BY <1>4, <3>1 DEF WalkDown
    <3>3. seen \cup {} = Reach[head]
      BY <1>4, <3>1, WalkComplete
    <3>4. ASSUME NEW r \in active PROVE ~HasProcessed(r)
      <4>1. HasProcessed(r) => ckpt.commit \in seen
        BY <1>4, <3>3, CheckpointRules DEF FilesParse
      <4> QED
        BY <1>4, <4>1 DEF WhoRuns
    <3> QED
      BY <3>2, <3>3, <3>4 DEF Apart, Covered
  <2> QED
    BY <1>1, <2>1, <2>2
<1>7. WalkDown' /\ WhoRuns'
  <2>1. WalkDown' /\ (Truncated' <=> Truncated)
    BY <1>1, <1>4 DEF WalkDown, Truncated
  <2>2. \A r \in active : ckpt.commit \in seen => ~HasProcessed(r)
    BY <1>4 DEF WhoRuns
  <2> QED
    BY <1>1, <1>3, <1>4, <1>5, <1>6, <2>1, <2>2 DEF WhoRuns
<1>8. /\ \A o \in pending' : o.rule \in active
      /\ \A o, p \in pending' : o.rule = p.rule => o = p
      /\ \A r \in active : Waiting(r)' =
           {Author[c] : c \in IF Role[r] = "best" THEN Candidate(r) ELSE {}}
  <2>1. /\ \A o \in FinalOutputs(active) : o.rule \in active /\ Role[o.rule] = "best"
        /\ \A o, p \in FinalOutputs(active) : o.rule = p.rule => o = p
        /\ \A r \in active :
             {o.grant.user : o \in {o \in FinalOutputs(active) : o.rule = r}} =
               {Author[c] : c \in IF Role[r] = "best" THEN Candidate(r) ELSE {}}
    BY <1>4, FinalOutputsProperties
  <2> QED
    BY <1>1, <2>1 DEF Waiting
<1>9. OutputsWait'
  BY <1>1, <1>4, <1>8 DEF OutputsWait, Finalized
<1>10. RulesConsistent'
  <2>1. \A r : Goal(r)' = Covered(r)
    BY <1>1, <1>5 DEF Goal, Finalized
  <2>2. \A r : Due(r, Goal(r))' = Due(r, Covered(r)) /\ Due(r, Covered(r))' = Due(r, Covered(r))
    BY <1>1, <1>5, <2>1 DEF Due
  <2>3. ASSUME NEW r \in active, Apart(r)
        PROVE  EarnedFrom(log, Waiting(r)', r, Due(r, Covered(r)))
    <3>1. Waiting(r) = {} /\ ~Finalized(r)
      BY <1>1, <1>2 DEF Waiting, Finalized
    <3> QED
      BY <1>2, <1>8, <2>3, <3>1, FinalizeEarns
  <2>4. ASSUME NEW r \in enabled, r \notin active
        PROVE  EarnedFrom(log, Waiting(r)', r, Due(r, Covered(r)))
    <3>1. Waiting(r) = {} /\ Waiting(r)' = {}
      BY <1>1, <1>8, <2>4 DEF Waiting
    <3>2. Goal(r) = Covered(r)
      BY <2>4 DEF Goal, Finalized
    <3> QED
      BY <1>2, <1>4, <2>4, <3>1, <3>2 DEF RulesConsistent
  <2> QED
    BY <1>1, <1>2, <1>4, <1>5, <2>2, <2>3, <2>4 DEF RulesConsistent
<1> QED
  BY <1>3, <1>7, <1>9, <1>10 DEF Sound, WalkConsistent

-----------------------------------------------------------------------------
(***************************************************************************)
(* The files are written, or the process dies.                             *)
(***************************************************************************)

LEMMA SaveCheckpointSound ==
  ASSUME TypeOK, RunShape, Sound, SaveCheckpoint, ~spoiled'
  PROVE  Sound'
<1>1. /\ pc = "checkpoint" /\ pc' = "caches" /\ ~Truncated
      /\ ckpt' = [commit |-> first, rules |-> RulesWithVersions]
      /\ todo' = active \cap Cached
      /\ UNCHANGED << head, enabled, version, cache, file, active, mem, log >>
  BY DEF SaveCheckpoint, world
<1>2. InRun /\ pending = {} /\ ~InRun'
  BY <1>1 DEF InRun, RunShape
<1>3. /\ FilesParse /\ WordKept /\ WhoRuns /\ RulesConsistent
      /\ active \subseteq enabled /\ enabled \subseteq Rules
  BY <1>1, <1>2 DEF Sound, WalkConsistent, WhoRuns, TypeOK
<1>4. /\ first = head /\ head \in Commits
      /\ \A r \in active : Apart(r) /\ Covered(r) = Reach[head]
  BY <1>1, <1>3 DEF WhoRuns, TypeOK
<1>5. \A r \in enabled : Goal(r) = Reach[head] /\ Waiting(r) = {}
  BY <1>1, <1>2, <1>4 DEF Goal, Finalized, Covered, Waiting
<1>6. FilesParse'
  <2>1. RulesWithVersions \in SUBSET (Rules \X Versions)
    BY <1>3 DEF RulesWithVersions, TypeOK
  <2>2. ckpt' \in Checkpoints /\ ckpt'.commit = head /\ ckpt'.rules = RulesWithVersions
    BY <1>1, <1>4, <2>1 DEF Checkpoints
  <2>3. ckpt' # Torn /\ head # None /\ head \in Reach[head]
    BY <1>4, <2>2, ReachProperties, FileAssumption, GraphAssumption
  <2>4. /\ \A p \in RulesWithVersions : p[2] <= version[p[1]]
        /\ \A p, q \in RulesWithVersions : p[1] = q[1] => p = q
    <3>1. \A r \in enabled : version[r] \in Nat
      BY <1>3, RoleAssumption DEF TypeOK
    <3> QED
      BY <3>1 DEF RulesWithVersions
  <2> QED
    BY <1>1, <1>3, <2>2, <2>3, <2>4 DEF FilesParse
<1>7. SavingConsistent'
  <2>1. ASSUME NEW r \in active
        PROVE  mem[r] = Once(IF r \in Cached THEN Due(r, Reach[head]) ELSE {})
    BY <1>2, <1>3, <1>4, <2>1 DEF RulesConsistent
  <2>2. ASSUME NEW r \in enabled, r \notin active \cap Cached
        PROVE  CacheStands(cache[r], r, Due(r, Reach[head]))
    <3>1. CASE r \in active
      BY <2>2, <3>1 DEF CacheStands
    <3>2. CASE r \notin active
      <4>1. r \in Retired /\ HasProcessed(r) /\ r \in Rules
        BY <1>2, <1>3, <2>2, <3>2 DEF Retired, WhoRuns
      <4> QED
        BY <1>1, <1>3, <4>1 DEF WordKept
    <3> QED
      BY <3>1, <3>2
  <2>3. ASSUME NEW r \in enabled PROVE EarnedFrom(log, {}, r, Due(r, Reach[head]))
    BY <1>2, <1>3, <1>4, <1>5, <2>3 DEF RulesConsistent
  <2>4. \A r : Due(r, Reach[head])' = Due(r, Reach[head])
    BY <1>1 DEF Due
  <2>5. RulesWithVersions' = RulesWithVersions
    BY <1>1 DEF RulesWithVersions
  <2> QED
    BY <1>1, <1>3, <1>4, <2>1, <2>2, <2>3, <2>4, <2>5 DEF SavingConsistent
<1>8. WordKept' /\ OthersFresh' /\ WalkConsistent' /\ OutputsWait' /\ RulesConsistent'
  BY <1>1, <1>2 DEF WordKept, OthersFresh, WalkConsistent, OutputsWait, RulesConsistent
<1> QED
  BY <1>6, <1>7, <1>8 DEF Sound

LEMMA SaveCacheSound ==
  ASSUME TypeOK, Sound, NEW q \in Rules, SaveCache(q)
  PROVE  Sound'
<1>1. /\ pc = "caches" /\ pc' = "caches" /\ q \in todo /\ todo' = todo \ {q}
      /\ cache' = [cache EXCEPT ![q] = mem[q]]
      /\ UNCHANGED << head, enabled, version, ckpt, file, active, mem, log >>
  BY LeastProperties DEF SaveCache, world, TypeOK
<1>2. FilesParse /\ SavingConsistent /\ ~InRun'
  BY <1>1 DEF Sound, InRun
<1>3. q \in active /\ q \in Cached
  BY <1>1, <1>2 DEF SavingConsistent
<1>4. /\ \A r \in Rules : cache'[r] = IF r = q THEN mem[q] ELSE cache[r]
      /\ mem[q] # Torn
  BY <1>1, FileAssumption DEF TypeOK
<1>5. FilesParse'
  BY <1>1, <1>2, <1>3, <1>4 DEF FilesParse
<1>6. SavingConsistent'
  <2>1. \A r : Due(r, Reach[head])' = Due(r, Reach[head])
    BY <1>1 DEF Due
  <2>2. RulesWithVersions' = RulesWithVersions
    BY <1>1 DEF RulesWithVersions
  <2>3. ASSUME NEW r \in enabled, r \notin todo'
        PROVE  CacheStands(cache'[r], r, Due(r, Reach[head]))
    <3>1. r \in Rules
      BY <2>3 DEF TypeOK
    <3>2. CASE r = q
      BY <1>1, <1>2, <1>3, <1>4, <3>1, <3>2 DEF SavingConsistent, CacheStands
    <3>3. CASE r # q
      BY <1>1, <1>2, <1>4, <2>3, <3>1, <3>3 DEF SavingConsistent
    <3> QED
      BY <3>2, <3>3
  <2> QED
    BY <1>1, <1>2, <2>1, <2>2, <2>3 DEF SavingConsistent
<1>7. WordKept' /\ OthersFresh' /\ WalkConsistent' /\ OutputsWait' /\ RulesConsistent'
  BY <1>1, <1>2 DEF WordKept, OthersFresh, WalkConsistent, OutputsWait, RulesConsistent
<1> QED
  BY <1>5, <1>6, <1>7 DEF Sound

\* The last write makes true what the checkpoint already says.
LEMMA SaveLogSound ==
  ASSUME TypeOK, Sound, SaveLog
  PROVE  Sound'
<1>1. /\ pc = "caches" /\ pc' = "idle" /\ todo = {} /\ file' = log
      /\ UNCHANGED << head, enabled, version, ckpt, cache >>
  BY DEF SaveLog, Exit, world
<1>2. /\ FilesParse /\ SavingConsistent
      /\ ckpt = [commit |-> head, rules |-> RulesWithVersions]
      /\ head \in Commits /\ head # None
  BY <1>1, GraphAssumption DEF Sound, SavingConsistent, TypeOK
<1>3. file' # Unreadable
  BY <1>1, UnreadableAssumption DEF TypeOK
<1>4. FilesParse'
  BY <1>1, <1>2, <1>3 DEF FilesParse
<1>5. ASSUME NEW r \in Rules, HasProcessed(r)' PROVE Stands(r)'
  <2>1. r \in enabled
    BY <1>1, <1>2, <1>5 DEF HasProcessed, RulesWithVersions
  <2>2. /\ CacheStands(cache[r], r, Due(r, Reach[head]))
        /\ EarnedFrom(log, {}, r, Due(r, Reach[head]))
    BY <1>1, <1>2, <2>1 DEF SavingConsistent
  <2>3. Due(r, Base)' = Due(r, Reach[head])
    BY <1>1, <1>2 DEF Due, Base
  <2> QED
    BY <1>1, <2>2, <2>3 DEF Stands
<1> QED
  BY <1>1, <1>4, <1>5, IdleSound

\* A process that dies before it has written half of its files.
LEMMA CrashSound ==
  ASSUME TypeOK, Sound, Crash, ~spoiled'
  PROVE  Sound'
<1>1. /\ pc # "idle" /\ pc' = "idle" /\ ~HalfWritten
      /\ UNCHANGED << head, enabled, version, ckpt, cache, file >>
  BY DEF Crash, Exit, Idle, world, disk
<1>2. FilesParse /\ FilesParse' /\ pc # "caches"
  BY <1>1 DEF Sound, FilesParse, HalfWritten
<1>3. ASSUME NEW r \in Rules, HasProcessed(r) PROVE Stands(r)
  <2>1. CASE pc \in {"idle", "wiping", "loading"}
    BY <1>3, <2>1, ClosedStands
  <2>2. CASE InRun
    <3>1. WordKept /\ WalkDown /\ WhoRuns
      BY <2>2 DEF Sound, WalkConsistent
    <3>2. ckpt.commit # None
      BY <1>2, <1>3, CheckpointRules
    <3>3. CASE active = enabled
      <4>1. Retired = {}
        BY <3>3 DEF Retired
      <4> QED
        BY <1>2, <1>3, <3>1, <4>1 DEF WordKept, Stands
    <3>4. CASE active # enabled
      <4>1. first = ckpt.commit
        BY <1>1, <2>2, <3>1, <3>4 DEF HalfWritten, InRun, WhoRuns
      <4>2. Base = Reach[head]
        BY <3>1, <3>2, <4>1 DEF Base, WalkDown
      <4> QED
        BY <1>2, <1>3, <3>1, <4>2 DEF WordKept, Stands
    <3> QED
      BY <3>3, <3>4
  <2> QED
    BY <1>2, <2>1, <2>2 DEF InRun, TypeOK
<1>4. \A r \in Rules : /\ HasProcessed(r)' => HasProcessed(r)
                       /\ Stands(r) => Stands(r)'
  <2>1. \A r : Due(r, Base)' = Due(r, Base)
    BY <1>1 DEF Due, Base
  <2> QED
    BY <1>1, <2>1 DEF HasProcessed, Stands
<1> QED
  BY <1>1, <1>2, <1>3, <1>4, IdleSound

-----------------------------------------------------------------------------
(***************************************************************************)
(* Every step keeps the invariant.                                         *)
(***************************************************************************)

\* Nothing but the operator takes a spoiling back.
LEMMA SpoilingStays ==
  ASSUME Check \/ Fault, spoiled \in BOOLEAN
  PROVE  spoiled => spoiled'
BY DEF Check, Fault, Start, WipeCache, Retire, SaveCache, PruneLog, Load, LoadFails, Visit,
       EarlyExit, ReachCheckpoint, VisitCheckpoint, Emit, Finalize, EvaluateMeta,
       SaveCheckpoint, SaveLog, Crash, CrashInWrite

LEMMA SoundStutters ==
  ASSUME Sound, UNCHANGED vars
  PROVE  Sound'
<1>1. /\ UNCHANGED << head, enabled, version, ckpt, cache, file, pc, todo, active, mem, log >>
      /\ UNCHANGED << frontier, seen, budget, first, pending >>
  BY DEF vars, world, disk, walk
<1>2. /\ FilesParse' /\ OthersFresh' /\ OutputsWait'
      /\ Base' = Base /\ Retired' = Retired /\ (InRun' <=> InRun)
      /\ \A r : HasProcessed(r)' <=> HasProcessed(r)
      /\ \A r : Waiting(r)' = Waiting(r) /\ (Finalized(r)' <=> Finalized(r))
  BY <1>1 DEF Sound, FilesParse, OthersFresh, OutputsWait, Base, Retired, InRun, HasProcessed,
              Waiting, Finalized, Invalidated, Fresh
<1>3. \A r : /\ (Apart(r)' <=> Apart(r)) /\ Covered(r)' = Covered(r)
             /\ Goal(r)' = Goal(r)
  BY <1>1, <1>2 DEF Apart, Covered, Goal
<1>4. \A r, cs : Due(r, cs)' = Due(r, cs)
  BY <1>1 DEF Due
<1>5. WordKept'
  BY <1>1, <1>2 DEF Sound, WordKept, Due
<1>6. WalkConsistent'
  BY <1>1, <1>2, <1>3 DEF Sound, WalkConsistent, WalkDown, WhoRuns, AtCheckpoint, NextCommit,
                          Truncated
<1>7. RulesConsistent'
  BY <1>1, <1>2, <1>3 DEF Sound, RulesConsistent, Due
<1>8. SavingConsistent'
  BY <1>1 DEF Sound, SavingConsistent, Due, RulesWithVersions
<1> QED
  BY <1>2, <1>5, <1>6, <1>7, <1>8 DEF Sound

LEMMA NextKeepsConsistent ==
  ASSUME TypeOK, RunShape, OneHolder, Consistent, [Next]_vars
  PROVE  Consistent'
<1> SUFFICES ASSUME ~spoiled' PROVE Sound'
  BY DEF Consistent
<1>1. CASE World
  BY <1>1, WorldSound
<1>2. CASE Check \/ Fault
  <2>1. Sound
    BY <1>2, SpoilingStays DEF Consistent, TypeOK
  <2>2. ASSUME NEW depth \in Depths, Start(depth) PROVE Sound'
    BY <2>1, <2>2, StartSound
  <2>3. ASSUME NEW r \in Rules, WipeCache(r) \/ Retire(r) \/ SaveCache(r) PROVE Sound'
    BY <2>1, <2>3, WipeCacheSound, RetireSound, SaveCacheSound
  <2>4. PruneLog => Sound'
    BY <2>1, PruneLogSound
  <2>5. Load \/ LoadFails => Sound'
    BY <2>1, LoadSound, LoadSucceeds
  <2>6. ASSUME NEW c \in frontier,
               Visit(c) \/ EarlyExit(c) \/ ReachCheckpoint(c) \/ VisitCheckpoint(c)
        PROVE  Sound'
    BY <2>1, <2>6, VisitSound, MeetCheckpointSound
  <2>7. ASSUME NEW o \in pending, Emit(o) PROVE Sound'
    BY <2>1, <2>7, EmitSound
  <2>8. Finalize \/ EvaluateMeta => Sound'
    BY <2>1, FinalizeSound, EvaluateMetaSound
  <2>9. SaveCheckpoint \/ SaveLog => Sound'
    BY <2>1, SaveCheckpointSound, SaveLogSound
  <2>10. Crash => Sound'
    BY <2>1, CrashSound
  <2>11. ~CrashInWrite
    BY DEF CrashInWrite
  <2> QED
    BY <1>2, <2>2, <2>3, <2>4, <2>5, <2>6, <2>7, <2>8, <2>9, <2>10, <2>11 DEF Check, Fault
<1>3. CASE UNCHANGED vars
  <2>1. Sound
    BY <1>3 DEF Consistent, vars
  <2> QED
    BY <1>3, <2>1, SoundStutters
<1> QED
  BY <1>1, <1>2, <1>3 DEF Next

\* Whatever is pushed, rewritten, upgraded, enabled, disabled, killed and torn, the
\* files, the walk, the caches, the log and the outputs in flight say the same of
\* every rule: what the next three theorems rest on.
THEOREM ConsistentAlways == Spec => []Consistent
<1>1. Init => RunShape
  BY DEF Init, RunShape
<1>2. Init => Consistent
  <2>1. ASSUME Init PROVE Sound
    <3>1. /\ pc = "idle" /\ ckpt = NoCheckpoint /\ cache = [r \in Rules |-> None]
          /\ file = << >> /\ << >> \in Seq(Event)
      BY <2>1 DEF Init
    <3>2. NoCheckpoint \in Checkpoints
      BY DEF NoCheckpoint, Checkpoints
    <3>3. FilesParse
      BY <3>1, <3>2, FileAssumption, UnreadableAssumption DEF FilesParse, NoCheckpoint
    <3>4. \A r \in Rules : ~HasProcessed(r)
      BY <3>1 DEF HasProcessed, NoCheckpoint
    <3> QED
      BY <3>1, <3>3, <3>4 DEF Sound, WordKept, OthersFresh, WalkConsistent, OutputsWait,
                              RulesConsistent, SavingConsistent, InRun
  <2> QED
    BY <2>1 DEF Consistent
<1>3. RunShape /\ [Next]_vars => RunShape'
  BY NextKeepsRunShape
<1>4. TypeOK /\ RunShape /\ OneHolder /\ Consistent /\ [Next]_vars => Consistent'
  BY NextKeepsConsistent
<1> QED
  BY <1>1, <1>2, <1>3, <1>4, PipelineTypeCorrect, PipelineOneHolder, PTL DEF Spec

LEMMA RunShapeAlways == Spec => []RunShape
<1>1. Init => RunShape
  BY DEF Init, RunShape
<1>2. RunShape /\ [Next]_vars => RunShape'
  BY NextKeepsRunShape
<1> QED
  BY <1>1, <1>2, PTL DEF Spec

-----------------------------------------------------------------------------
(***************************************************************************)
(* What the files are for.                                                 *)
(***************************************************************************)

\* What the checkpoint says of a rule is true of the files: through every order
\* of pushes, rules enabled, disabled and upgraded, backfills, retirements and
\* invalidations, and every death of a process between two writes that does not
\* spoil the files, each rule it names has absorbed every commit up to it exactly
\* once, and the log holds what the rule earned over all of them.
THEOREM CheckpointKeepsItsWordAlways == Spec => []CheckpointKeepsItsWord
<1>1. TypeOK /\ Consistent => CheckpointKeepsItsWord
  <2> SUFFICES ASSUME TypeOK, Consistent, Idle, ~spoiled, NEW r \in Rules, HasProcessed(r)
               PROVE  UpToCheckpoint(r)
    BY DEF CheckpointKeepsItsWord
  <2>1. Sound /\ pc = "idle"
    BY DEF Consistent, Idle
  <2>2. Stands(r) /\ file \in Seq(Event)
    BY <2>1, ClosedStands DEF Sound, FilesParse, TypeOK
  <2>3. Awarded(file, r, Base)
    BY <2>2, AwardedIsEarned DEF Stands
  <2>4. r \in Cached =>
          cache[r] \in {[c \in Commits |-> IF c \in Due(r, Base) THEN 1 ELSE 0]}
                         \cup (IF Due(r, Base) = {} THEN {None} ELSE {})
    BY <2>2 DEF Stands, CacheStands, Once
  <2> QED
    BY <2>3, <2>4 DEF UpToCheckpoint, Base
<1> QED
  BY <1>1, ConsistentAlways, PipelineTypeCorrect, PTL

\* No rule counts a commit twice: not the commits up to the checkpoint it goes on
\* from, not the checkpoint commit itself, not one that two branches lead to.
THEOREM CountedOnceAlways == Spec => []CountedOnce
<1>1. TypeOK /\ RunShape /\ Consistent => CountedOnce
  <2> SUFFICES ASSUME TypeOK, RunShape, Consistent, ~spoiled, ~Overtaken,
                      NEW r \in active, NEW c \in Commits
               PROVE  mem[r][c] <= 1
    BY DEF CountedOnce
  <2>1. Sound /\ r \in Rules
    BY DEF Consistent, TypeOK
  <2>2. \A S : Once(S)[c] <= 1
    BY DEF Once
  <2>3. CASE pc = "caches"
    <3>1. mem[r] = Once(IF r \in Cached THEN Due(r, Reach[head]) ELSE {})
      BY <2>1, <2>3 DEF Sound, SavingConsistent
    <3> QED
      BY <2>2, <3>1
  <2>4. CASE InRun
    <3>1. FilesParse /\ WhoRuns /\ RulesConsistent
      BY <2>1, <2>4 DEF Sound, WalkConsistent
    <3>2. HasProcessed(r) => /\ ckpt.commit # None
                             /\ ckpt.commit \notin seen
      BY <3>1, CheckpointRules DEF WhoRuns
    <3>3. Apart(r)
      BY <3>2 DEF Apart, Base, Overtaken
    <3>4. mem[r] = Once(IF r \in Cached THEN Due(r, Covered(r)) ELSE {})
      BY <2>4, <3>1, <3>3 DEF RulesConsistent
    <3> QED
      BY <2>2, <3>4
  <2> QED
    BY <2>3, <2>4 DEF InRun, RunShape, TypeOK
<1> QED
  BY <1>1, ConsistentAlways, PipelineTypeCorrect, RunShapeAlways, PTL

-----------------------------------------------------------------------------
(***************************************************************************)
(* A run that finds nothing new.                                           *)
(***************************************************************************)

\* No rule has met a commit in this run: nothing waits, and the log is the one
\* that was read, but for the meta-achievement at the end.
NothingNew ==
  ~spoiled /\ InRun /\ seen = {} =>
    /\ pending = {}
    /\ pc # "checkpoint" \/ Settled(file) => log = file

\* The log about to be saved has the meta-achievement where it belongs.
SettledAtEnd == pc \in {"checkpoint", "caches"} => Settled(log)

\* A rule that has met no commit has no better record than the one on disk.
LEMMA NoCandidate ==
  ASSUME TypeOK, Sound, InRun, seen = {}, NEW r \in active, Role[r] = "best"
  PROVE  Candidate(r) = {}
<1>1. /\ FilesParse /\ WordKept /\ OthersFresh /\ WhoRuns /\ RulesConsistent
      /\ r \in Rules /\ r \in enabled /\ pc # "caches"
  BY DEF Sound, WalkConsistent, WhoRuns, TypeOK, InRun
<1>2. r \in Cached /\ Apart(r) /\ r \notin Retired
  BY <1>1 DEF Cached, Apart, Retired
<1> DEFINE old == IF HasProcessed(r) THEN Base ELSE {}
<1>3. old \in SUBSET Commits /\ Covered(r) = old
  BY <1>1, CoveredTyped DEF Covered
<1> HIDE DEF old
<1>4. mem[r] = Once(Due(r, old)) /\ Due(r, old) \in SUBSET Commits
  BY <1>1, <1>2, <1>3 DEF RulesConsistent, Due
<1>5. cache[r] = Once(Due(r, old)) \/ (cache[r] = None /\ Due(r, old) = {})
  <2>1. CASE HasProcessed(r)
    BY <1>1, <1>2, <2>1 DEF WordKept, CacheStands, old
  <2>2. CASE ~HasProcessed(r)
    BY <1>1, <2>2 DEF OthersFresh, Fresh, Due, old
  <2> QED
    BY <2>1, <2>2
<1>6. Record(mem[r]) = Best(Due(r, old)) /\ Record(Once(Due(r, old))) = Record(mem[r])
  BY <1>4, RecordOfOnce
<1>7. Due(r, old) = {} => Best(Due(r, old)) = {}
  BY DEF Best
<1>8. CASE cache[r] = Once(Due(r, old))
  <2>1. cache[r] \in Caches /\ cache[r] # None
    BY <1>4, <1>8, RecordOfOnce, FileAssumption
  <2>2. Record(cache[r]) = Record(mem[r])
    BY <1>6, <1>8
  <2> QED
    BY <2>1, <2>2 DEF Candidate
<1>9. CASE Due(r, old) = {}
  BY <1>6, <1>7, <1>9 DEF Candidate
<1> QED
  BY <1>5, <1>8, <1>9

LEMMA NothingNewStays ==
  ASSUME TypeOK, RunShape, Consistent, NothingNew, [Next]_vars
  PROVE  NothingNew'
<1> SUFFICES ASSUME ~spoiled', InRun', seen' = {}
             PROVE  /\ pending' = {}
                    /\ pc' # "checkpoint" \/ Settled(file') => log' = file'
  BY DEF NothingNew, Settled
<1> DEFINE Goal2 == /\ pending' = {}
                    /\ pc' # "checkpoint" \/ Settled(file') => log' = file'
<1> SUFFICES Goal2
  OBVIOUS
<1>1. CASE UNCHANGED vars
  BY <1>1 DEF NothingNew, vars, world, disk, walk, InRun, Settled
<1>2. CASE World
  BY <1>2 DEF World, Push, Rewrite, Enable, Disable, Upgrade, Reset, Idle, run, InRun
<1>3. CASE Fault
  BY <1>3 DEF Fault, Crash, CrashInWrite, Exit, InRun
<1>4. CASE Check
  <2>1. Sound
    BY <1>4, SpoilingStays DEF Consistent, TypeOK
  <2>2. ASSUME NEW r \in active, InRun, seen = {}, Role[r] = "best"
        PROVE  Candidate(r) = {}
    BY <2>1, <2>2, NoCandidate
  <2>3. ASSUME NEW rs \in SUBSET active, InRun, seen = {} PROVE FinalOutputs(rs) = {}
    BY <2>2, <2>3 DEF FinalOutputs
  <2>4. ~spoiled
    BY <1>4, SpoilingStays DEF TypeOK
  <2>5. ASSUME NEW depth \in Depths, Start(depth) PROVE Goal2
    BY <2>5 DEF Start, InRun
  <2>6. ASSUME NEW r \in Rules, WipeCache(r) \/ SaveCache(r) PROVE Goal2
    BY <2>6 DEF WipeCache, SaveCache, InRun
  <2>7. ASSUME NEW r \in Rules, Retire(r) PROVE Goal2
    <3>1. /\ pc = "retiring" /\ pc' = "retiring" /\ r \in active /\ seen = {}
          /\ pending' = pending \cup FinalOutputs({r})
          /\ UNCHANGED << log, file >>
      <4>1. Unchanged \in SUBSET Rules
        BY DEF Unchanged, TypeOK
      <4>2. r \in Unchanged
        BY <2>7, <4>1, LeastProperties DEF Retire
      <4> QED
        BY <2>7, <4>2 DEF Retire, Unchanged, walk
    <3>2. InRun
      BY <3>1 DEF InRun
    <3> QED
      BY <2>3, <2>4, <3>1, <3>2 DEF NothingNew
  <2>8. PruneLog \/ LoadFails \/ SaveCheckpoint \/ SaveLog => Goal2
    BY DEF PruneLog, LoadFails, SaveCheckpoint, SaveLog, Exit, InRun
  <2>9. Load => Goal2
    BY DEF Load, RunShape, disk
  <2>10. ASSUME NEW c \in frontier, Visit(c) \/ VisitCheckpoint(c) PROVE Goal2
    BY <2>10 DEF Visit, VisitCheckpoint, ProcessCommit
  <2>11. ASSUME NEW c \in frontier, EarlyExit(c) \/ ReachCheckpoint(c) PROVE Goal2
    BY <2>4, <2>11 DEF EarlyExit, ReachCheckpoint, NothingNew, InRun, disk
  <2>12. ASSUME NEW o \in pending, Emit(o) PROVE Goal2
    <3>1. InRun /\ seen = {}
      BY <2>12 DEF Emit, RunShape, InRun, walk
    <3> QED
      BY <2>4, <2>12, <3>1 DEF NothingNew
  <2>13. Finalize => Goal2
    <3>1. ASSUME Finalize
          PROVE  /\ InRun /\ seen = {} /\ pc # "checkpoint" /\ pc' = "evaluating"
                 /\ pending' = FinalOutputs(active)
                 /\ UNCHANGED << log, file >>
      BY <3>1 DEF Finalize, InRun, walk, disk
    <3> QED
      BY <2>3, <2>4, <3>1 DEF NothingNew
  <2>14. EvaluateMeta => Goal2
    <3>1. ASSUME EvaluateMeta
          PROVE  /\ InRun /\ seen = {} /\ pc # "checkpoint" /\ pc' = "checkpoint"
                 /\ pending' = {}
                 /\ UNCHANGED file
      BY <3>1 DEF EvaluateMeta, InRun, walk, disk
    <3>2. ASSUME EvaluateMeta, Settled(file') PROVE log' = file'
      <4>1. log = file /\ file' = file
        BY <2>4, <3>1, <3>2 DEF NothingNew
      <4>2. \A g \in FarmerGrants(log) : Resolve(log, Farmer, g) = log \o << >>
        BY <3>2, <4>1 DEF Settled, Resolve, Resolution
      <4>3. log \o << >> = log
        BY DEF TypeOK
      <4> QED
        BY <3>2, <4>1, <4>2, <4>3 DEF EvaluateMeta
    <3> QED
      BY <3>1, <3>2
  <2> QED
    BY <1>4, <2>5, <2>6, <2>7, <2>8, <2>9, <2>10, <2>11, <2>12, <2>13, <2>14 DEF Check
<1> QED
  BY <1>1, <1>2, <1>3, <1>4 DEF Next

LEMMA SettledAtEndStays ==
  ASSUME TypeOK, RunShape, OneHolder, OneHolder', SettledAtEnd, [Next]_vars
  PROVE  SettledAtEnd'
<1>1. CASE UNCHANGED vars
  BY <1>1 DEF SettledAtEnd, Settled, vars
<1>2. CASE World
  BY <1>2 DEF World, Push, Rewrite, Enable, Disable, Upgrade, Reset, Idle, run, SettledAtEnd
<1>3. CASE Fault
  BY <1>3 DEF Fault, Crash, CrashInWrite, Exit, SettledAtEnd
<1>4. CASE EvaluateMeta
  <2>1. CASE FarmerGrants(log) = {} /\ log' = log
    BY <2>1 DEF SettledAtEnd, Settled
  <2>2. ASSUME NEW g \in FarmerGrants(log), log' = Resolve(log, Farmer, g)
        PROVE  SettledAtEnd'
    <3>1. SingleHolder(log) /\ SingleHolder(Resolve(log, Farmer, g)) /\ log \in Seq(Event)
      BY <2>2 DEF OneHolder, TypeOK
    <3>2. \A h \in FarmerGrants(log') : Suppressed(log', Farmer, h)
      BY <2>2, <3>1, FarmerSettles
    <3> QED
      BY <3>2 DEF SettledAtEnd, Settled
  <2> QED
    BY <1>4, <2>1, <2>2 DEF EvaluateMeta
<1>5. CASE Check /\ ~EvaluateMeta
  <2> DEFINE Keeps == \/ pc' \notin {"checkpoint", "caches"}
                      \/ pc \in {"checkpoint", "caches"} /\ log' = log
  <2>1. ASSUME NEW depth \in Depths, Start(depth) PROVE Keeps
    BY <2>1 DEF Start
  <2>2. ASSUME NEW r \in Rules, WipeCache(r) \/ Retire(r) \/ SaveCache(r) PROVE Keeps
    BY <2>2 DEF WipeCache, Retire, SaveCache
  <2>3. PruneLog \/ Load \/ LoadFails \/ Finalize \/ SaveCheckpoint \/ SaveLog => Keeps
    BY DEF PruneLog, Load, LoadFails, Finalize, SaveCheckpoint, SaveLog, Exit
  <2>4. ASSUME NEW c \in frontier,
               Visit(c) \/ EarlyExit(c) \/ ReachCheckpoint(c) \/ VisitCheckpoint(c)
        PROVE  Keeps
    BY <2>4 DEF Visit, EarlyExit, ReachCheckpoint, VisitCheckpoint, ProcessCommit
  <2>5. ASSUME NEW o \in pending, Emit(o) PROVE Keeps
    BY <2>5 DEF Emit, RunShape
  <2>6. Keeps
    BY <1>5, <2>1, <2>2, <2>3, <2>4, <2>5 DEF Check
  <2> QED
    BY <2>6 DEF SettledAtEnd, Settled
<1> QED
  BY <1>1, <1>2, <1>3, <1>4, <1>5 DEF Next

\* Whatever has happened before, a run in which no rule meets a commit writes back
\* the log it read: the records it finalizes are the ones on disk, nothing is granted
\* again, and the meta-achievement stays where it is.
THEOREM QuietRerunAlways == Spec => []QuietRerun
<1>1. Init => NothingNew /\ SettledAtEnd
  BY DEF Init, NothingNew, SettledAtEnd, InRun
<1>2. TypeOK /\ RunShape /\ Consistent /\ NothingNew /\ [Next]_vars => NothingNew'
  BY NothingNewStays
<1>3. TypeOK /\ RunShape /\ OneHolder /\ OneHolder' /\ SettledAtEnd /\ [Next]_vars => SettledAtEnd'
  BY SettledAtEndStays
<1>4. NothingNew /\ SettledAtEnd => QuietRerun
  BY DEF NothingNew, SettledAtEnd, QuietRerun, InRun
<1> QED
  BY <1>1, <1>2, <1>3, <1>4, ConsistentAlways, PipelineTypeCorrect, PipelineOneHolder,
     RunShapeAlways, PTL DEF Spec
=============================================================================
