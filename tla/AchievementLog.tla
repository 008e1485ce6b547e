------------------------------ MODULE AchievementLog ------------------------------
(***************************************************************************)
(* The life of one repository's achievement log                            *)
(* (achievement/achievement_log.rs): it is loaded from its CSV file, rules *)
(* and the meta-achievement resolve grants through it, and it is written   *)
(* back in full; a version bump prunes it on disk before it is opened.     *)
(* Any rule may ask for any grant at any time, so what holds here holds    *)
(* for every set of rules.                                                 *)
(***************************************************************************)
EXTENDS AchievementEvents

CONSTANTS
  Asks,         \* what rules may ask for: pairs of an achievement and a grant
  MaxEvents,    \* bound: no grant is resolved once the log is this long; 0: none
  MaxDeaths     \* bound: on the processes that end before their time

ASSUME AskAssumption == Asks \subseteq Achievements \X Grant
ASSUME BoundAssumption == MaxEvents \in Nat /\ MaxDeaths \in Nat

VARIABLES
  file,    \* export/events/<repo>.csv; no file and an empty one load alike
  log,     \* AchievementLog::events of the running process
  phase,   \* "closed", "open" for rules, "evaluated" once meta ran
  deaths   \* how many processes ended before their time

vars == << file, log, phase, deaths >>

TypeOK ==
  /\ file \in Seq(Event) \cup {Unreadable}
  /\ log \in Seq(Event)
  /\ phase \in {"closed", "open", "evaluated"}
  /\ deaths \in 0..MaxDeaths

Init ==
  /\ file = << >>
  /\ log = << >>
  /\ phase = "closed"
  /\ deaths = 0

\* Mutant: a row that does not parse is ignored and the file taken as it is.
LoadUnchecked ==
  /\ phase = "closed"
  /\ log' = file
  /\ phase' = "open"
  /\ UNCHANGED << file, deaths >>

\* AchievementLog::load.  A row that does not parse is an error: the run ends.
Load ==
  /\ phase = "closed"
  /\ file # Unreadable
  /\ log' = file
  /\ phase' = "open"
  /\ UNCHANGED << file, deaths >>

\* emit: one output of a rule is resolved.
GrantTo(a, g) ==
  /\ phase = "open"
  /\ MaxEvents = 0 \/ Len(log) < MaxEvents
  /\ log' = Resolve(log, a, g)
  /\ UNCHANGED << file, phase, deaths >>

\* meta_achievements::evaluate and the emit of what it returned.
EvaluateMeta ==
  /\ phase = "open"
  /\ \/ \E g \in FarmerGrants(log) : log' = Resolve(log, Farmer, g)
     \/ FarmerGrants(log) = {} /\ UNCHANGED log
  /\ phase' = "evaluated"
  /\ UNCHANGED << file, deaths >>

\* Mutant: save writes the rows of this run only, over the others.
SaveNewRows ==
  /\ phase = "evaluated"
  /\ file' = SubSeq(log, Len(file) + 1, Len(log))
  /\ log' = << >>
  /\ phase' = "closed"
  /\ UNCHANGED deaths

\* AchievementLog::save writes every event; the process then ends.
Save ==
  /\ phase = "evaluated"
  /\ file' = log
  /\ log' = << >>
  /\ phase' = "closed"
  /\ UNCHANGED deaths

Dies == deaths < MaxDeaths /\ deaths' = deaths + 1

\* The process dies while it saves.
SaveCutShort ==
  /\ phase = "evaluated"
  /\ Dies
  /\ file' \in CutShort(log)
  /\ log' = << >>
  /\ phase' = "closed"

\* The process dies, or returns an error, before it saves or even loads.
Abandon ==
  /\ Dies
  /\ log' = << >>
  /\ phase' = "closed"
  /\ UNCHANGED file

\* apply_invalidation: load, retain, save, on the file.
Prune(as) ==
  /\ phase = "closed"
  /\ file # Unreadable
  /\ file' = Pruned(file, as)
  /\ UNCHANGED << log, phase, deaths >>

PruneCutShort(as) ==
  /\ phase = "closed"
  /\ file # Unreadable
  /\ Dies
  /\ file' \in CutShort(Pruned(file, as))
  /\ UNCHANGED << log, phase >>

\* The operator deletes the log: one that no longer loads, or to start over.
Discard ==
  /\ phase = "closed"
  /\ file' = << >>
  /\ UNCHANGED << log, phase, deaths >>

Next ==
  \/ Load
  \/ \E ask \in Asks : GrantTo(ask[1], ask[2])
  \/ EvaluateMeta
  \/ Save
  \/ SaveCutShort
  \/ Abandon
  \/ \E as \in (SUBSET Achievements) \ {{}} : Prune(as) \/ PruneCutShort(as)
  \/ Discard

Spec == Init /\ [][Next]_vars

-----------------------------------------------------------------------------
(***************************************************************************)
(* Safety.                                                                 *)
(***************************************************************************)

\* At most one user holds a global achievement, and the two scans that look
\* for that user agree: current_holder, which resolve() trusts, and
\* active_grants, which the meta-achievement and the exports trust.  Holds of
\* the log in memory and of every file a run, a pruning or an interrupted write
\* can leave behind.
OneActiveHolder == SingleHolder(log) /\ (file # Unreadable => SingleHolder(file))

\* Between two grants of a global achievement there is a revocation of the
\* first, in every log and in every prefix of one: what makes OneActiveHolder
\* survive a write that stops anywhere.
RevokedBeforeRegrant == Alternates(log) /\ (file # Unreadable => Alternates(file))

\* A revocation row takes back the very grant that was active when it was
\* written: same user, same commit, and no other row of the achievement between
\* the two.  record_revocation looks for that grant by e-mail, with a scan of its
\* own, in a log where the same user may have held it several times.
RevocationsMatch(l) ==
  \A i \in DOMAIN l :
    l[i].event = "revoke" =>
      \E j \in 1..(i - 1) :
        /\ l[j] = [l[i] EXCEPT !.event = "grant"]
        /\ \A k \in (j + 1)..(i - 1) : l[k].ach # l[i].ach

RevocationsTakeBackTheActiveGrant ==
  /\ RevocationsMatch(log)
  /\ file # Unreadable => RevocationsMatch(file)

\* Nobody earns a non-recurrent per-user achievement twice, and a permanent
\* global one is granted once ever, however many runs saved, lost or pruned
\* parts of the log.
GrantedOnce ==
  \A l \in {log} \cup ({file} \ {Unreadable}) :
    \A i, j \in DOMAIN l :
      /\ l[i].event = "grant" /\ l[j].event = "grant"
      /\ l[i].ach = l[j].ach
      /\ \/ Kind(l[i].ach) = "Global"
         \/ Kind(l[i].ach) = "PerUser" /\ l[i].user = l[j].user
      => i = j

\* The rule achievements u holds, counted over the log itself.
Standing(u) ==
  Cardinality({i \in DOMAIN log :
                 /\ log[i].event = "grant" /\ log[i].user = u
                 /\ log[i].ach \in Achievements
                 /\ ~ \E j \in (i + 1)..Len(log) :
                        log[j] = [log[i] EXCEPT !.event = "revoke"]})

\* Once the meta-achievement is evaluated, it belongs to the user with the
\* highest standing, if the thresholds are met: having just been granted, moved
\* or kept does not itself change who should hold it.
FarmerLeads ==
  LET standing == [u \in Users |-> Standing(u)]
      earners  == {u \in Users : standing[u] > 0}
      most     == {u \in earners : \A v \in earners : standing[v] <= standing[u]}
      held     == Cardinality({i \in ActiveGrants(log) : log[i].ach # Farmer})
  IN  \A u \in most :
        /\ phase = "evaluated"
        /\ Cardinality(earners) > FewContributors
        /\ held > FewGrants
        /\ standing[u] > FewForLeader
        /\ \A v \in most : u <= v
        => \E i \in ActiveGrants(log) : IsFor(log[i], Farmer, u)

-----------------------------------------------------------------------------
(***************************************************************************)
(* The log implements AchievementHolders: who holds an achievement is read *)
(* off the active grants.                                                  *)
(***************************************************************************)

HoldersOf(l) ==
  [a \in AllAchievements |-> {l[i].user : i \in {k \in ActiveGrants(l) : l[k].ach = a}}]

Abstract == INSTANCE AchievementHolders WITH
  PerUserAchievements   <- {a \in AllAchievements : Kind(a) \notin GlobalKinds},
  GlobalAchievements    <- {a \in AllAchievements : Kind(a) = "Global"},
  RevocableAchievements <- {a \in AllAchievements : Kind(a) = "GlobalRevocable"},
  DerivedAchievements   <- MetaAchievements,
  Users <- Users,
  live  <- HoldersOf(log),
  saved <- HoldersOf(IF file = Unreadable THEN << >> ELSE file)

\* Every run of the log is a run of AchievementHolders: ordinary grants never
\* take a permanent achievement from anyone, a revocable one passes from holder
\* to holder in one step, a save makes exactly the live holdings durable, and a
\* pruning forgets whole achievements with the meta-achievement.  Only a process
\* that dies in a write leaves less, and then no permanent achievement that
\* nobody had: truncating the rows of a log can bring no one back.
ImplementsHolders == Abstract!Spec
=============================================================================
