---------------------------- MODULE AchievementHolders ----------------------------
(***************************************************************************)
(* What the achievement log promises, without the log: who holds which     *)
(* achievement now, and who held it when the log was last saved.  An       *)
(* ordinary award never takes a permanent achievement away, a global       *)
(* achievement has at most one holder at every moment, a save keeps what   *)
(* was held, and only a process that dies in a write may leave anything    *)
(* else behind.                                                            *)
(*                                                                         *)
(* AchievementLog implements this specification.                           *)
(***************************************************************************)
EXTENDS Naturals

CONSTANTS
  PerUserAchievements, GlobalAchievements, RevocableAchievements,
  DerivedAchievements,   \* awarded for holding others, forgotten with any of them
  Users

VARIABLES
  live,    \* live[a]: the users who hold achievement a in the open log
  saved,   \* saved[a]: the same for the log on disk
  deaths   \* how many processes ended before their time

vars == << live, saved, deaths >>

Permanent == PerUserAchievements \cup GlobalAchievements
Names     == Permanent \cup RevocableAchievements

Holdings == [Names -> SUBSET Users]

AtMostOne(h) ==
  \A a \in GlobalAchievements \cup RevocableAchievements :
    \A u, v \in h[a] : u = v

Nobody == [a \in Names |-> {}]

Init == live = Nobody /\ saved = Nobody /\ deaths = 0

\* A per-user achievement goes to one more user.
AwardPerUser(a, u) ==
  /\ a \in PerUserAchievements
  /\ live' = [live EXCEPT ![a] = @ \cup {u}]
  /\ UNCHANGED << saved, deaths >>

\* A global achievement goes to its first holder, and to nobody after that.
AwardFirst(a, u) ==
  /\ a \in GlobalAchievements
  /\ live[a] = {}
  /\ live' = [live EXCEPT ![a] = {u}]
  /\ UNCHANGED << saved, deaths >>

\* A revocable achievement moves to its new holder.
Transfer(a, u) ==
  /\ a \in RevocableAchievements
  /\ live' = [live EXCEPT ![a] = {u}]
  /\ UNCHANGED << saved, deaths >>

Open == live' = saved /\ UNCHANGED << saved, deaths >>

\* The log is saved in full.
Save == saved' = live /\ live' = Nobody /\ UNCHANGED deaths

\* A version bump forgets achievements, for every user, and what derives from them.
Forget ==
  /\ \E as \in SUBSET Names :
       saved' = [a \in Names |-> IF a \in as \cup DerivedAchievements THEN {} ELSE saved[a]]
  /\ UNCHANGED << live, deaths >>

\* All is started over.
Discard == saved' = Nobody /\ UNCHANGED << live, deaths >>

-----------------------------------------------------------------------------
Dies == deaths' = deaths + 1

\* What is held in memory is lost, and what was saved stays.
Close == Dies /\ live' = Nobody /\ UNCHANGED saved

\* What a write that stops part-way leaves of h: of the permanent achievements
\* nothing that h did not have, and of a revocable one a holder, perhaps an
\* earlier one.
Remains(h) ==
  {k \in Holdings : AtMostOne(k) /\ \A a \in Permanent : k[a] \subseteq h[a]}

SaveInterrupted == Dies /\ saved' \in Remains(live) /\ live' = Nobody

ForgetInterrupted ==
  /\ Dies
  /\ saved' \in Remains(saved)
  /\ \A a \in DerivedAchievements : saved'[a] = {}
  /\ UNCHANGED live

Next ==
  \/ \E a \in Names, u \in Users : \/ AwardPerUser(a, u)
                                   \/ AwardFirst(a, u)
                                   \/ Transfer(a, u)
  \/ Open
  \/ Save
  \/ Forget
  \/ Discard
  \/ Close
  \/ SaveInterrupted
  \/ ForgetInterrupted

Spec == Init /\ [][Next]_vars
=============================================================================
