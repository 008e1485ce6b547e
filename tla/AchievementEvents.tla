---------------------------- MODULE AchievementEvents ----------------------------
(***************************************************************************)
(* The value of an achievement log: a sequence of grant and revoke events, *)
(* and the scans and the resolution AchievementLog computes over it.       *)
(* (herostratus/src/achievement/achievement_log.rs, meta.rs and            *)
(* meta_achievements.rs.)  The loops of the code are stated by what they   *)
(* return; MCAchievementLog compares each with the loop itself.            *)
(*                                                                         *)
(* An event keeps the fields the semantics reads or copies: what happened, *)
(* to which achievement, for which user, and the commit that earned it.    *)
(* Timestamps, display names and overrides are carried along unread.       *)
(***************************************************************************)
EXTENDS Integers, Sequences, FiniteSets, Enumeration

CONSTANTS
  Achievements,      \* the achievements of rules (Meta::human_id)
  Farmer,            \* the meta-achievement "achievement-farmer"
  KindOf,            \* the AchievementKind of each rule achievement
  Users,             \* author e-mails; numbers, so that they have an order
  Commits,           \* object ids
  FewContributors,   \* 2 in the code: farmer needs strictly more contributors
  FewGrants,         \* 10 in the code: and strictly more active grants
  FewForLeader,      \* 5 in the code: and a leader with strictly more
  Unreadable         \* what is left of a log file whose write stopped inside a row

\* AchievementKind: PerUser { recurrent } and Global { revocable }.
Kinds == {"PerUser", "PerUserRecurrent", "Global", "GlobalRevocable"}

ASSUME KindAssumption == KindOf \in [Achievements -> Kinds]
ASSUME FarmerAssumption == Farmer \notin Achievements
ASSUME UserAssumption == Users \subseteq Nat
ASSUME ThresholdAssumption ==
  /\ FewContributors \in Nat
  /\ FewGrants \in Nat
  /\ FewForLeader \in Nat

MetaAchievements == {Farmer}
AllAchievements  == Achievements \cup MetaAchievements

Kind(a) == IF a = Farmer THEN "GlobalRevocable" ELSE KindOf[a]

Event == [event  : {"grant", "revoke"},
          ach    : AllAchievements,
          user   : Users,
          commit : Commits]

ASSUME UnreadableAssumption == Unreadable \notin Seq(Event)

\* What a rule asks for: Grant { user_email, commit, .. }.
Grant == [user : Users, commit : Commits]

IsGrant(e, a)  == e.event = "grant" /\ e.ach = a
IsRevoke(e, a) == e.event = "revoke" /\ e.ach = a
IsFor(e, a, u) == e.ach = a /\ e.user = u

-----------------------------------------------------------------------------
(***************************************************************************)
(* The scans.  Each names events by their index.                           *)
(***************************************************************************)

\* No later event takes the grant at index i back.
NotRevokedAfter(log, i) ==
  \A j \in DOMAIN log :
    j > i => ~(IsRevoke(log[j], log[i].ach) /\ log[j].user = log[i].user)

\* active_grants: the grants with no later revocation of the same achievement
\* and user.
ActiveGrants(log) ==
  {i \in DOMAIN log : log[i].event = "grant" /\ NotRevokedAfter(log, i)}

\* is_granted_to: the last event for this achievement and user is a grant.
IsGrantedTo(log, a, u) ==
  \E i \in DOMAIN log :
    /\ IsFor(log[i], a, u)
    /\ log[i].event = "grant"
    /\ NotRevokedAfter(log, i)

\* current_holder: the last grant of the achievement to anyone, provided no later
\* event revokes it.  An earlier grant is no holder, even if nothing revoked it.
IsHolder(log, a, i) ==
  /\ IsGrant(log[i], a)
  /\ \A j \in DOMAIN log : j > i => ~IsGrant(log[j], a)
  /\ NotRevokedAfter(log, i)

Holders(log, a) == {i \in DOMAIN log : IsHolder(log, a, i)}
HasHolder(log, a) == Holders(log, a) # {}
HolderUser(log, a) == log[CHOOSE i \in Holders(log, a) : TRUE].user

-----------------------------------------------------------------------------
(***************************************************************************)
(* Resolving a grant.                                                      *)
(***************************************************************************)

GrantEvent(a, g) ==
  [event |-> "grant", ach |-> a, user |-> g.user, commit |-> g.commit]

\* Mutant: record_revocation compares e-mails only.
LatestGrantOfUser(log, a, u) ==
  CHOOSE i \in DOMAIN log :
    /\ log[i].event = "grant" /\ log[i].user = u
    /\ \A j \in DOMAIN log : j > i => ~(log[j].event = "grant" /\ log[j].user = u)

\* The grant record_revocation finds, scanning from the back.
LatestGrant(log, a, u) ==
  CHOOSE i \in DOMAIN log :
    /\ IsGrant(log[i], a) /\ log[i].user = u
    /\ \A j \in DOMAIN log : j > i => ~(IsGrant(log[j], a) /\ log[j].user = u)

\* record_revocation copies the commit and user of the grant it takes back.
Revocation(log, a, u) ==
  [event |-> "revoke", ach |-> a, user |-> u,
   commit |-> log[LatestGrant(log, a, u)].commit]

\* Mutant: a Global achievement is deduplicated per user instead of globally.
SuppressedPerUser(log, a, g) ==
  Kind(a) \in {"PerUser", "Global", "GlobalRevocable"}
    /\ IsGrantedTo(log, a, g.user)

\* Mutant: the holder of a revocable achievement is granted it again.
SuppressedNotRevocable(log, a, g) ==
  \/ Kind(a) = "PerUser" /\ IsGrantedTo(log, a, g.user)
  \/ Kind(a) = "Global" /\ HasHolder(log, a)

\* Mutant: a PerUser achievement is never suppressed.
SuppressedGlobalOnly(log, a, g) ==
  \/ /\ Kind(a) = "Global"
     /\ HasHolder(log, a)
  \/ /\ Kind(a) = "GlobalRevocable"
     /\ HasHolder(log, a)
     /\ HolderUser(log, a) = g.user

\* resolve returns None: the user, or for a Global achievement anyone, has it.
Suppressed(log, a, g) ==
  \/ /\ Kind(a) = "PerUser"
     /\ IsGrantedTo(log, a, g.user)
  \/ /\ Kind(a) = "Global"
     /\ HasHolder(log, a)
  \/ /\ Kind(a) = "GlobalRevocable"
     /\ HasHolder(log, a)
     /\ HolderUser(log, a) = g.user

\* Mutant: a grant to a new holder does not take the old holder's grant back.
NeverSupersedes(log, a) == FALSE

\* resolve finds another holder of a revocable achievement.
Supersedes(log, a) == Kind(a) = "GlobalRevocable" /\ HasHolder(log, a)

\* resolve: the events it appends, which are also the ones it reports, the
\* revocation before the grant.
Resolution(log, a, g) ==
  IF Suppressed(log, a, g) THEN << >>
  ELSE IF Supersedes(log, a)
       THEN << Revocation(log, a, HolderUser(log, a)), GrantEvent(a, g) >>
       ELSE << GrantEvent(a, g) >>

Resolve(log, a, g) == log \o Resolution(log, a, g)

\* retain, as apply_invalidation calls it: the rows of the given achievements
\* and every meta-achievement row go, the others keep their order.
KeptRows(log, as) == {i \in DOMAIN log : log[i].ach \notin as \cup MetaAchievements}

Pruned(log, as) ==
  LET kept == KeptRows(log, as)
  IN  [k \in 1..Cardinality(kept) |-> log[NthOf(kept, k)]]

\* AchievementLog::save truncates the file and then writes it: a write stopped
\* part-way leaves the first rows, or a row cut short, which does not load.
CutShort(log) == {SubSeq(log, 1, n) : n \in 0..Len(log)} \cup {Unreadable}

-----------------------------------------------------------------------------
(***************************************************************************)
(* The meta-achievement, evaluated over the active grants of rules.        *)
(***************************************************************************)

\* Mutant: grants of meta-achievements count towards the meta-achievement.
CountedWithMeta(log) == ActiveGrants(log)

Counted(log) == {i \in ActiveGrants(log) : log[i].ach \notin MetaAchievements}

CountOf(log, u) == Cardinality({i \in Counted(log) : log[i].user = u})

Contributors(log) == {log[i].user : i \in Counted(log)}

\* achievement_farmer grants to u: most counted grants, the first e-mail on a tie.
Farms(log, u) ==
  /\ Cardinality(Contributors(log)) > FewContributors
  /\ Cardinality(Counted(log)) > FewGrants
  /\ u \in Contributors(log)
  /\ CountOf(log, u) > FewForLeader
  /\ \A v \in Contributors(log) \ {u} :
       \/ CountOf(log, v) < CountOf(log, u)
       \/ CountOf(log, v) = CountOf(log, u) /\ u < v

\* The commit of the leader's latest counted grant.
IsLatestCounted(log, u, i) ==
  /\ i \in Counted(log) /\ log[i].user = u
  /\ \A j \in Counted(log) : log[j].user = u => j <= i

\* The grants evaluate() may return: one at most.
FarmerGrants(log) ==
  {g \in Grant : /\ Farms(log, g.user)
                 /\ \E i \in Counted(log) : /\ IsLatestCounted(log, g.user, i)
                                            /\ log[i].commit = g.commit}

-----------------------------------------------------------------------------
(***************************************************************************)
(* What a log should look like.                                            *)
(***************************************************************************)

GlobalKinds == {"Global", "GlobalRevocable"}
GlobalOnes  == {a \in AllAchievements : Kind(a) \in GlobalKinds}

\* The active grants of a global achievement are its one holder's.
SingleHolder(l) ==
  \A a \in GlobalOnes :
    LET active == {i \in ActiveGrants(l) : l[i].ach = a}
    IN  /\ active = Holders(l, a)
        /\ \A i, j \in active : i = j

\* Between two grants of a global achievement there is a revocation of the first.
Alternates(l) ==
  \A a \in GlobalOnes : \A i, j \in DOMAIN l :
    i < j /\ IsGrant(l[i], a) /\ IsGrant(l[j], a) =>
      \E k \in (i + 1)..(j - 1) : IsRevoke(l[k], a) /\ l[k].user = l[i].user
=============================================================================
