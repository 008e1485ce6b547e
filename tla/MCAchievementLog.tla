----------------------------- MODULE MCAchievementLog -----------------------------
(***************************************************************************)
(* AchievementLog on a small instance, and the scans of AchievementEvents  *)
(* compared with the loops of the code over every short log.               *)
(***************************************************************************)
EXTENDS AchievementLog

F == INSTANCE SequencesExt

\* One achievement of each kind.
MCAchievements == {"fixup", "sailor", "first", "shortest"}
MCKindOf ==
  [a \in MCAchievements |->
     CASE a = "fixup"    -> "PerUser"
       [] a = "sailor"   -> "PerUserRecurrent"
       [] a = "first"    -> "Global"
       [] a = "shortest" -> "GlobalRevocable"]

By(u, c) == [user |-> u, commit |-> c]

\* User 1 wrote c1 and c2, user 2 wrote c3.
MCAsks ==
  {<< "fixup", By(1, "c1") >>, << "fixup", By(1, "c2") >>, << "fixup", By(2, "c3") >>,
   << "sailor", By(1, "c2") >>,
   << "first", By(1, "c1") >>, << "first", By(2, "c3") >>,
   << "shortest", By(1, "c1") >>, << "shortest", By(1, "c2") >>,
   << "shortest", By(2, "c3") >>}

-----------------------------------------------------------------------------
\* The loops of is_granted_to, current_holder, active_grants and retain, as written.

LoopIsGrantedTo(l, a, u) ==
  LET step(granted, e) == IF IsFor(e, a, u) THEN e.event = "grant" ELSE granted
  IN  F!FoldLeft(step, FALSE, l)

LoopHolder(l, a) ==
  LET step(holder, i) ==
        IF l[i].ach # a THEN holder
        ELSE IF l[i].event = "grant" THEN i
        ELSE IF holder # 0 /\ l[i].user = l[holder].user THEN 0
        ELSE holder
  IN  F!FoldLeft(step, 0, [i \in DOMAIN l |-> i])

LoopActive(l) ==
  LET step(active, i) ==
        IF l[i].event = "grant" THEN active \cup {i}
        ELSE {g \in active : ~(l[g].ach = l[i].ach /\ l[g].user = l[i].user)}
  IN  F!FoldLeft(step, {}, [i \in DOMAIN l |-> i])

LoopRetain(l, as) ==
  SelectSeq(l, LAMBDA e : e.ach \notin as \cup MetaAchievements)

\* Any rows at all, not only those a run writes.
SomeEvents == [event : {"grant", "revoke"}, ach : {"sailor", "shortest"},
               user : {1, 2}, commit : {"c1"}]

\* The scans compute what the loops compute.
ASSUME ScansAreTheLoops ==
  \A l \in F!BoundedSeq(SomeEvents, 4) :
    /\ ActiveGrants(l) = LoopActive(l)
    /\ Pruned(l, {"sailor"}) = LoopRetain(l, {"sailor"})
    /\ \A a \in {"sailor", "shortest"} :
         /\ Holders(l, a) = {LoopHolder(l, a)} \ {0}
         /\ \A u \in {1, 2} : IsGrantedTo(l, a, u) = LoopIsGrantedTo(l, a, u)
=============================================================================
