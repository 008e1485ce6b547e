--------------------------------- MODULE MCPipeline ---------------------------------
(***************************************************************************)
(* Pipeline on small instances: three rules, one of each role, and short   *)
(* histories by two authors.                                               *)
(***************************************************************************)
EXTENDS Pipeline

\* H001 fixup, H002 shortest-subject-line, H009 like-a-sailor; H011 is the farmer.
MCRules   == {1, 2, 9}
MCTwoRules == {2, 9}
MCKindOf  == [r \in Rules |-> CASE r = 1 -> "PerUser"
                                  [] r = 2 -> "GlobalRevocable"
                                  [] r = 9 -> "PerUserRecurrent"]
MCRole    == [r \in Rules |-> CASE r = 1 -> "match" [] r = 2 -> "best" [] r = 9 -> "count"]
MCAuthor  == [c \in Commits |-> IF c = 2 THEN 2 ELSE 1]

MCFirstVersion == [r \in Rules |-> 1]

\* Rule 2 stays at its last version, next to rules that are upgraded.
MCLastVersionOf2 == [r \in Rules |-> IF r = 2 THEN 2 ELSE 1]

\* Version 2 of the fixup rule reacts to fewer commits, of the count rule to more.
MCMatches ==
  [r \in Rules |-> [v \in Versions |->
     CASE r = 1 -> IF v = 1 THEN {1, 2} ELSE {2}
       [] r = 2 -> Commits
       [] r = 9 -> IF v = 1 THEN {1, 3} \cap Commits ELSE {1, 3, 4} \cap Commits]]

\* Commit 2 has the shortest subject, then 3, then 1.
MCScore == [c \in Commits |-> CASE c = 1 -> 8 [] c = 2 -> 3 [] c = 3 -> 5 [] OTHER -> 9]

\* A line of commits.
Line == [c \in Commits |-> IF c = 1 THEN {} ELSE {c - 1}]

\* 4 merges 2 and 3, two branches from 1.
Diamond == [c \in Commits |-> CASE c = 1 -> {} [] c = 4 -> {2, 3} [] OTHER -> {1}]

\* 3 merges 1 and 2, two histories without a common commit.
Fork == [c \in Commits |-> IF c = 3 THEN {1, 2} ELSE {}]
=============================================================================
