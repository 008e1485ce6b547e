---------------------------- MODULE MCObserverEngine ----------------------------
(***************************************************************************)
(* ObserverEngine on a history of six commits.                             *)
(***************************************************************************)
EXTENDS ObserverEngine

\* 1 - 2 - 3 - 5 - 6 with a merge 4 of 3 and 2.
MCParents == <<  <<>>, <<1>>, <<2>>, <<3, 2>>, <<3>>, <<5>>  >>

\* 2 is a CI file in folder 1; 3 is a file; 4 is a submodule.
MCFolder == [f \in Files |-> IF f = 2 THEN 1 ELSE Absent]

\* Blobs 1 and 2 differ in whitespace only.
MCEssence == << 1, 1, 3 >>

\* 1 adds a file, 2 indents it, 3 adds CI and rewrites the file, 5 is empty, and 6
\* indents the CI file and moves the submodule.
MCTree ==
  LET With(ci, file, sub) == [f \in Files |-> CASE f = 2 -> ci [] f = 3 -> file [] f = 4 -> sub]
  IN  << With(Absent, 1, 1), With(Absent, 2, 1), With(1, 3, 1), With(1, 3, 1),
         With(1, 3, 1), With(2, 1, 3) >>

MCRegistered == <<"CiConfig", "Fixup", "EmptyCommit", "WhitespaceOnly", "Subject">>
MCRemarkable == [o \in MessageObservers |-> IF o = "Fixup" THEN {2, 4} ELSE Commits]

MCRawAuthor == [c \in Commits |-> IF c = 2 THEN "jdoe" ELSE "jane"]
MCMailmaps  == << [a \in {"jdoe"} |-> "john"], [a \in {"jdoe", "root"} |-> "jane"],
                  [a \in {"root"} |-> "admin"] >>
=============================================================================
