----------------------------- MODULE MCDeepeningWalk -----------------------------
(***************************************************************************)
(* DeepeningWalk on histories of five commits.                             *)
(***************************************************************************)
EXTENDS DeepeningWalk

Line == <<{}, {1}, {2}, {3}, {4}>>

\* A merge of a short branch with a longer one.
Unequal == <<{}, {1}, {2}, {1}, {3, 4}>>

\* The same, the longer branch newer than the short one.
Late == <<{}, {1}, {1}, {3}, {2, 4}>>

\* Two branches that part early.
Fork == <<{}, {1}, {1}, {2}, {3}>>

MCSetups == {[history |-> Line, tracked |-> "HEAD", depth |-> 2],
             [history |-> Unequal, tracked |-> "HEAD", depth |-> 3],
             [history |-> Unequal, tracked |-> "HEAD", depth |-> 1],
             [history |-> Late, tracked |-> "HEAD", depth |-> 2],
             [history |-> Fork, tracked |-> "dev", depth |-> 1]}

MCLate == {[history |-> Late, tracked |-> "HEAD", depth |-> 2]}
=============================================================================
