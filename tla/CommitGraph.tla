------------------------------ MODULE CommitGraph ------------------------------
(***************************************************************************)
(* What git reaches in a history: h[c] is the set of the parents of c.     *)
(***************************************************************************)
EXTENDS Integers, Sequences, FiniteSets

\* Every commit that can be walked to from S when the parents of those in cut
\* are not looked at.
Visible(h, S, cut) ==
  LET reach[c \in DOMAIN h] ==
        {c} \cup (IF c \in cut THEN {} ELSE UNION {reach[p] : p \in h[c]})
  IN  UNION {reach[c] : c \in S}

Anc(h, S) == Visible(h, S, {})

ParentsOf(h, S) == UNION {h[c] : c \in S}

\* Every commit at most n steps away from S.
Within(h, S, n) ==
  LET near[k \in Nat] ==
        IF k = 0 THEN S ELSE near[k - 1] \cup ParentsOf(h, near[k - 1])
  IN  near[n]

Farthest(h, S, n) == Within(h, S, n) \ IF n = 0 THEN {} ELSE Within(h, S, n - 1)
=============================================================================
