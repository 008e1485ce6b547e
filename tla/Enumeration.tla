------------------------------- MODULE Enumeration -------------------------------
(***************************************************************************)
(* A finite set of numbers as a list: what a loop over the elements of a   *)
(* set in their order meets first, second and so on; and what such loops   *)
(* make of lists.  The community modules have most of this; these forms    *)
(* are the ones the provers can reason about.                              *)
(***************************************************************************)
EXTENDS Integers, FiniteSets, Sequences

RankIn(S, i) == Cardinality({j \in S : j <= i})
NthOf(S, k)  == CHOOSE i \in S : RankIn(S, i) = k
ListOf(S)    == [k \in 1 .. Cardinality(S) |-> NthOf(S, k)]

FirstOf(S) == CHOOSE i \in S : \A j \in S : i <= j
LastOf(S)  == CHOOSE i \in S : \A j \in S : j <= i

\* What stands in list s at the positions in S.
Part(s, S) == [k \in 1 .. Cardinality(S) |-> s[NthOf(S, k)]]

\* The first n of the lists in parts end to end; and all of them.
JoinedUpTo(parts) ==
  LET upTo[n \in 0 .. Len(parts)] == IF n = 0 THEN <<>> ELSE upTo[n - 1] \o parts[n]
  IN  upTo
Joined(parts) == JoinedUpTo(parts)[Len(parts)]
=============================================================================
