------------------------------ MODULE MCRuleEngine ------------------------------
(***************************************************************************)
(* RuleEngine with groups of rules that read the same observations, each   *)
(* with the commits that matter to it.                                     *)
(***************************************************************************)
EXTENDS RuleEngine

Subjects == {2, 3, 19}
Swearing == {7, 8, 9, 10}
Fortunes == {13}
Shapes   == {5, 15, 16, 17, 18}
Messages == {1, 4, 6, 12, 14}

MCFocuses == {Subjects, Swearing, Fortunes, Shapes, Messages}

Plain == [author |-> 1, kinds |-> {}, length |-> 4, topic |-> 1, parents |-> 1,
          swears |-> 0, quine |-> 0, tokens |-> <<>>]

Token(c) == [length |-> 7, names |-> c]

MCFacts ==
  [rules \in MCFocuses |->
    CASE rules = Subjects ->
           {[Plain EXCEPT !.author = (n % 2) + 1, !.length = n, !.topic = n % 5] :
              n \in {1, 2, 6, 7}}
      [] rules = Swearing ->
           {[Plain EXCEPT !.author = u, !.swears = n] : u \in Users, n \in 1 .. 2} \cup {Plain}
      [] rules = Fortunes ->
           {[Plain EXCEPT !.tokens = s] :
              s \in {<<>>, <<[length |-> 3, names |-> 4]>>, <<Token(1), Token(4)>>}
                     \cup {<<Token(c)>> : c \in 2 .. 4}}
      [] rules = Shapes ->
           {[Plain EXCEPT !.parents = n, !.kinds = k] :
              n \in {0, 1}, k \in {{}, {"EmptyCommit"}}}
           \cup {[Plain EXCEPT !.parents = n] : n \in {3, 8}}
      [] rules = Messages ->
           {[Plain EXCEPT !.kinds = k] : k \in {{}, {"Fixup", "CiConfig"}, {"WhitespaceOnly"}}}
           \cup {[Plain EXCEPT !.kinds = {"NonUnicodeMessage"}, !.quine = q] : q \in {5, 7}}]
=============================================================================
