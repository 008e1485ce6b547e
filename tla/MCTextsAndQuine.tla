----------------------------- MODULE MCTextsAndQuine -----------------------------
(***************************************************************************)
(* ObserverTexts over a small alphabet and with small limits, and          *)
(* QuineSearch with binary digits and three threads.  They share nothing:  *)
(* a behaviour either types texts or searches.                             *)
(***************************************************************************)
EXTENDS ObserverTexts, QuineSearch

MCLower == [c \in {"a", "A", "1", "g", "-"} |-> IF c = "A" THEN "a" ELSE c]

\* Swearwords of a plain letter, of leet-speak, and one that is allowed.
MCSwearwords == {<<"g", "a">>, <<"g", "1">>, <<"g", "g">>}
MCAllowed    == {<<"g", "g">>}

MCHash == <<"a", "1", "1", "a">>

\* L starts a character of two bytes (L s is U+0085, a space; L e is a letter),
\* M one of three (M s e is a space), s and e only continue one.
MCWidth     == [b \in {"L", "M", "s", "e"} |-> CASE b = "L" -> 2 [] b = "M" -> 3 [] OTHER -> 0]
MCUtf8      == {<<"L", "s">>, <<"L", "e">>, <<"M", "s", "e">>, <<"M", "e", "e">>}
MCUtf8Blank == {<<"L", "s">>, <<"M", "s", "e">>}

Fields(n) == [1 .. n -> {0, 1}]

\* The hash of a field begins with the field but for one digit, unless it is one
\* of at most two that match.
HashWith(n, matching, digit) ==
  [f \in Fields(n) |->
     LET d == [i \in 1 .. 4 |-> IF i > n THEN 0
                                ELSE IF i = digit /\ f \notin matching THEN 1 - f[i] ELSE f[i]]
     IN  <<2 * d[1] + d[2], 2 * d[3] + d[4]>>]

MCHashes == [n \in {2, 3, 4} |->
  {HashWith(n, {f, g}, digit) : f \in Fields(n), g \in Fields(n), digit \in {1, n}}
    \cup {HashWith(n, {}, digit) : digit \in {1, n}}]

\* Targets that are right, too short, and not in lower case; there is no match for
\* some of the hashes.
MCTargets == {Nothing, <<1, 0, 1>>, <<1>>, <<NotLowerHex, 1>>}

MCInit == TextInit /\ SearchInit

MCNext == \/ stage = "start" /\ TextNext /\ UNCHANGED searchVars
          \/ text = <<>> /\ left = <<>> /\ right = <<>> /\ SearchNext /\ UNCHANGED textVars

MCSpec == MCInit /\ [][MCNext]_<<textVars, searchVars>>
=============================================================================
