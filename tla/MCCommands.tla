------------------------------- MODULE MCCommands -------------------------------
(***************************************************************************)
(* Commands with two repositories, two authors who share a name, and a     *)
(* third whose name is the numbered form of it; and with an edit that      *)
(* upgrades a rule, keeps one, and disables one for another.               *)
(***************************************************************************)
EXTENDS Commands, TLC

MCKinds == [champion |-> "GlobalRevocable", sailor |-> "PerUserRecurrent",
            palindrome |-> "PerUser", poet |-> "PerUser"]
MCEditions == <<{<<"champion", 1>>, <<"sailor", 1>>, <<"palindrome", 1>>},
                {<<"champion", 2>>, <<"sailor", 1>>, <<"poet", 1>>}>>

MCAuthorOf == <<<<1, 2>>, <<3>>>>
MCNameOf   == <<<<"ann", "ann">>, <<"ann 2">>>>
MCAsks     == <<{"champion"} \X {1, 2}, {<<"palindrome", 1>>}>>
MCSlugify  == [ann |-> <<"ann">>] @@ ("ann 2" :> <<"ann", 2>>)
MCMaxCommits == <<2, 1>>
MCMaxEvents  == <<2, 1>>
MCBroken   == {{}, {2}}
=============================================================================
