----------------------------- MODULE MCReplies -----------------------------
(* What the shop's assistant says and what stands behind it, in one run:   *)
(* under its posts (Comments), in one reply of a turn (ReplyPictures), and *)
(* in the calls to the model that either is made of (ModelCalls).  The     *)
(* three models share no variable: a behaviour is one of one of them.      *)
EXTENDS MCComments, ReplyPictures, ModelCalls

VARIABLE scene      \* which of the three moves

\* The two that do not move start in one state each.
OneOfThreeInit ==
    /\ Init /\ PicturesInit /\ CallsInit
    /\ scene \in {"posts", "a reply", "calls"}
    /\ scene # "posts" => aloud /\ dms
    /\ scene # "calls" => config = [vendor |-> "openrouter", named |-> TRUE]

OneOfThreeNext ==
    /\ CASE scene = "posts"   -> Next /\ UNCHANGED <<picturesVars, callsVars>>
         [] scene = "a reply" -> PicturesNext /\ UNCHANGED <<vars, callsVars>>
         [] scene = "calls"   -> CallsNext /\ UNCHANGED <<vars, picturesVars>>
    /\ UNCHANGED scene

OneOfThree == OneOfThreeInit /\ [][OneOfThreeNext]_<<vars, picturesVars, callsVars, scene>>

\* A tee in two colours with a size chart, and a cap in one without.
TwoProducts == [tee |-> <<"black", "olive">>, cap |-> <<"black">>]
AllInStock == [tee |-> {"black", "olive"}, cap |-> {"black"}]

Asks == {{}, {"photos"}, {"sizing"}, {"photos", "sizing"}, {"colours"}, {"theirs", "yes"}}

Sentence(ns, l, k, w) == [names |-> ns, lead |-> l, claims |-> k, says |-> w]
Writes ==
    {Sentence(<<>>, "none", "none", {})}
    \cup {Sentence(<<"tee", "cap">>, "none", k, {}) : k \in {"none", "both", "the named"}}
    \cup {Sentence(<<"tee">>, "none", k, {}) : k \in {"a photo", "the chart"}}
    \cup {Sentence(<<"tee">>, "olive", "none", {})}
    \cup {Sentence(<<"cap">>, "none", "none", w) :
            w \in {{}, {"later"}, {"added"}, {"swapping"}, {"it failed"}, {"shall I show"},
                   {"shall I add"}, {"no such line"}, {"shall I show", "nothing else"},
                   {"it failed", "nothing else"}}}

LooksUp == {<<"tee", "none", FALSE>>, <<"tee", "olive", FALSE>>, <<"tee", "none", TRUE>>, <<"cap", "none", FALSE>>}
Finds == {{"tee"}, {"tee", "cap"}}
=============================================================================
