------------------------------ MODULE MCRounds ------------------------------
(* Values for the model checker: three records of one last name, whose middle  *)
(* names are an initial and two names of the same length.                     *)
EXTENDS Rounds

\* 1: "JACK", 2: "J", 3: "JOHN".
MCNames      == 1 .. 3
MCLength     == <<4, 1, 4>>
MCMiddle     == <<2, 3, 1>>
MCCoauthors  == <<{"a"}, {"b"}, {}>>
MCLastname   == <<"s", "s", "s">>
MCPresort    == <<1, 2, 3>>
MCBlockKey   == <<<<1, 1, 2>>, <<1, 1, 1>>>>
MCMiddleRounds == {2}
=============================================================================
