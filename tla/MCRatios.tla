------------------------------ MODULE MCRatios ------------------------------
(* Values for the model checker: four rounds, of which the first has more     *)
(* profiles than the bound and the second only names.                         *)
EXTENDS Ratios

MCColumns == <<"Firstname", "Lastname", "Middlename", "Street", "Longitude", "Latitude",
               "Coauthor", "Assignee", "AsgNum", "Country", "Patent">>
MCGroup   == [c \in ToSet(MCColumns) |->
                IF c \in {"Firstname", "Lastname", "Middlename"} THEN "Personal"
                ELSE IF c \in {"Street", "AsgNum", "Country", "Patent"} THEN "NONE" ELSE "Patent"]
MCMax     == [Firstname |-> 4, Lastname |-> 1, Middlename |-> 1, Longitude |-> 1,
              Latitude |-> 5, Coauthor |-> 1, Assignee |-> 6]
MCRounds  == << <<"Firstname", "Middlename", "Lastname", "Latitude", "Street", "Assignee">>,
                <<"Firstname", "Middlename", "Lastname">>,
                <<"Firstname", "Middlename", "Lastname", "Longitude">>,
                <<"Firstname", "Middlename", "Lastname", "Coauthor">> >>
MCTruncation == <<2, 2, 0, 0>>

\* Words are sequences of letters.
W1 == <<1, 2, 3>>
W2 == <<1, 3, 2>>
W3 == <<1, 2>>
W4 == <<4>>
W5 == <<1, 2, 2, 3>>
S5 == <<<<5, 1>>>>
S6 == <<<<6, 1>>>>

\* The names of assignees S5 and S6 are alike in all but the first letter, a digit in S6:
\* strcmp95_modified looks for a digit only in its first name.
MCJaro(s, t) ==
  CASE s = t                -> 100
    [] <<s, t>> = <<S5, S6>> -> 92
    [] s[1] = t[1] \/ <<s, t>> = <<S6, S5>> -> 85
    [] OTHER                -> 20
MCMiles(p, q) == IF p = q THEN 0 ELSE IF p.lat = q.lat THEN 20 ELSE 80

\* Round 1 is blocked by the first word and the last name, round 2 by initials too.
MCBlockColumns ==
  LET Part(c, n, fwd) == [column |-> c, nchar |-> n, forward |-> fwd]
      By(f, mid, l) == <<Part("Firstname", f, TRUE), mid, Part("Lastname", l, TRUE)>>
  IN  <<By(0, Part("Middlename", 0, FALSE), 0), By(0, Part("Middlename", 0, TRUE), 0),
        By(3, Part("Middlename", 1, TRUE), 3), By(1, Part("Middlename", 0, FALSE), 1)>>

MCLog(m, n) == CASE m = n        -> 0
                 [] m = 2 * n    -> 694
                 [] m = 3 * n    -> 1099
                 [] m = 4 * n    -> 1387
                 [] 2 * m = 3 * n -> 406
                 [] 3 * m = 4 * n -> 288

\* All records apart; the first two together; the first two under the second, and the rest.
MCResults(n) ==
  LET Single(i) == [head |-> i, members |-> {i}]
  IN  {{Single(i) : i \in 1 .. n},
       {[head |-> 1, members |-> {1, 2}]} \cup {Single(i) : i \in 3 .. n},
       {[head |-> 2, members |-> {1, 2}], [head |-> 3, members |-> 3 .. n]}}

Rec(first, last, mid, lat, lon, co, asg, num, pat) ==
  [c \in ToSet(MCColumns) |->
     CASE c = "Firstname" -> first [] c = "Lastname" -> last [] c = "Middlename" -> mid
       [] c = "Latitude" -> lat [] c = "Longitude" -> lon [] c = "Coauthor" -> co
       [] c = "Assignee" -> asg [] c = "AsgNum" -> num [] c = "Patent" -> pat
       [] c = "Street" -> None
       [] c = "Country" -> CASE lat = "3" -> "JP" [] lon = "2" -> "KR" [] OTHER -> "US"]

A == Rec(<<W1>>,     <<W4>>,     <<W1, W2>>,     "1", "1", {}, S5, None,  1)
B == Rec(<<W1>>,     <<W4>>,     <<W1>>,         "1", "2", {}, S6, None,  2)
C == Rec(<<W2, W3>>, <<W4, W1>>, <<W2, W3, W2>>, "3", "3", {}, None,  "7", 1)
G == Rec(<<W2, W3>>, <<W4>>,     <<W2, W1>>,     "1", "2", {}, S6, "8", 2)
D == Rec(<<W5>>,     <<W1>>,     <<W2, W2>>,     None,  None,  {}, S5, "7", 2)
E == Rec(<<>>,       <<W4>>,     <<>>,           "3", "3", {}, S6, "7", 1)
F == Rec(<<W3, W3>>, <<W1>>,     <<W3, W1>>,     "1", "1", {}, S5, "8", 2)
H == Rec(<<W1>>,     <<W2>>,     <<W1>>,         "1", "1", {}, S5, None,  1)

MCLists == {<<A, B, C>>, <<A, B, D, F>>, <<A, C, C, E>>, <<A, A, B, F>>, <<A, G, G, E>>,
            <<A, H, G, D>>}

MCPairs ==
  {[x |-> <<>>, m |-> <<>>],
   [x |-> <<<<1, 3>>>>, m |-> <<<<1, 2>>>>],
   [x |-> <<<<1, 3>>, <<1, 3>>>>, m |-> <<<<1, 3>>, <<2, 3>>>>],
   [x |-> <<<<1, 2>>, <<2, 3>>, <<1, 3>>>>, m |-> <<<<1, 2>>, <<2, 3>>>>]}
=============================================================================
