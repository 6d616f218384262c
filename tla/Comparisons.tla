---------------------------- MODULE Comparisons ----------------------------
(***************************************************************************)
(* How two records are compared: the compare function of every attribute   *)
(* that can be part of a similarity profile, the string comparisons they   *)
(* rest on (comparators.cpp), and the profile made of the active ones.     *)
(*                                                                         *)
(* A record is a function from column names to data.  Names are as in      *)
(* NameData; letters matter only to is_misspell, is_abbreviation and       *)
(* midnamecmp.  The other single values are atoms, with None for the empty *)
(* string.  Pooled attributes are equal as pointers when their data are.   *)
(***************************************************************************)
EXTENDS NameData

CONSTANTS
  None,              \* the empty string, as the value of a column
  MaxValue,          \* get_attrib_max_value of the columns that have one
  Jaro(_, _),        \* 100 * strcmp95_modified; not symmetric when one begins with a digit
  Miles(_, _),       \* the distance of two places
  Country_JP,        \* "JP"
  FewPatents         \* 100: asgnum2count_tree tells small assignees by it

Cap(score, column) == IF score > MaxValue[column] THEN MaxValue[column] ELSE score

-----------------------------------------------------------------------------
(* comparators.cpp *)

\* is_abbreviation: the length of the shorter name if the longer begins with it.
Abbreviation(s, t) ==
  IF IsPrefix(s, t) \/ IsPrefix(t, s) THEN Min({Len(s), Len(t)}) ELSE 0

\* is_misspell, one letter more in the longer name.  Behind the first difference
\* the longer is read one letter ahead; the letter it skips is compared with none.
Missing(long, short) ==
  LET differ == {i \in DOMAIN short : short[i] # long[i]}
  IN  IF differ = {} \/ \A j \in Min(differ) + 1 .. Len(short) : short[j] = long[j + 1]
      THEN 1 ELSE 0

\* is_misspell, names of one length.
Misspelt(s, t) ==
  LET differ == {i \in DOMAIN s : s[i] # t[i]}
      i      == Min(differ)
  IN  IF differ = {}                           THEN 4
      ELSE IF i = Len(s)                       THEN 3
      ELSE IF ~ differ \subseteq {i, i + 1}    THEN 0
      ELSE IF i + 1 \notin differ              THEN 3
      ELSE IF s[i] = t[i + 1] /\ t[i] = s[i + 1] THEN 2
      ELSE 0

Misspell(s, t) ==
  IF Len(s) = Len(t) + 1 THEN Missing(s, t)
  ELSE IF Len(t) = Len(s) + 1 THEN Missing(t, s)
  ELSE IF Len(s) = Len(t) THEN Misspelt(s, t)
  ELSE 0

\* name_compare.  cur and prev are the truncations of first names.
NameCompare(s, t, prev, cur) ==
  LET abbrev == Abbreviation(s, t)
  IN  IF s = <<>> \/ t = <<>>     THEN 1
      ELSE IF s = t               THEN 4
      ELSE IF Misspell(s, t) # 0  THEN 3
      ELSE IF abbrev = 0          THEN 0
      ELSE IF cur # 0 /\ cur <= abbrev /\ (prev = 0 \/ prev > abbrev) THEN 4
      ELSE 2

\* midnamecmp.
MidnameCompare(s, t) ==
  IF s = <<>> /\ t = <<>> THEN 2
  ELSE IF s = <<>> \/ t = <<>> THEN 1
  ELSE IF Abbreviation(s, t) = 0 THEN 0
  ELSE 3

\* jwcmp.
JaroCompare(s, t) ==
  IF s = <<>> \/ t = <<>> THEN 0 ELSE Cardinality({x \in {70, 80, 90, 95, 99} : Jaro(s, t) > x})

\* asgcmp.  No value is empty here.
AssigneeNames(s, t) ==
  IF Jaro(s, t) > 90 THEN 4
  ELSE IF Jaro(s, t) > 80 THEN 3
  ELSE IF Jaro(s, t) > 70 THEN 2
  ELSE 0

\* latloncmp of two places; latitude and longitude of a missing one are both 0.
Distance(p, q) ==
  IF [lat |-> None, lon |-> None] \in {p, q} THEN 1
  ELSE 1 + Cardinality({x \in {1, 10, 25, 50} : Miles(p, q) < x})

-----------------------------------------------------------------------------
(* The compare functions. *)

Place(r) == [lat |-> r["Latitude"], lon |-> r["Longitude"]]

FirstnameCompare(r, s, trunc) ==
  IF r["Firstname"] = s["Firstname"] /\ r["Firstword"] = s["Firstword"]
  THEN MaxValue["Firstname"]
  ELSE Cap(NameCompare(r["Firstword"], s["Firstword"], trunc, trunc), "Firstname")

LastnameCompare(r, s) ==
  IF r["Lastname"] = s["Lastname"] THEN MaxValue["Lastname"]
  ELSE Cap(JaroCompare(r["Lastname"], s["Lastname"]), "Lastname")

\* A record is at its own place.  Two Japanese places without a street count for
\* one less.
LatitudeCompare(r, s, same) ==
  IF same /\ r["Latitude"] # None           THEN MaxValue["Latitude"]
  ELSE IF r["Country"] # s["Country"]       THEN 0
  ELSE IF r["Country"] = Country_JP /\ {r["Street"], s["Street"]} = {None}
       THEN Distance(Place(r), Place(s)) - 1
  ELSE Distance(Place(r), Place(s))

LongitudeCompare(r, s) ==
  IF Place(r) = Place(s) /\ r["Longitude"] # None THEN Cap(1, "Longitude") ELSE 0

\* Attribute_Set_Mode: elements in common.
SetCompare(column, r, s) == Cap(Cardinality(r[column] \cap s[column]), column)

\* configure_assignee: how many records have an assignee number.
RecordsOfAssignee(records, number) ==
  Cardinality({i \in DOMAIN records : records[i]["AsgNum"] = number})

\* An empty number is a number like any other.
AssigneeCompare(records, r, s) ==
  IF None \in {r["Assignee"], s["Assignee"]} THEN Cap(1, "Assignee")
  ELSE IF r["AsgNum"] # s["AsgNum"] THEN Cap(AssigneeNames(r["Assignee"], s["Assignee"]), "Assignee")
  ELSE IF RecordsOfAssignee(records, r["AsgNum"]) < FewPatents THEN Cap(6, "Assignee")
  ELSE Cap(5, "Assignee")

\* compare, of the records numbered i and j.
Compare(records, trunc, column, i, j) ==
  LET r == records[i]
      s == records[j]
  IN  CASE column = "Firstname"  -> FirstnameCompare(r, s, trunc)
        [] column = "Middlename" -> Cap(MidnameCompare(r[column], s[column]), column)
        [] column = "Lastname"   -> LastnameCompare(r, s)
        [] column = "Latitude"   -> LatitudeCompare(r, s, i = j)
        [] column = "Longitude"  -> LongitudeCompare(r, s)
        [] column = "Assignee"   -> AssigneeCompare(records, r, s)
        [] column \in {"Class", "Coauthor"} -> SetCompare(column, r, s)

\* record_compare and record_compare_by_attrib_indice: a column whose comparator is
\* not active throws, and has no place in the profile.
Profile(records, trunc, columns, i, j) ==
  [k \in DOMAIN columns |-> Compare(records, trunc, columns[k], i, j)]
=============================================================================
