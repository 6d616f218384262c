------------------------------ MODULE NameData ------------------------------
(***************************************************************************)
(* What a record keeps of the names in its line of the CSV file, and what  *)
(* the two reconfigurators make of them before the first round: first and  *)
(* middle names of some countries are replaced, and the coauthors of every *)
(* record are built anew from the records of its patent.                   *)
(*                                                                         *)
(* A word is a sequence of letters, a name in the file a sequence of       *)
(* words.  Of the columns that keep two strings, Firstname and Middlename  *)
(* are the first; Firstword and Initials the second.                       *)
(***************************************************************************)
EXTENDS Integers, Sequences, FiniteSets, SequencesExt, FiniteSetsExt, Functions, Ordering

CONSTANTS
  EastAsian,  \* "KR", "CN", "TW"
  Space, Dot  \* the letters that are none

\* Words with a space between them.
Spelling(words) ==
  FlattenSeq([k \in DOMAIN words |-> IF k = 1 THEN words[k] ELSE <<Space>> \o words[k]])

\* StringExtractFirstWord.
FirstWordOf(words) == IF words = <<>> THEN <<>> ELSE words[1]

\* The names of a line: the middle name is what follows the first word, and its
\* initials are those of its words.
Split(line) ==
  LET middle == IF line["Middlename"] = <<>> THEN <<>> ELSE Tail(line["Middlename"])
  IN  [c \in DOMAIN line \cup {"Firstword", "Initials"} |->
         CASE c = "Firstword"  -> FirstWordOf(line["Firstname"])
           [] c = "Middlename" -> Spelling(middle)
           [] c = "Initials"   -> [k \in DOMAIN middle |-> middle[k][1]]
           [] OTHER            -> line[c]]

\* Reconfigurator_AsianNames: the full first name is the first word too, and the
\* middle name and its initials are the full name.
AsianNames(r) ==
  LET full == Spelling(r["Firstname"]) \o <<Dot>> \o Spelling(r["Lastname"])
  IN  IF r["Country"] \notin EastAsian THEN r
      ELSE [r EXCEPT !["Firstword"] = Spelling(r["Firstname"]),
                     !["Middlename"] = full, !["Initials"] = full]

\* Reconfigurator_Coauthor: first word and last name of the other records of the
\* patent; the first word is that of the full first name, also where the step before
\* has changed it.
CoauthorNames(records, i) ==
  {<<FirstWordOf(records[j]["Firstname"]), FlattenSeq(records[j]["Lastname"])>> :
     j \in {j \in DOMAIN records : j # i /\ records[j]["Patent"] = records[i]["Patent"]}}

Reconfigured(records) ==
  [i \in DOMAIN records |->
     [AsianNames(records[i]) EXCEPT !["Coauthor"] = CoauthorNames(records, i)]]
=============================================================================
