---------------------------- MODULE MCPostPolish ----------------------------
(* Values for the model checker: two patents of three records each, names     *)
(* that are alike across the patents, one pair alike even under the Asian     *)
(* threshold, and as files every way to cluster the records under any         *)
(* delegates, complete or with the end of the list cut off.                   *)
EXTENDS PostPolish, SequencesExt

MCRecords == 1 .. NumRecords
MCColumns == {"Lastname", "City"}
MCAttributeOf == [x \in MCRecords |->
  [Lastname |-> IF x \in {2, 5} THEN "a" ELSE "b", City |-> IF x % 2 = 0 THEN "u" ELSE "v"]]
MCPatent  == [x \in MCRecords |-> IF x <= 3 THEN "p" ELSE "q"]
MCCountry == [x \in MCRecords |->
  CASE x = 2 -> "uninformative" [] x = 3 -> "asian" [] OTHER -> "other"]
MCAlike   == [t \in {"normal", "asian"} |->
  IF t = "asian" THEN {<<2, 5>>} ELSE {<<2, 5>>, <<2, 4>>, <<3, 5>>, <<1, 4>>}]

\* A way to cluster the records is an idempotent function to the delegates.
Clusterings == {d \in [MCRecords -> MCRecords] : \A x \in MCRecords : d[d[x]] = d[x]}
Lines(d) == [n \in 1 .. Cardinality({d[x] : x \in MCRecords}) |->
  LET h == SetToSortSeq({d[x] : x \in MCRecords}, <)[n]
  IN  [head |-> h, members |-> {x \in MCRecords : d[x] = h}]]

\* The file cut in its last line: the line loses some of its members.
CutLines(f) ==
  {[f EXCEPT ![Len(f)].members = ms] : ms \in SUBSET f[Len(f)].members}

MCFiles == UNION {CutLines(Lines(d)) : d \in Clusterings}
=============================================================================
