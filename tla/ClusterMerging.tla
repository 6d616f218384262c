--------------------------- MODULE ClusterMerging ---------------------------
(***************************************************************************)
(* What disambiguating a block promises: the block is a partition of its   *)
(* records into clusters; it changes only by two clusters becoming one; at *)
(* the end the block is as it was left by the last merge.                  *)
(***************************************************************************)
VARIABLES
  parts,       \* the clusters: sets of records
  ended        \* disambiguate_wrapper has returned, or thrown

pvars == <<parts, ended>>

Init == ended = FALSE

Merge ==
  /\ ~ended
  /\ \E a \in parts, b \in parts :
       /\ a # b /\ a \cap b = {}
       /\ parts' = (parts \ {a, b}) \cup {a \cup b}
  /\ UNCHANGED ended

Finish ==
  /\ ~ended
  /\ ended' = TRUE
  /\ UNCHANGED parts

Next == Merge \/ Finish

Spec == Init /\ [][Next]_pvars
=============================================================================
