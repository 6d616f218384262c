----------------------------- MODULE MCBlockLoop -----------------------------
(* Values for the model checker: single-record clusters, two of them in the  *)
(* same place and one whose place is not informative.                        *)
EXTENDS BlockLoop

MCStart     == [n \in Nodes |-> {n}]
MCRecords   == Nodes
MCPlaces    == {"p", "q"}
MCLocations == [r \in Nodes |-> IF r = 1 THEN {} ELSE IF r <= 3 THEN {"p"} ELSE {"q"}]
=============================================================================
