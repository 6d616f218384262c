---------------------------- MODULE MCAttribPool ----------------------------
(* Values for the model checker: who works on which records, and what they   *)
(* hold at first.                                                            *)
EXTENDS AttribPool, TLC

CONSTANTS t1, t2, e1, e2, e3

\* Records are the numbers from 1; the second half is t2's, or all are t1's.
Alone     == [r \in Records |-> t1]
Halves    == [r \in Records |-> IF r <= 2 THEN t1 ELSE t2]
MCOwners  == {Alone, Halves}
TwoOwners == {Halves}

\* Singles and one pair, so that a union may be the attribute of a record.
SomeSets  == {{e1}, {e2}, {e3}, {e1, e2}}
=============================================================================
