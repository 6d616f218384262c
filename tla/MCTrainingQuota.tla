--------------------------- MODULE MCTrainingQuota ---------------------------
(* Values for the model checker: blocks of one to three records, among them  *)
(* lists of blocks without any pair and an empty blocking string.            *)
EXTENDS TrainingQuota

MCShapes == {<<2, 3, 1>>, <<1, 1, 1>>, <<2, 2, 3>>, <<2, 4, 3>>, <<3, 1, 3>>}
=============================================================================
