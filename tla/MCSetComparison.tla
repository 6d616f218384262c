--------------------------- MODULE MCSetComparison ---------------------------
(* Sizes for the model checker: one, two and three candidates for averaging. *)
EXTENDS SetComparison

MCSizes == {<<1, 1>>, <<1, 2>>, <<2, 4>>, <<3, 4>>}
=============================================================================
