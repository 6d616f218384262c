---------------------------- MODULE MCWorkerPool ----------------------------
(* Values for the model checker.                                           *)
EXTENDS WorkerPool

\* The second of three blocks is refused by the wrapper.
MCSkipped == {2}
=============================================================================
