--------------------------- MODULE BlockDispatch ---------------------------
(***************************************************************************)
(* What one call of ClusterInfo::disambiguate promises about the blocks of *)
(* cluster_by_block, whatever the number of threads: the blocks are taken  *)
(* in the order of the map, each at most once; the call returns when no    *)
(* block is being worked on and none is left - or when no worker could be  *)
(* started at all, a case the code does not report; an exception or a      *)
(* crash ends the process instead.  The caller may then call again with a  *)
(* fresh cursor (one call per round of Full_Disambiguation).               *)
(*                                                                         *)
(* WorkerPool is shown to implement this module.                           *)
(***************************************************************************)
EXTENDS Naturals

CONSTANT NumBlocks     \* number of entries of cluster_by_block

VARIABLES
  next,                \* the next block to take; NumBlocks + 1 when none is left
  running,             \* blocks some worker is disambiguating
  phase                \* "busy", "returned" or "aborted"

dvars == <<next, running, phase>>

Blocks == 1 .. NumBlocks

Init ==
  /\ next = 1
  /\ running = {}
  /\ phase = "busy"

\* A worker takes the next block of the map.
Take ==
  /\ phase = "busy"
  /\ next \in Blocks
  /\ next' = next + 1
  /\ running' = running \cup {next}
  /\ UNCHANGED phase

\* The work on a block ends.
Finish(b) ==
  /\ phase = "busy"
  /\ b \in running
  /\ running' = running \ {b}
  /\ UNCHANGED <<next, phase>>

\* The call returns: everything was worked on, or no thread ever ran.
Return ==
  /\ phase = "busy"
  /\ running = {}
  /\ next = 1 \/ next = NumBlocks + 1
  /\ phase' = "returned"
  /\ UNCHANGED <<next, running>>

\* The next round calls again.
Restart ==
  /\ phase = "returned"
  /\ phase' = "busy"
  /\ next' = 1
  /\ UNCHANGED running

\* std::terminate or a crash.
Abort ==
  /\ phase = "busy"
  /\ phase' = "aborted"
  /\ UNCHANGED <<next, running>>

Next ==
  \/ Take
  \/ \E b \in Blocks : Finish(b)
  \/ Return
  \/ Restart
  \/ Abort

Spec == Init /\ [][Next]_dvars
=============================================================================
