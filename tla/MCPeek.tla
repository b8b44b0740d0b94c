------------------------------- MODULE MCPeek -------------------------------
(***************************************************************************)
(* An instance of Peek, and so of Cortex, for TLC.                         *)
(***************************************************************************)
EXTENDS Peek, TLC

CONSTANTS p1, p2, k1, ongoing, ready, t1

(* A first compaction, and the leftovers of processes that were killed:    *)
(* a temporary file of a process id that comes again, and the claim of a   *)
(* session that has no row.                                                *)
Directories ==
  {<<>>,
   (RowOf("a") :> k1 @@ Marker("a") :> ready @@ Temp(RowOf("a"), p1) :> Torn
    @@ Unique(Marker("b"), "expiring", "p9") :> ready)}
=============================================================================
