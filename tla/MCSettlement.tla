--------------------------- MODULE MCSettlement ---------------------------
(* Which decisions the optimizer may take, tick after tick.                *)
EXTENDS Settlement

All == Decisions
=============================================================================
