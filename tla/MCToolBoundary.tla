--------------------------- MODULE MCToolBoundary ---------------------------
(* Instances of ToolBoundary for TLC. *)
EXTENDS ToolBoundary

(* Enough for the runs that ask about slots and not about replies.          *)
OneOutcome == {[exc |-> Value, chain |-> Nothing]}
=============================================================================
