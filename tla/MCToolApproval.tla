--------------------------- MODULE MCToolApproval ---------------------------
(* Small instances of ToolApproval for TLC. *)
EXTENDS ToolApproval, TLC

Symmetry == Permutations(Gates) \cup Permutations(Calls)
=============================================================================
