---------------------------- MODULE MCHubOffbox ----------------------------
(* Small instances of HubOffbox for TLC. *)
EXTENDS HubOffbox, TLC

Symmetry == Permutations(Prompts) \cup Permutations(Interrupts)
=============================================================================
