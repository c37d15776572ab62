----------------------------- MODULE MCBoxTurns -----------------------------
(* Small instances of BoxTurns for TLC. *)
EXTENDS BoxTurns, TLC

CONSTANT write

\* Prompts whose tools need no approval, and prompts with one gated tool.
UngatedPlans == {<<>>}
GatedPlans == {<<>>, <<write>>}

Symmetry == Permutations(Agents) \cup Permutations(Turns) \cup Permutations(Interrupts)
=============================================================================
