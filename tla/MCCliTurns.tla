----------------------------- MODULE MCCliTurns -----------------------------
(* Small instances of CliTurns for TLC.                                        *)
EXTENDS CliTurns, TLC

Symmetry == Permutations(Turns) \cup Permutations(Interrupts)
=============================================================================
