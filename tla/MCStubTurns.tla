---------------------------- MODULE MCStubTurns ----------------------------
(* Small instances of StubTurns for TLC.                                       *)
EXTENDS StubTurns, TLC

Symmetry == Permutations(Turns) \cup Permutations(Interrupts)
=============================================================================
