----------------------------- MODULE MCEntryGate -----------------------------
(* The closers are interchangeable.                                          *)
EXTENDS EntryGate, TLC

Symmetry == Permutations(Closers)

=============================================================================
