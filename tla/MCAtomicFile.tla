---------------------------- MODULE MCAtomicFile ----------------------------
(***************************************************************************)
(* A small instance of AtomicFile: two texts, two readers.                 *)
(***************************************************************************)
EXTENDS AtomicFile, TLC

CONSTANTS c1, c2, r1, r2

MCContents == {c1, c2}
MCReaders == {r1, r2}
Symmetry == Permutations(MCContents) \cup Permutations(MCReaders)
=============================================================================
