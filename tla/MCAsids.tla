------------------------------ MODULE MCAsids ------------------------------
(* Instance of Asids for TLC. *)
EXTENDS Asids, TLC

CONSTANTS c1, c2, r1, r2, r3, r4

MCCpus == {c1, c2}

MCRoots == {r1, r2, r3, r4}

\* CPUs are interchangeable, and so are the frames that hold roots.
Symmetry == Permutations(MCCpus) \cup Permutations(MCRoots)
=============================================================================
