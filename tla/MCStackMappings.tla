-------------------------- MODULE MCStackMappings --------------------------
(* Instances of StackMappings for TLC. *)
EXTENDS StackMappings, TLC

CONSTANTS c1, c2, f1, f2, f3

TwoCpus == {c1, c2}

ThreeFrames == {f1, f2, f3}

\* CPUs are interchangeable, and so are frames.
Symmetry == Permutations(Cpus) \cup Permutations(Frames)
=============================================================================
