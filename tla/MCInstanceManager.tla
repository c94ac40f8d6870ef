------------------------- MODULE MCInstanceManager --------------------------
(* Instances of InstanceManager for TLC. *)
EXTENDS InstanceManager, TLC

\* Create calls are interchangeable, and so are destroy calls.
Symmetry == Permutations(Creates) \cup Permutations(Sweeps)
=============================================================================
