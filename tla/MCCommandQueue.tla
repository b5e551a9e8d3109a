--------------------------- MODULE MCCommandQueue ---------------------------
(* Instances of CommandQueue for TLC.  The processes that listen are       *)
(* symmetric: nothing in the module orders them.                           *)
EXTENDS CommandQueue, TLC

Symmetry == Permutations(Workers \ OneShot)

=============================================================================
