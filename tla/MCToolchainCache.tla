--------------------------- MODULE MCToolchainCache ---------------------------
(* Instances of ToolchainCache: three contents, of which one is twice as large *)
(* as the others, under caps that hold two of the small ones or all but one.   *)
EXTENDS ToolchainCache, TLC

CONSTANTS x, y, z

MCSize == [d \in Digests |-> IF d = z THEN 2 ELSE 1]
MCSymmetry == Permutations(Procs)
=============================================================================
