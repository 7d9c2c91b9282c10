-------------------------- MODULE MCDecomposition ---------------------------
(* Instances of Decomposition for TLC. *)
EXTENDS Decomposition

CONSTANTS MaxExtent, MaxProcs

MCExtents == 0 .. MaxExtent
MCProcCounts == 1 .. MaxProcs
=============================================================================
