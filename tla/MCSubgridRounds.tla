--------------------------- MODULE MCSubgridRounds --------------------------
(* Instances of SubgridRounds for TLC. *)
EXTENDS SubgridRounds, TLC

CONSTANT info

MCInfo == {info}
MCRounds == 1 .. MaxRounds

\* Every region a process can ask for: none, one owner, several.
AllSets == SUBSET Proc

\* Regions of the two-neighbour kind, and none.
SomeSets == {{}, Proc} \cup {{q} : q \in Proc}
=============================================================================
