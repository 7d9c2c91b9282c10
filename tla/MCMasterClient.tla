--------------------------- MODULE MCMasterClient ---------------------------
(* Instances of MasterClient for TLC. *)
EXTENDS MasterClient

CONSTANTS a, b

\* A space of one point per rank; a grid takes all of it or stops short of
\* the last rank, whose part is empty then.
MCPoint == 0 .. NProcs - 1
MCOwner == [x \in MCPoint |-> x]
MCShape == {MCPoint, MCPoint \ {NProcs - 1}}

\* Two values, which the kernel exchanges.
MCValue == {a, b}
MCKernel == [v \in MCValue |-> IF v = a THEN b ELSE a]

MCTag == {0}

\* The calls of the program: all of them, or those that read and write points.
PointCalls == {"New", "Set", "Get"}
ReadCalls == {"New", "Copyin", "Get"}
AllCalls == {"New", "Free", "Copyin", "Copyout", "Set", "Get", "Run", "Reduce"}
=============================================================================
