----------------------------- MODULE Partition ------------------------------
(***************************************************************************)
(* The arithmetic of partition() (runtime/grid_mpi.cc) in closed form: how   *)
(* an extent s is divided among n processes.  "Faulty" marks a mistaken form *)
(* of the definition it precedes.                                           *)
(***************************************************************************)
EXTENDS Integers

Least(a, b) == IF a <= b THEN a ELSE b
Most(a, b)  == IF a >= b THEN a ELSE b

\* The extent of partition k of n of an extent s: the remainder goes to the
\* last ones.
PartSize(s, n, k) == s \div n + (IF n - k <= s % n THEN 1 ELSE 0)

\* Where partition k begins.
PartOffset(s, n, k) == k * (s \div n) + Most(k - (n - (s % n)), 0)
=============================================================================
