------------------------------- MODULE Tables -------------------------------
(***************************************************************************)
(* Tables: functions to which entries are added and from which they are     *)
(* removed, for the grids that a program creates and frees.                 *)
(***************************************************************************)

\* t with e as the entry of i.
With(t, i, e) == [j \in DOMAIN t \cup {i} |-> IF j = i THEN e ELSE t[j]]

\* t without the entry of i.
Without(t, i) == [j \in DOMAIN t \ {i} |-> t[j]]

\* The entries of t, and those of u for what t has none for.
Merged(t, u) ==
  [j \in DOMAIN t \cup DOMAIN u |-> IF j \in DOMAIN t THEN t[j] ELSE u[j]]
=============================================================================
