------------------------------- MODULE MCHalo -------------------------------
(* Instances of Halo for TLC. *)
EXTENDS Halo

V(a, b, c) == <<a, b, c>>

\* The offsets that reach r[d] backward and forward in each dimension d, in all
\* directions, or along the axes only.
Around(r) == {o \in [Dim -> -1 .. 1] : \A d \in Dim : r[d] = 0 => o[d] = 0}
Axes(r)   == {o \in Around(r) : \A d, e \in Dim : o[d] # 0 /\ o[e] # 0 => d = e}

J(procs, space, size, stencil, periodic) ==
  [procs |-> procs, space |-> space, size |-> size, stencil |-> stencil,
   periodic |-> periodic]

SymmetricJobs == {
  \* corners in two and three dimensions, parts of different size
  J(V(2, 2, 1), V(3, 2, 1), V(3, 2, 1), Around(V(1, 1, 0)), FALSE),
  J(V(2, 1, 2), V(2, 2, 2), V(2, 2, 2), Around(V(1, 1, 1)), FALSE),
  \* both peers the same process, or the process itself
  J(V(1, 2, 1), V(1, 3, 2), V(1, 3, 2), Around(V(1, 1, 1)), TRUE),
  J(V(2, 2, 1), V(2, 2, 1), V(2, 2, 1), Around(V(1, 1, 0)), TRUE),
  \* widths that differ, around the end
  J(V(3, 1, 1), V(6, 1, 1), V(6, 1, 1),
    {V(0, 0, 0), V(-1, 0, 0), V(2, 0, 0)}, TRUE),
  \* a grid smaller than the space: the last process has no part
  J(V(3, 1, 1), V(4, 2, 1), V(2, 2, 1), Axes(V(1, 1, 0)), FALSE) }

\* A stencil that reaches forward in one dimension and backward in another.
CornerJobs == {
  J(V(2, 2, 1), V(2, 2, 1), V(2, 2, 1),
    {V(0, 0, 0), V(1, 0, 0), V(0, -1, 0), V(1, -1, 0)}, FALSE) }

\* A stencil that reaches forward only: the second process sends, receives
\* nothing, and so never waits for the first.
OneWayJobs == {
  J(V(2, 1, 1), V(4, 1, 1), V(4, 1, 1), {V(0, 0, 0), V(1, 0, 0)}, FALSE) }
=============================================================================
