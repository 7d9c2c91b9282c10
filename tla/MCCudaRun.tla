------------------------------ MODULE MCCudaRun ------------------------------
(* Instances of CudaRun for TLC. *)
EXTENDS CudaRun

V(a, b, c) == <<a, b, c>>
Around(r) == {o \in [Axis -> -1 .. 1] : \A d \in Axis : r[d] = 0 => o[d] = 0}
Axes(r)   == {o \in Around(r) : \A d, e \in Axis : o[d] # 0 /\ o[e] # 0 => d = e}

\* A program whose domain is the whole grid, translated with the given options.
J(procs, size, stencil, periodic, options) ==
  [procs |-> procs, size |-> size, stencil |-> stencil, periodic |-> periodic,
   lo |-> V(0, 0, 0), hi |-> size,
   overlap |-> "overlap" \in options, streams |-> "streams" \in options,
   eligible |-> "subgrid" \notin options, regular |-> "irregular" \notin options,
   staged |-> "staged" \in options,
   rounds |-> 2]

Within(j, lo, hi) == [j EXCEPT !.lo = lo, !.hi = hi]
Rounds(j, n)      == [j EXCEPT !.rounds = n]

MCJobs == {
  \* an interior for the overlap, parts of different size
  J(V(1, 1, 2), V(3, 3, 7), Axes(V(1, 1, 1)), FALSE, {"overlap"}),
  J(V(2, 1, 1), V(6, 3, 3), Axes(V(1, 1, 1)), TRUE, {"overlap"}),
  \* corners: in x and y, in y and z, in three dimensions around the end
  Rounds(J(V(2, 2, 1), V(2, 2, 1), Around(V(1, 1, 0)), FALSE, {}), 1),
  Rounds(J(V(1, 2, 2), V(1, 2, 2), Around(V(1, 1, 1)), FALSE, {}), 1),
  J(V(1, 2, 1), V(2, 2, 2), Around(V(1, 1, 1)), TRUE, {"overlap", "irregular"}),
  \* streams for the faces; a process that is its own neighbour
  J(V(1, 1, 1), V(3, 3, 5), Axes(V(1, 1, 1)), TRUE, {"overlap", "streams"}),
  J(V(1, 1, 1), V(3, 3, 3), {V(0, 0, 0)}, FALSE, {"overlap", "streams"}),
  J(V(1, 1, 1), V(3, 3, 4), Axes(V(0, 0, 1)), TRUE, {"overlap", "streams", "irregular"}),
  \* the sender runs ahead: nothing comes back from its neighbour
  Rounds(J(V(1, 1, 2), V(1, 1, 2), {V(0, 0, 0), V(0, 0, 1)}, FALSE, {"overlap"}), 4),
  \* a domain that only the second process has a part of
  Within(J(V(1, 1, 2), V(4, 4, 4), Axes(V(1, 1, 1)), FALSE, {"overlap"}),
         V(1, 1, 2), V(3, 3, 4)),
  \* without overlap: a grid of the map is loaded otherwise; in two stages
  J(V(1, 2, 1), V(2, 4, 2), Axes(V(1, 1, 1)), FALSE, {"overlap", "subgrid"}),
  J(V(2, 1, 1), V(4, 2, 1), Axes(V(1, 1, 0)), TRUE, {"staged"}) }
=============================================================================
