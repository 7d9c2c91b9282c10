---------------------------- MODULE MCOptimizer -----------------------------
(***************************************************************************)
(* Kernels for Optimizer, two-dimensional versions of those of the system  *)
(* tests (src/tests/system_tests/test_cases), and small grids.             *)
(***************************************************************************)
EXTENDS Optimizer

P == <<"px", "py">>
G(i, j) == translateGet("g", P, <<i, j>>, FALSE)
Periodic(i, j) == translateGet("g", P, <<i, j>>, TRUE)
X == Var("px")
Y == Var("py")
Sum(a, b) == Op("add", a, b)
Eq(a, b) == Op("eq", a, b)
DimMinus(d, n) == Op("sub", Dim(d), Num(n))
EmitTo(e) == translateEmit("out", P, e)

\* test_7-pt-neumann-cond: the point itself stands in for a missing neighbour
Neumann ==
    [params |-> P,
     ranges |-> [g \in {"g"} |-> {<<0, 0>>, <<-1, 0>>, <<1, 0>>, <<0, -1>>}],
     body |-> << Decl("nx", Dim(1)), Set("c", G(0, 0)),
        If(Eq(X, Num(0)), <<Set("w", G(0, 0))>>, <<Set("w", G(-1, 0))>>),
        If(Eq(X, Op("sub", Var("nx"), Num(1))), <<Set("e", Var("c"))>>,
                                                <<Set("e", G(1, 0))>>),
        If(Eq(Y, Num(0)), <<Set("n", Var("c"))>>, <<Set("n", G(0, -1))>>),
        EmitTo(Sum(Var("c"), Sum(Var("w"), Sum(Var("e"), Var("n"))))) >>]

\* test_stencil-hole and test_asymmetric: nothing is guarded
Hole ==
    [params |-> P,
     ranges |-> [g \in {"g"} |-> {<<0, 0>>, <<1, 0>>, <<-1, 0>>, <<0, 1>>, <<0, -1>>}],
     body |-> << Decl("v", Sum(G(-1, 0), Sum(G(1, 0), Sum(G(0, 1), G(0, -1))))),
                 Decl("w", G(0, 0)), EmitTo(Var("v")) >>]

\* test_asymmetric-periodic
Wrapped ==
    [params |-> P,
     ranges |-> [g \in {"g"} |-> {<<0, 0>>, <<1, 0>>, <<-1, 0>>, <<0, 2>>}],
     body |-> << EmitTo(Sum(G(0, 0), Sum(Periodic(1, 0),
                        Sum(Periodic(-1, 0), Periodic(0, 2))))) >>]

\* conditional expressions and two grids; the second is read behind the point
Select ==
    [params |-> P,
     ranges |-> [g \in {"g", "h"} |-> IF g = "g" THEN {<<0, 0>>, <<1, 0>>, <<0, 1>>}
                                      ELSE {<<0, 0>>, <<-1, 0>>}],
     body |-> << EmitTo(Sum(
        Cond(Eq(Sum(X, Num(1)), Dim(1)), G(0, 0), G(1, 0)),
        Sum(Cond(Eq(Num(0), X), Num(0), translateGet("h", P, <<-1, 0>>, FALSE)),
        Sum(translateGet("h", P, <<0, 0>>, FALSE),
            Cond(Eq(Y, DimMinus(2, 1)), Num(0), G(0, 1)))))) >>]

\* branches that share a term and differ in a constant
Shared ==
    [params |-> P,
     ranges |-> [g \in {"g"} |-> {<<0, 0>>, <<1, 0>>}],
     body |-> << Decl("c", G(0, 0)), Decl("u", Num(0)),
        If(Eq(Y, Num(0)), <<Set("w", Sum(Var("c"), Num(5)))>>,
                          <<Set("w", Sum(Var("c"), Num(7)))>>),
        If(Eq(X, Num(1)), <<Set("e", Var("c"))>>, <<Set("e", Sum(Var("c"), Var("w")))>>),
        EmitTo(Sum(Var("w"), Var("e"))) >>]

\* branches that share a term which is not at the same place in both sums
Swapped ==
    [params |-> P,
     ranges |-> [g \in {"g"} |-> {<<0, 0>>}],
     body |-> << Decl("c", G(0, 0)), Decl("a", G(0, 0)),
        If(Eq(Y, Num(0)), <<Set("w", Sum(Num(5), Var("c")))>>,
                          <<Set("w", Sum(Var("c"), Num(7)))>>),
        EmitTo(Var("w")) >>]

MCDims == <<4, 3>>
MCKernels == {Neumann, Hole, Wrapped, Select, Shared}
MCDomains == { << <<x[1], y[1]>>, <<x[2], y[2]>> >> :
                  x \in {<<0, 4>>, <<1, 3>>, <<2, 4>>, <<0, 1>>, <<3, 4>>},
                  y \in {<<0, 3>>, <<1, 3>>, <<1, 2>>} }
MCSwapped == {Swapped}
=============================================================================
