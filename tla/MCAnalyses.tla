----------------------------- MODULE MCAnalyses -----------------------------
(***************************************************************************)
(* Programs for Analyses: a main function with the grids a, b and c, a     *)
(* function step that applies the kernel k, and a function f that k calls. *)
(***************************************************************************)
EXTENDS Analyses

New(x) == [k |-> "new", x |-> x]
Ref(v) == [k |-> "var", x |-> v]
None == [k |-> "none"]
Par == [k |-> "param"]
GridDecl(v, fn, init) == [v |-> v, fn |-> fn, type |-> "grid", init |-> init]
DomDecl(v, fn, init) == [v |-> v, fn |-> fn, type |-> "domain", init |-> init]
GridAsn(v, fn, rhs) == [lhs |-> v, fn |-> fn, type |-> "grid", rhs |-> rhs]
Map(fn, k, dom, args) == [kind |-> "map", fn |-> fn, callee |-> k, dom |-> dom, args |-> args]
Call(fn, f, args) == [kind |-> "call", fn |-> fn, callee |-> f, dom |-> "none", args |-> args]
GetAt(fn, v, idx) == [fn |-> fn, v |-> v, idx |-> idx, periodic |-> FALSE]
Get(fn, v, x, y) == GetAt(fn, v, <<x, y>>)
GetPeriodic(fn, v, x, y) == [fn |-> fn, v |-> v, idx |-> <<x, y>>, periodic |-> TRUE]

X == Param(1)
Y == Param(2)
Z == Param(3)
At(e, n) == IF n < 0 THEN Sub(e, Const(-n)) ELSE IF n = 0 THEN e ELSE Add(Const(n), e)

\* main: c is declared as init says and later assigned the variables of asns;
\* step(p, q) applies k(u, w) to p and q; main applies k to b and c
Program(init, asns, dom, gets, emits) ==
    [decls |-> << DomDecl("d", "main", New("D")), DomDecl("e", "main", dom),
                  GridDecl("a", "main", New("ga")), GridDecl("b", "main", New("gb")),
                  GridDecl("c", "main", init),
                  GridDecl("p", "step", Par), GridDecl("q", "step", Par),
                  GridDecl("u", "k", Par), GridDecl("w", "k", Par),
                  GridDecl("t", "k", Ref("w")), GridDecl("s", "f", Par) >>,
     asns |-> asns,
     calls |-> << Map("main", "k", "e", <<"b", "c">>), Call("main", "step", <<"c", "a">>),
                  Map("step", "k", "d", <<"p", "q">>), Call("k", "f", <<"t">>) >>,
     gets |-> gets,
     emits |-> emits,
     params |-> [main |-> <<>>, step |-> <<"p", "q">>, k |-> <<"u", "w">>, f |-> <<"s">>],
     nd |-> 2]

Own == <<Get("k", "u", X, Y)>>
FivePoint == << Get("k", "u", X, Y), Get("k", "u", At(X, -1), Y), Get("k", "u", At(X, 1), Y),
                Get("k", "u", X, At(Y, -1)), Get("k", "u", X, At(Y, 1)) >>
Diagonal == << Get("k", "u", At(X, -2), Y), Get("k", "u", At(X, 1), At(Y, 1)) >>
Cross == << Get("k", "u", At(X, 1), Y), Get("k", "u", X, Sub(At(Y, 1), Const(2))),
            GetPeriodic("k", "w", At(X, -2), Y) >>
Transposed == << Get("k", "u", Y, At(X, 1)), Get("f", "s", X, Y) >>
Plane == << Get("k", "u", X, Const(0)) >>
General == << Get("k", "u", X, Y), Get("k", "u", Y, X), Get("k", "w", At(X, 1), Y) >>
Mirror == << Get("k", "u", Sub(Const(3), X), Y) >>
ByParameter == << Get("k", "u", Add(X, Param(3)), Y) >>
Negated == << Get("k", "u", Add(Neg(X), Const(3)), Y) >>
TwiceNegated == << Get("k", "u", Sub(Const(2), Neg(X)), Neg(Sub(Const(1), Y))) >>
ByLocal == << Get("k", "u", Local(1), Y) >>
ByNegatedLocal == << Get("k", "u", X, Neg(Local(1))) >>
ByLocals == << Get("k", "u", Add(X, Add(Local(1), Local(2))), Y) >>
Line == << GetAt("k", "u", <<At(X, 1)>>) >>
Lines == << GetAt("k", "u", <<X>>), GetAt("k", "u", <<Y>>) >>
WrappedPlane == << GetPeriodic("k", "u", X, Const(0)) >>

InKernel == << [fn |-> "k", v |-> "t"] >>
InCallee == << [fn |-> "f", v |-> "s"] >>

MCPrograms ==
    {Program(c, asns, Ref("d"), gets, emits) :
        c \in {New("gc"), Ref("a")},
        asns \in {<<>>, <<GridAsn("c", "main", Ref("b")), GridAsn("b", "main", Ref("c"))>>},
        gets \in {FivePoint, Diagonal, Cross, Transposed, Plane, General},
        emits \in {InCallee}}
    \cup {Program(None, <<GridAsn("c", "main", New("gc"))>>, New("E"), gets, InKernel) :
            gets \in {Own, Mirror, Negated, TwiceNegated, ByParameter, ByLocal, ByNegatedLocal,
                     ByLocals, WrappedPlane, Line, Lines}}
    \cup {[Program(New("gc"), <<>>, Ref("d"), gets, InKernel) EXCEPT !.nd = 3] :
            gets \in {Own, << Get("k", "u", At(X, 1), Y), GetAt("k", "w", <<X, Y, At(Z, -1)>>) >>}}
    \cup {Program(New("gc"), <<GridAsn("t", "k", Ref("u"))>>, Ref("d"), Own, InKernel),
          Program(New("gc"), <<>>, None, Own, InKernel)}

\* the function that the kernel calls reads a neighbour
MCInner == {Program(New("gc"), <<>>, Ref("d"), Own \o <<Get("f", "s", At(X, 1), Y)>>, InKernel)}

\* an index with an operand that is a local variable
MCOperand == {Program(New("gc"), <<>>, Ref("d"), <<Get("k", "u", Add(X, Local(1)), Y)>>, InKernel)}

\* maps of two dimensions leave out the last coordinate
MCPoints == {<<3, 4, 2>>, <<5, 5, 1>>}
=============================================================================
