-------------------------- MODULE MCStencilProgram --------------------------
(***************************************************************************)
(* Small programs for StencilProgram.  The blocks of two by two threads do *)
(* not divide the grids.                                                   *)
(***************************************************************************)
EXTENDS StencilProgram

MCDim == <<3, 3, 2>>
MCBlockDim == <<2, 2>>

Read(g, x, y, z) == [grid |-> g, off |-> <<x, y, z>>, periodic |-> FALSE]
Wrap(g, x, y, z) == [grid |-> g, off |-> <<x, y, z>>, periodic |-> TRUE]
Map(emit, reads, add, min, max) ==
    [emit |-> emit, reads |-> reads, add |-> add, min |-> min, max |-> max]
Run(maps, count) == [op |-> "run", maps |-> maps, count |-> count]
New(g) == [op |-> "new", grid |-> g]
Copyin(g) == [op |-> "copyin", grid |-> g,
              data |-> [p \in Point |-> p[1] + 2 * p[2] - 3 * p[3]]]
Set(g, p, v) == [op |-> "set", grid |-> g, point |-> p, value |-> v]
Copyout(g) == [op |-> "copyout", grid |-> g]
Reduce(g, by) == [op |-> "reduce", grid |-> g, by |-> by]
Free(g) == [op |-> "free", grid |-> g]

Shift == Map("b", <<Read("a", -1, 0, 0), Read("a", 0, 0, 1)>>, 0, <<1, 0, 0>>, <<3, 2, 1>>)
Back == Map("a", <<Read("b", 0, 0, 0), Read("a", 0, 0, 0)>>, 1, <<0, 0, 0>>, <<3, 1, 2>>)
InPlace == Map("a", <<Read("a", 0, 0, 0)>>, 1, <<0, 0, 0>>, <<3, 3, 1>>)
Corner == Map("b", <<Read("a", 0, -1, 0), Wrap("a", 1, 0, -1)>>, 2, <<2, 1, 0>>, <<3, 3, 2>>)
Empty == Map("b", <<Read("a", 0, 0, 0)>>, 2, <<1, 1, 1>>, <<1, 0, 2>>)

MCPrograms == {
    << New("a"), New("b"), Copyin("a"), Run(<<Shift, Back>>, <<2>>), Reduce("b", "sum"), Copyout("a"),
       Free("a"), New("a"),
       Run(<<Corner>>, <<>>), Reduce("b", "min"), Free("b") >>,
    << New("b"), New("a"), Set("a", <<2, 1, 1>>, 5), Run(<<InPlace, Corner>>, <<>>),
       Reduce("a", "max"), Run(<<Corner>>, <<1>>), Copyout("b"), Free("b") >>,
    << New("a"), Copyin("a"), New("b"), Run(<<InPlace>>, <<0>>), Run(<<Empty, Corner>>, <<1>>), Free("a"),
       Reduce("b", "prod"), Copyout("b") >> }
=============================================================================
