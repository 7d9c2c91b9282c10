----------------------------- MODULE LoopPasses -----------------------------
(***************************************************************************)
(* The optimization passes that restructure the innermost loop: kernel     *)
(* inlining, loop peeling and unconditional gets                           *)
(* (src/translator/optimizer/kernel_inlining.cc, loop_peeling.cc and       *)
(* unconditional_get.cc).  A pass is an operator from fragments to         *)
(* fragments.  Nodes have no identity: an expression that occurs twice in  *)
(* a loop is rewritten in both places.                                     *)
(***************************************************************************)
EXTENDS KernelCode

---------------------------------------------------------------------------
(* Kernel inlining.                                                        *)

(* The parameters that offsets use are replaced by the arguments, in the   *)
(* whole loop, and their declarations removed.                             *)
cleanup(body, kernel, args) ==
    LET used == { d \in 1..2 :
                    \E off \in ToSet(ExprsOfKind(body, "off")) :
                      \E i \in DOMAIN off.a :
                        Contains(Subexprs(off.a[i]), Var(kernel.params[d])) }
        arg == [p \in { Var(kernel.params[d]) : d \in used } |->
                  args[CHOOSE d \in used : Var(kernel.params[d]) = p]]
    IN SelectSeq(RewriteIn(body, arg),
                 LAMBDA s : ~(s.k = "set" /\ Var(s.v) \in DOMAIN arg /\ s.decl))

(* The call in the loop becomes the body of the kernel, after declarations *)
(* of its parameters.                                                      *)
kernel_inlining(ss, kernel) ==
    LET inline(s) ==
          IF s.k = "for" /\ s.body[1].k = "call"
          THEN LET args == s.body[1].args
               IN [s EXCEPT !.body = cleanup(
                     [d \in 1..2 |-> Decl(kernel.params[d], args[d])]
                     \o kernel.body, kernel, args)]
          ELSE s
    IN <<>> \o [i \in DOMAIN ss |-> inline(ss[i])]

---------------------------------------------------------------------------
(* The gets of a fragment, each with its nearest conditional.              *)

Unguarded == [k |-> "none"]

RECURSIVE GetsIn(_, _)
GetsIn(e, guard) ==
    (IF e.k \in {"get", "reg"} THEN <<[e |-> e, guard |-> guard]>> ELSE <<>>)
    \o Concat([i \in DOMAIN e.a |->
         GetsIn(e.a[i], IF e.k = "cond" THEN [k |-> "cond"] ELSE guard)])

RECURSIVE Gets(_, _)
Gets(ss, guard) == Concat([i \in DOMAIN ss |->
    LET s == ss[i] IN
    CASE s.k = "if"  -> LET g == [k |-> "if", s |-> s]
                        IN GetsIn(s.c, g) \o Gets(s.t, g) \o Gets(s.f, g)
      [] s.k = "set" -> GetsIn(s.e, guard)
      [] s.k = "emit" -> GetsIn(s.e, guard)
      [] OTHER       -> <<>>])

---------------------------------------------------------------------------
(* Loop peeling: iterations whose gets may leave the grid get a loop of    *)
(* their own, so that the main loop loses their conditionals.              *)

(* The offset of a get along the loop, if a conditional may guard it.      *)
FindProfitablePeelSize(get, dim) ==
    IF get.guard.k = "none" \/ get.e.k # "get" \/ get.e.sil = <<>> THEN 0
    ELSE get.e.sil[dim]

PeelFirstIterationsKeepBegin(loop, size) ==
    << [loop EXCEPT !.test = Num(size), !.end = Num(size), !.kind = "FIRST"],
       [loop EXCEPT !.init = <<>>] >>

PeelFirstIterations(loop, size) ==
    << [loop EXCEPT !.test = Num(size), !.end = Num(size), !.kind = "FIRST"],
       [loop EXCEPT !.init = <<>>, !.begin = Op("max", @, Num(size))] >>

PeelLastIterationsOffByOne(loop, size) ==
    LET loop_end == Op("min", loop.end, Op("sub", Dim(loop.dim), Num(size)))
    IN << [loop EXCEPT !.test = loop_end, !.end = loop_end],
          [loop EXCEPT !.init = <<Op("add", loop_end, Num(1))>>,
                       !.begin = loop_end, !.kind = "LAST"] >>

PeelLastIterations(loop, size) ==
    LET loop_end == Op("min", loop.end, Op("sub", Dim(loop.dim), Num(size)))
    IN << [loop EXCEPT !.test = loop_end, !.end = loop_end],
          [loop EXCEPT !.begin = loop_end, !.kind = "LAST"] >>

(* What "loop variable = rhs" is known to be in a loop of that kind: only  *)
(* "false" is ever derived.                                                *)
InvolveGridSize(e, dim) ==
    IF e.k = "sub" /\ e.a[1] = Dim(dim) /\ e.a[2].k = "num"
    THEN e.a[2].n ELSE -1

EvaluatesToFalse(rhs, first, last, kind, dim) ==
    LET m == InvolveGridSize(rhs, dim) IN
    CASE m > 0 -> IF kind = "LAST" THEN m > last ELSE m <= last
      [] m <= 0 /\ rhs.k = "num" ->
           IF kind = "FIRST" THEN rhs.n >= first ELSE rhs.n < first
      [] OTHER -> FALSE

(* e = c, solved for the variable v: the other side.                       *)
RECURSIVE Isolate(_, _, _)
Isolate(e, c, v) ==
    LET fold(o, l, r) == IF l.k = "num" /\ r.k = "num" THEN Num(Eval(Op(o, l, r), <<>>))
                         ELSE Op(o, l, r)
    IN IF e = Var(v) THEN c
       ELSE Isolate(e.a[1], fold(IF e.k = "add" THEN "sub" ELSE "add", c, e.a[2]), v)

(* The only definition of a variable in the loop, or <<>>.                 *)
GetDeterministicDefinition(v, loop) ==
    LET sources == SelectSeq(Sets(loop.body), LAMBDA s : s.v = v)
    IN IF Len(sources) = 1 THEN <<sources[1].e>> ELSE <<>>

(* The right-hand side of an equality of the loop variable with something  *)
(* else, every other variable replaced by its definition in the loop.  The *)
(* result is <<>> if there is none.                                        *)
Equated(eq, loop) ==
    LET v == IndexVar[loop.dim]
        others == { e \in ToSet(Subexprs(eq)) : e.k = "var" /\ e.v # v }
        def(e) == GetDeterministicDefinition(e.v, loop)
        known == \A e \in others : def(e) # <<>>
        side(i) == Rewrite(eq.a[i], [e \in others |-> def(e)[1]])
        occurs(i) == Contains(Subexprs(eq.a[i]), Var(v))
        linear(i) == \A e \in ToSet(Subexprs(eq.a[i])) :
                        \/ e.k \in {"num", "var"}
                        \/ e.k \in {"add", "sub"} /\ e.a[2].k = "num"
    IN CASE ~known -> <<>>
         [] known /\ occurs(1) /\ linear(1) -> <<Isolate(eq.a[1], side(2), v)>>
         [] known /\ ~occurs(1) /\ occurs(2) /\ linear(2) ->
              <<Isolate(eq.a[2], side(1), v)>>
         [] OTHER -> <<>>

(* Equalities that cannot hold in the loop become false; a conditional     *)
(* statement on one becomes its false branch, as it stands.                *)
RECURSIVE RemoveDead(_, _)
RemoveDead(ss, sub) == Concat([i \in DOMAIN ss |->
    LET s == ss[i] IN
    CASE s.k = "if" /\ s.c \in DOMAIN sub -> s.f
      [] s.k = "if" /\ s.c \notin DOMAIN sub ->
           <<If(Rewrite(s.c, sub), RemoveDead(s.t, sub), RemoveDead(s.f, sub))>>
      [] OTHER -> RewriteIn(<<s>>, sub)])

RemoveDeadConditional(loop, first, last) ==
    LET dead(e) == LET rhs == Equated(e, loop)
                   IN rhs # <<>> /\ EvaluatesToFalse(rhs[1], first, last,
                                                    loop.kind, loop.dim)
        eqs == { e \in ToSet(ExprsOfKind(loop.body, "eq")) : dead(e) }
    IN [loop EXCEPT !.body = RemoveDead(@, [e \in eqs |-> Num(0)])]

PeelLoop(loop) ==
    LET gets == Gets(loop.body, Unguarded)
        size(i) == FindProfitablePeelSize(gets[i], loop.dim)
        before == { i \in DOMAIN gets : size(i) < 0 }
        after == { i \in DOMAIN gets : size(i) > 0 }
        \* only the grid found first is peeled at the end
        grid == gets[Min(after)].e.g
        first == IF before = {} THEN 0 ELSE Max({ -size(i) : i \in before })
        last == IF after = {} THEN 0
                ELSE Max({ size(i) : i \in { j \in after : gets[j].e.g = grid } })
        front == IF first > 0 THEN PeelFirstIterations(loop, first) ELSE <<loop>>
        main == front[Len(front)]
        back == IF last > 0 THEN PeelLastIterations(main, last) ELSE <<main>>
    IN <<>> \o [i \in 1..(Len(front) - 1 + Len(back)) |->
          RemoveDeadConditional((Front(front) \o back)[i], first, last)]

loop_peeling(ss) ==
    Concat([i \in DOMAIN ss |->
        IF ss[i].k = "for" THEN PeelLoop(ss[i]) ELSE <<ss[i]>>])

---------------------------------------------------------------------------
(* Unconditional gets: the conditional chooses an offset, and the get that *)
(* follows is done in any case.                                            *)

(* The get of the other branch of the same grid that is served with it:    *)
(* the last one, or <<>>.                                                  *)
PairedGet(get) ==
    LET s == get.guard.s
        inTrue == Contains(Exprs(s.t), get.e)
        peers == SelectSeq(Gets(IF inTrue THEN s.f ELSE s.t, Unguarded),
                           LAMBDA p : (IF p.e.k = "reg" THEN p.e.get ELSE p.e).g
                                      = get.e.g)
    IN IF peers = <<>> THEN <<>> ELSE <<peers[Len(peers)].e>>

(* GetOffset of the point itself.                                          *)
BuildGetOffsetCenter(offset) ==
    BuildGridOffset(offset.g, offset.ref,
        [d \in 1..2 |-> CHOOSE e \in ToSet(Subexprs(offset.a[d])) : e.k = "var"],
        FALSE, <<0, 0>>)

(* ProcessIfStmtStage1 and 2: the get moves in front of its conditional.   *)
ProcessIfStmt(ss, get) ==
    LET s == get.guard.s
        e == get.e
        pair == PairedGet(get)
        c == Fresh("c", ss)
        idx == Fresh("i", ss)
        v == Fresh("v", ss)
        other == IF pair = <<>> THEN BuildGetOffsetCenter(e.a[1])
                 ELSE (IF pair[1].k = "reg" THEN pair[1].get ELSE pair[1]).a[1]
        inTrue == Contains(Exprs(s.t), e)
        choose == If(Var(c), <<Set(idx, IF inTrue THEN e.a[1] ELSE other)>>,
                             <<Set(idx, IF inTrue THEN other ELSE e.a[1])>>)
        index == IF pair = <<>> /\ e.sil = <<0, 0>>
                 THEN <<Decl(idx, e.a[1])>>
                 ELSE <<Decl(idx, Num(0)), choose>>
        sub == [x \in {e} \cup ToSet(pair) |-> Var(v)]
    IN ReplaceStmt(ss, s,
         <<Decl(c, s.c)>> \o index
         \o <<Decl(v, BuildGridGet(e.g, Var(idx), <<>>)),
              If(Var(c), RewriteIn(s.t, sub), RewriteIn(s.f, sub))>>)

(* Every get that is still conditional when its turn comes.  A register is *)
(* never the base, and the gets of conditional expressions stay.           *)
UnconditionalIn(body) ==
    LET gets == Gets(body, Unguarded)
        process(b, get) ==
            LET now == SelectSeq(Gets(b, Unguarded), LAMBDA r : r.e = get.e)
            IN IF now # <<>> /\ get.e.k = "get" /\ now[1].guard.k = "if"
               THEN ProcessIfStmt(b, now[1]) ELSE b
    IN Iterate(process, body, gets)

unconditional_get(ss) ==
    <<>> \o [i \in DOMAIN ss |->
        IF ss[i].k = "for" THEN [ss[i] EXCEPT !.body = UnconditionalIn(@)]
        ELSE ss[i]]
=============================================================================
