------------------------------ MODULE LoopOpt -------------------------------
(***************************************************************************)
(* The last passes on the main loop: what both branches of an invariant    *)
(* conditional add is factored out, what only one of them adds moves in    *)
(* front of the loop, and variables nobody reads are removed               *)
(* (src/translator/optimizer/loop_opt.cc, premitive_optimization.cc and    *)
(* optimization_common.cc).                                                *)
(***************************************************************************)
EXTENDS CodePasses

---------------------------------------------------------------------------
(* Loop invariants.                                                        *)

(* The sources of a variable, assignments before declarations.  A variable *)
(* declared in the loop is unknown outside of it.                          *)
GetVariableSrc(v, loop, ss) ==
    LET declared == \E s \in ToSet(Sets(<<loop>>)) : s.v = v /\ s.decl
        all == Sets(IF declared THEN <<loop>> ELSE ss)
    IN SelectSeq(all, LAMBDA s : s.v = v /\ ~s.decl)
       \o SelectSeq(all, LAMBDA s : s.v = v /\ s.decl)

(* A variable is invariant if it has one assignment in the loop at most,   *)
(* the first of its sources, of something invariant.                       *)
RECURSIVE IsLoopInvariant(_, _, _, _)
IsLoopInvariant(e, loop, ss, stack) ==
    CASE e.k \in {"num", "dim"} -> TRUE
      [] e.k = "var" ->
           LET src == GetVariableSrc(e.v, loop, ss)
               inside == ToSet(Sets(<<loop>>))
           IN /\ e.v \notin stack
              /\ \A i \in DOMAIN src :
                   src[i] \in inside =>
                     i = 1 /\ IsLoopInvariant(src[i].e, loop, ss, stack \cup {e.v})
      [] e.k \in {"off", "get", "reg", "cond"} -> FALSE
      [] OTHER -> \A i \in DOMAIN e.a : IsLoopInvariant(e.a[i], loop, ss, stack)

(* The expression as it can be written in front of the loop.               *)
RECURSIVE GetLoopInvariantExpression(_, _)
GetLoopInvariantExpression(e, loop) ==
    LET src == SelectSeq(Sets(<<loop>>), LAMBDA s : e.k = "var" /\ s.v = e.v)
    IN IF src # <<>> THEN GetLoopInvariantExpression(src[1].e, loop)
       ELSE [e EXCEPT !.a = <<>> \o [i \in DOMAIN e.a |->
                                GetLoopInvariantExpression(e.a[i], loop)]]

---------------------------------------------------------------------------
(* Two assignments to one variable, one of each branch.                    *)

IsEquivalent(e1, e2) == e1.k \in {"num", "var"} /\ e1 = e2

(* What is left of a pair of operands when f's operand j equals t's        *)
(* operand i: both sides keep the operand opposite to i.                   *)
Reduced(te, fe, i, j) == << te[3 - i], fe[3 - i] >>

(* The operands of a sum, or the single operand.  Anything else that is    *)
(* binary is not supported.                                                *)
Operands(e) == IF e.k = "add" THEN <<<<e.a[1]>>, <<e.a[2]>>>> ELSE <<<<e>>, <<>>>>
Supported(e) == e.k \notin {"sub", "mul", "mod", "eq", "lt", "get"}

(* One round compares every operand with every other; an optional operand  *)
(* is <<>> or <<e>>.  The loop ends when a round finds nothing in common.  *)
RECURSIVE Extract(_, _, _)
Extract(t, f, common) ==
    LET done == [ok |-> TRUE, t |-> t, f |-> f, common |-> common]
        compare(r, p) ==
            LET i == p[1]
                j == p[2]
            IN IF /\ r.te[i] # <<>> /\ r.fe[j] # <<>>
                  /\ IsEquivalent(r.te[i][1], r.fe[j][1])
               THEN [te |-> [r.te EXCEPT ![i] = <<>>],
                     fe |-> [r.fe EXCEPT ![j] = <<>>],
                     left |-> Reduced(r.te, r.fe, i, j),
                     common |-> r.common \o r.te[i]]
               ELSE r
        round == Iterate(compare,
                   [te |-> Operands(t[1]), fe |-> Operands(f[1]),
                    left |-> <<t, f>>, common |-> common],
                   << <<1, 1>>, <<1, 2>>, <<2, 1>>, <<2, 2>> >>)
    IN IF t = <<>> \/ f = <<>> THEN done
       ELSE IF ~(Supported(t[1]) /\ Supported(f[1])) THEN [done EXCEPT !.ok = FALSE]
       ELSE IF round.common = common THEN done
       ELSE Extract(round.left[1], round.left[2], round.common)

SumOf(es) == Iterate(LAMBDA s, e : Op("add", s, e), Head(es), Tail(es))

(* The fragment is <<before the loop..., the loop>>; s is the conditional. *)
(* The common part is assigned in front of the conditional, and the rest   *)
(* added in the branches or, if it is invariant, before the loop.          *)
ProcessAssignment(ss, prog, s, t, f) ==
    LET loop == Last(ss)
        v == t.v
        r == Extract(<<t.e>>, <<f.e>>, <<>>)
        rest == r.t \o r.f
        moved == /\ rest # <<>>
                 /\ \A i \in DOMAIN rest : IsLoopInvariant(rest[i], loop, prog, {})
        m == Fresh("m", ss)
        outside(x) == IF x = <<>> THEN Num(0)
                      ELSE GetLoopInvariantExpression(x[1], loop)
        before == IF moved
                  THEN <<If(GetLoopInvariantExpression(s.c, loop),
                            <<Set(m, outside(r.t))>>, <<Set(m, outside(r.f))>>)>>
                  ELSE <<>>
        sum == SumOf(Reverse(r.common))
        common == Set(v, IF moved THEN Op("add", sum, Var(m)) ELSE sum)
        branch(b, a, x) ==
            ReplaceStmt(b, a, IF x = <<>> \/ moved THEN <<>>
                              ELSE <<Set(v, Op("add", Var(v), x[1]))>>)
        new == <<common, If(s.c, branch(s.t, t, r.t), branch(s.f, f, r.f))>>
    IN IF t.v # f.v \/ ~r.ok \/ r.common = <<>> THEN ss
       ELSE Front(ss) \o before
            \o <<[loop EXCEPT !.body = ReplaceStmt(@, s, new)]>>

(* The conditionals of a fragment, outermost first.                        *)
RECURSIVE Ifs(_)
Ifs(ss) == Concat([i \in DOMAIN ss |->
    IF ss[i].k = "if" THEN <<ss[i]>> \o Ifs(ss[i].t) \o Ifs(ss[i].f) ELSE <<>>])

(* Every pair of assignments of the two branches of an invariant           *)
(* conditional; the conditional changes with each of them.                 *)
MoveInvariantOutOfBranch(ss, prog, s) ==
    LET pairs == Concat([i \in DOMAIN s.t |->
                    [j \in DOMAIN s.f |-> <<s.t[i], s.f[j]>>]])
        assigns(p) == p[1].k = "set" /\ p[2].k = "set" /\ ~p[1].decl /\ ~p[2].decl
        now(r, p) == SelectSeq(Ifs(Last(r).body), LAMBDA x :
                         x.c = s.c /\ Contains(x.t, p[1]) /\ Contains(x.f, p[2]))
    IN Iterate(LAMBDA r, p : IF now(r, p) = <<>> THEN r
                              ELSE ProcessAssignment(r, prog, now(r, p)[1], p[1], p[2]),
                ss, SelectSeq(pairs, assigns))

(* An empty conditional on an invariant variable goes away.                *)
RemoveEmptyConditional(loop, prog) ==
    LET empty(s) == /\ s.c.k = "var" /\ s.t = <<>> /\ s.f = <<>>
                    /\ IsLoopInvariant(s.c, loop, prog, {})
    IN [loop EXCEPT !.body = Iterate(
            LAMBDA b, s : IF empty(s) THEN ReplaceStmt(b, s, <<>>) ELSE b,
            @, Ifs(@))]

loop_opt(ss) ==
    LET invariant(s, loop) == IsLoopInvariant(s.c, loop, ss, {})
        process(loop) ==
            LET r == Iterate(LAMBDA x, s : IF invariant(s, loop)
                                            THEN MoveInvariantOutOfBranch(x, ss, s)
                                            ELSE x,
                              <<loop>>, Ifs(loop.body))
            IN Append(Front(r), RemoveEmptyConditional(Last(r), ss))
    IN OnMainLoops(ss, process)

---------------------------------------------------------------------------
(* Variables declared in a loop and never read are removed, with the       *)
(* assignments to them: expressions without effect.  Only the offset calls *)
(* stay, as statements.                                                    *)

Reads(ss) == { e.v : e \in ToSet(ExprsOfKind(ss, "var")) \cup
                           ToSet(ExprsOfKind(ss, "reg")) }

RECURSIVE RemoveSets(_, _)
RemoveSets(ss, dead) == Concat([i \in DOMAIN ss |->
    LET s == ss[i] IN
    CASE s.k = "set" /\ s.v \in dead -> <<>>
      [] s.k = "if" -> <<If(s.c, RemoveSets(s.t, dead), RemoveSets(s.f, dead))>>
      [] OTHER -> <<s>>])

RECURSIVE EliminateDeadCode(_)
EliminateDeadCode(body) ==
    LET dead == { s.v : s \in { x \in ToSet(Sets(body)) : x.decl } } \ Reads(body)
    IN IF dead = {} THEN body ELSE EliminateDeadCode(RemoveSets(body, dead))

premitive_optimization(ss) ==
    <<>> \o [i \in DOMAIN ss |->
        IF ss[i].k = "for" THEN [ss[i] EXCEPT !.body = EliminateDeadCode(@)]
        ELSE ss[i]]
=============================================================================
