----------------------------- MODULE KernelCode -----------------------------
(***************************************************************************)
(* The code that the reference translator generates for one map            *)
(* (src/translator/reference_translator.cc) and what running it does.      *)
(*                                                                         *)
(* An expression is a record with its kind k and its operands a; a         *)
(* statement is an assignment ("set", a declaration if decl), a            *)
(* conditional, a store into the result grid ("emit"), a call of the       *)
(* kernel, or a loop.  A code fragment is a sequence of statements.  The   *)
(* grids are two-dimensional, and the loop the optimizer works on, the     *)
(* innermost one, runs over dimension LoopDim: 1 in reference code, the    *)
(* last one in CUDA code, whose other indices come from the thread.        *)
(*                                                                         *)
(* A sequence [i \in ... |-> ...] is written <<>> \o [...] where it becomes *)
(* part of a fragment: TLC then evaluates its elements once.               *)
(***************************************************************************)
EXTENDS Integers, Sequences, SequencesExt, FiniteSets, FiniteSetsExt, TLC

CONSTANTS
    Dims        \* the extent of the grids: <<nx, ny>>

(* The index variables of the loop nest (getLoopIndexName).                *)
IndexVar == <<"x", "y">>

(* FoldLeft with every intermediate result bound, so that TLC computes it  *)
(* once.                                                                   *)
Iterate(step(_, _), base, seq) ==
    LET f[i \in 0..Len(seq)] ==
          IF i = 0 THEN base
          ELSE CHOOSE r \in { step(p, seq[i]) : p \in {f[i - 1]} } : TRUE
    IN f[Len(seq)]

(* FlattenSeq of a sequence whose elements are computed once.              *)
Concat(seqs) == FlattenSeq(<<>> \o seqs)

---------------------------------------------------------------------------
(* Expressions.                                                            *)

Num(n) == [k |-> "num", n |-> n, a |-> <<>>]
Var(v) == [k |-> "var", v |-> v, a |-> <<>>]
Op(o, l, r) == [k |-> o, a |-> <<l, r>>]
Cond(c, t, f) == [k |-> "cond", a |-> <<c, t, f>>]

(* PSGridDim(g, d-1): all grids of a kernel have the same extent here.     *)
Dim(d) == [k |-> "dim", d |-> d, a |-> <<>>]

Plus(e, n) == IF n = 0 THEN e ELSE Op("add", e, Num(n))

(* A call of __PSGridGetOffset2D or its periodic variant, with the         *)
(* attribute that says which stencil index it stands for.  ref is the form *)
(* of the grid reference: "g" (the kernel's parameter) or "s->g".          *)
BuildGridOffset(g, ref, idx, periodic, sil) ==
    [k |-> "off", g |-> g, ref |-> ref, per |-> periodic, sil |-> sil,
     a |-> <<>> \o idx]

(* The element of g->p0 at an offset, with the same attribute (<<>>: none). *)
BuildGridGet(g, offset, sil) ==
    [k |-> "get", g |-> g, sil |-> sil, a |-> <<offset>>]

(* A register that stands for a get; it keeps the attribute of the get.    *)
Reg(v, get) == [k |-> "reg", v |-> v, get |-> get, a |-> <<>>]

(* PSGridGet(g, px + sil[1], py + sil[2]) in a kernel.                     *)
translateGet(g, params, sil, periodic) ==
    BuildGridGet(g, BuildGridOffset(g, "g",
        [d \in 1..2 |-> Plus(Var(params[d]), sil[d])], periodic, sil), sil)

---------------------------------------------------------------------------
(* Statements.                                                             *)

Set(v, e) == [k |-> "set", v |-> v, e |-> e, decl |-> FALSE]
Decl(v, e) == [k |-> "set", v |-> v, e |-> e, decl |-> TRUE]
If(c, t, f) == [k |-> "if", c |-> c, t |-> t, f |-> f]
Call(args) == [k |-> "call", args |-> args]

(* PSGridEmit(g, e) in a kernel.                                           *)
translateEmit(g, params, e) ==
    [k |-> "emit", e |-> e,
     at |-> BuildGridOffset(g, "g", [d \in 1..2 |-> Var(params[d])], FALSE,
                            <<0, 0>>)]

(* A loop over IndexVar[dim].  init is <<>> or <<first index>>, and begin, *)
(* end and kind are the attribute RunKernelLoopAttribute.                  *)
For(dim, init, test, begin, end, kind, body) ==
    [k |-> "for", dim |-> dim, init |-> init, test |-> test,
     begin |-> begin, end |-> end, kind |-> kind, body |-> body]

(* The innermost loop around the call of the kernel.  The loops outside of *)
(* it are played by Run.                                                   *)
BuildRunKernelBody(dim, min, max) ==
    << For(dim, <<Num(min[dim])>>, Num(max[dim]), Num(min[dim]), Num(max[dim]),
           "MAIN", <<Call(<<Var("x"), Var("y")>>)>>) >>

---------------------------------------------------------------------------
(* Traversals.                                                             *)

RECURSIVE Subexprs(_)
Subexprs(e) == <<e>> \o Concat([i \in DOMAIN e.a |-> Subexprs(e.a[i])])

(* All expressions of a fragment, outermost first.                         *)
RECURSIVE Exprs(_)
Exprs(ss) == Concat([i \in DOMAIN ss |->
    LET s == ss[i] IN
    CASE s.k = "set"  -> Subexprs(s.e)
      [] s.k = "emit" -> Subexprs(s.at) \o Subexprs(s.e)
      [] s.k = "if"   -> Subexprs(s.c) \o Exprs(s.t) \o Exprs(s.f)
      [] s.k = "for"  -> Exprs(s.body)
      [] OTHER        -> <<>>])

ExprsOfKind(ss, k) == SelectSeq(Exprs(ss), LAMBDA e : e.k = k)

(* The assignments of a fragment, those of nested statements included.     *)
RECURSIVE Sets(_)
Sets(ss) == Concat([i \in DOMAIN ss |->
    LET s == ss[i] IN
    CASE s.k = "set" -> <<s>>
      [] s.k = "if"  -> Sets(s.t) \o Sets(s.f)
      [] s.k = "for" -> [j \in DOMAIN s.init |-> Set(IndexVar[s.dim], s.init[j])]
                        \o Sets(s.body)
                        \o <<Set(IndexVar[s.dim],
                                 Plus(Var(IndexVar[s.dim]), 1))>>
      [] OTHER       -> <<>>])

Vars(ss) == { s.v : s \in ToSet(Sets(ss)) }

(* generateUniqueName                                                      *)
Fresh(tag, ss) == tag \o ToString(Cardinality(Vars(ss)))

(* Expressions of the domain of sub are replaced by their images.          *)
RECURSIVE Rewrite(_, _)
Rewrite(e, sub) ==
    IF e \in DOMAIN sub THEN sub[e]
    ELSE [e EXCEPT !.a = <<>> \o [i \in DOMAIN e.a |-> Rewrite(e.a[i], sub)]]

RECURSIVE RewriteIn(_, _)
RewriteIn(ss, sub) == <<>> \o [i \in DOMAIN ss |->
    LET s == ss[i] IN
    CASE s.k = "set"  -> [s EXCEPT !.e = Rewrite(s.e, sub)]
      [] s.k = "emit" -> [s EXCEPT !.e = Rewrite(s.e, sub),
                                   !.at = Rewrite(s.at, sub)]
      [] s.k = "if"   -> If(Rewrite(s.c, sub), RewriteIn(s.t, sub),
                            RewriteIn(s.f, sub))
      [] s.k = "for"  -> [s EXCEPT !.body = RewriteIn(s.body, sub)]
      [] OTHER        -> s]

(* Statement old is replaced by the fragment new, wherever it occurs.      *)
RECURSIVE ReplaceStmt(_, _, _)
ReplaceStmt(ss, old, new) == Concat([i \in DOMAIN ss |->
    LET s == ss[i] IN
    CASE s = old     -> new
      [] s.k = "if"  -> <<If(s.c, ReplaceStmt(s.t, old, new),
                                  ReplaceStmt(s.f, old, new))>>
      [] s.k = "for" -> <<[s EXCEPT !.body = ReplaceStmt(s.body, old, new)]>>
      [] OTHER       -> <<s>>])

---------------------------------------------------------------------------
(* Running the code.  m.env is the value of each variable, m.out what was  *)
(* stored, m.ran the iterations that were run, in order, and m.entry says  *)
(* for each loop where it began and where its attribute says it does.      *)

(* The contents of the grids: every cell is a power of two of its own, so  *)
(* that a sum tells which cells were added.  An address outside of the     *)
(* grid gives the last power: no result may depend on it.                  *)
Cell(g, addr) ==
    LET n == Dims[1] * Dims[2] IN
    IF addr \in 0..n-1 THEN 2 ^ (addr + IF g = "h" THEN n ELSE 0)
    ELSE 2 ^ (2 * n)

(* __PSGridGetOffset2D and __PSGridGetOffsetPeriodic2D.                    *)
PSGridGetOffset2D(i1, i2, periodic) ==
    LET wrap(i, d) == IF periodic THEN (i + Dims[d]) % Dims[d] ELSE i
    IN wrap(i1, 1) + wrap(i2, 2) * Dims[1]

RECURSIVE Eval(_, _)
Eval(e, env) ==
    LET x(i) == Eval(e.a[i], env)
    IN CASE e.k = "num"  -> e.n
         [] e.k \in {"var", "reg"} -> env[e.v]
         [] e.k = "dim"  -> Dims[e.d]
         [] e.k = "add"  -> x(1) + x(2)
         [] e.k = "sub"  -> x(1) - x(2)
         [] e.k = "mul"  -> x(1) * x(2)
         [] e.k = "mod"  -> x(1) % x(2)
         [] e.k = "min"  -> IF x(1) < x(2) THEN x(1) ELSE x(2)
         [] e.k = "max"  -> IF x(1) > x(2) THEN x(1) ELSE x(2)
         [] e.k = "eq"   -> IF x(1) = x(2) THEN 1 ELSE 0
         [] e.k = "lt"   -> IF x(1) < x(2) THEN 1 ELSE 0
         [] e.k = "cond" -> IF x(1) # 0 THEN x(2) ELSE x(3)
         [] e.k = "off"  -> PSGridGetOffset2D(x(1), x(2), e.per)
         [] e.k = "get"  -> Cell(e.g, x(1))

Assign(m, v, val) == [m EXCEPT !.env = (v :> val) @@ @]

RECURSIVE Exec(_, _, _)
Exec(ss, kernel, m) ==
    LET step(n, s) ==
        CASE s.k = "set"  -> Assign(n, s.v, Eval(s.e, n.env))
          [] s.k = "emit" -> [n EXCEPT !.out =
                                (Eval(s.at, n.env) :> Eval(s.e, n.env)) @@ @]
          [] s.k = "if"   -> Exec(IF Eval(s.c, n.env) # 0 THEN s.t ELSE s.f,
                                  kernel, n)
          [] s.k = "call" -> Exec([d \in 1..2 |->
                                     Decl(kernel.params[d], s.args[d])]
                                  \o kernel.body, kernel, n)
          [] s.k = "for"  ->
               LET v == IndexVar[s.dim]
                   first == IF s.init = <<>> THEN n.env[v]
                            ELSE Eval(s.init[1], n.env)
                   last == Eval(s.test, n.env)
                   n0 == [Assign(n, v, first) EXCEPT !.entry =
                             Append(@, [kind |-> s.kind, first |-> first,
                                        begin |-> Eval(s.begin, n.env)])]
                   iter(p, i) ==
                      LET q == Exec(s.body, kernel,
                                    [p EXCEPT !.ran = Append(@, i)])
                      IN Assign(q, v, i + 1)
               IN Iterate(iter, n0, [j \in 1..Max({0, last - first}) |-> first + j - 1])
    IN Iterate(step, m, ss)

(* The whole map: the fragment is run for every index of the other         *)
(* dimension.                                                              *)
Run(ss, kernel, dim, min, max) ==
    LET o == 3 - dim
        row(j) == Exec(ss, kernel,
                     [env |-> (IndexVar[o] :> j), out |-> <<>>, ran |-> <<>>,
                      entry |-> <<>>])
    IN [j \in min[o]..(max[o] - 1) |-> row(j)]

(* The result of the map: what every row stored.                           *)
Result(ss, kernel, dim, min, max) ==
    LET r == Run(ss, kernel, dim, min, max)
    IN [j \in DOMAIN r |-> r[j].out]
=============================================================================
