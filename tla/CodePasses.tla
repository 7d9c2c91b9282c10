----------------------------- MODULE CodePasses -----------------------------
(***************************************************************************)
(* The optimization passes that work on the body of the main loop:         *)
(* register blocking, the two passes on offsets, and the loop optimization *)
(* (src/translator/optimizer/register_blocking.cc, offset_cse.cc,          *)
(* offset_spatial_cse.cc, loop_opt.cc).  Each of them maps a fragment and  *)
(* leaves the loops peeled off alone.                                      *)
(***************************************************************************)
EXTENDS LoopPasses

(* A pass on the main loop returns what comes before the loop as well.     *)
OnMainLoops(ss, pass(_)) ==
    Concat([i \in DOMAIN ss |->
        IF ss[i].k = "for" /\ ss[i].kind = "MAIN" THEN pass(ss[i]) ELSE <<ss[i]>>])

---------------------------------------------------------------------------
(* Register blocking: a value loaded once moves through registers from     *)
(* iteration to iteration.                                                 *)

(* Groups of indices of one grid that differ along the loop only.          *)
FindCandidateIndices(indices, dim) ==
    { c \in { { j \in indices : j[3 - dim] = b[3 - dim] } : b \in indices } :
        Cardinality(c) > 1 }

(* The lowest and highest index of a group; those in between are blocked   *)
(* too.                                                                    *)
FillStencilHole(group, dim) ==
    <<Min({ j[dim] : j \in group }), Max({ j[dim] : j \in group })>>

(* A get of the loop for an index, and whether it is periodic.  An index   *)
(* that no get has is periodic if one on the same side is.                 *)
GetsAt(loop, sil) ==
    { e \in ToSet(ExprsOfKind(loop.body, "get")) : e.sil = sil }

ShouldGetPeriodic(loop, group, dim, index) ==
    \E j \in group :
       /\ index * j[dim] > 0
       /\ \E e \in GetsAt(loop, j) : e.a[1].per

(* The get of an index, made for the loop at the expression at: the grid   *)
(* becomes the one in scope, the indices those of the loop.                *)
IndexedGet(loop, g, index, at, periodic) ==
    BuildGridGet(g, BuildGridOffset(g, "s->g",
        [d \in 1..2 |-> Plus(IF d = loop.dim THEN at ELSE Var(IndexVar[d]), index[d])],
        periodic, index), index)

(* Registers lo..hi of one group: loaded before the loop, moved and        *)
(* reloaded at the head of its body, and used in place of the gets.        *)
DoRegisterBlockingOneLine(loop, g, group) ==
    LET dim == loop.dim
        bounds == FillStencilHole(group, dim)
        lo == bounds[1]
        hi == bounds[2]
        other == (CHOOSE j \in group : TRUE)[3 - dim]
        index(i) == IF dim = 1 THEN <<i, other>> ELSE <<other, i>>
        reg(i) == "r" \o g \o ToString(other) \o "_" \o ToString(i)
        gets(i) == { e \in GetsAt(loop, index(i)) : e.g = g }
        periodic(i) == IF gets(i) # {} THEN \E e \in gets(i) : e.a[1].per
                       ELSE ShouldGetPeriodic(loop, group, dim, i)
        get(i, at) == IndexedGet(loop, g, index(i), at, periodic(i))
        width == hi - lo
        loads == <<>> \o [n \in 1..width |-> Decl(reg(lo + n), get(lo + n - 1, loop.begin))]
        moves == <<>> \o [n \in 1..width |-> Set(reg(lo + n - 1), Var(reg(lo + n)))]
        next == <<Set(reg(hi), get(hi, Var(IndexVar[dim])))>>
        used == UNION { gets(i) : i \in lo..hi }
        body == RewriteIn(loop.body, [e \in used |-> Reg(reg(e.sil[dim]), e)])
    IN loads \o << [loop EXCEPT !.body = moves \o next \o body] >>

(* Every group of every grid of the map's ranges, grid by grid.            *)
DoRegisterBlocking(loop, ranges) ==
    LET groups == UNION { { <<g, c>> : c \in FindCandidateIndices(ranges[g], loop.dim) } :
                          g \in DOMAIN ranges }
        block(ss, p) == Front(ss) \o DoRegisterBlockingOneLine(Last(ss), p[1], p[2])
    IN Iterate(block, <<loop>>, SetToSeq(groups))

register_blocking(ss, ranges) ==
    OnMainLoops(ss, LAMBDA loop : DoRegisterBlocking(loop, ranges))

---------------------------------------------------------------------------
(* Offsets that share their grid are computed from the offset of the       *)
(* point.                                                                  *)

(* What one dimension adds to the base offset.                             *)
OffsetTerm(off, d) ==
    LET wrapped == Op("sub", Op("mod", Op("add", off.a[d], Dim(d)), Dim(d)),
                      CHOOSE e \in ToSet(Subexprs(off.a[d])) : e.k = "var")
        n == IF off.per THEN wrapped ELSE Num(off.sil[d])
    IN IF off.sil[d] = 0 THEN Num(0)
       ELSE IF d = 1 THEN n ELSE Op("mul", Dim(1), n)

replace_offset(off, base) ==
    Op("add", Op("add", Var(base), OffsetTerm(off, 1)), OffsetTerm(off, 2))

(* The base goes to the head of the body: after inlining, its indices are  *)
(* the loop variables.                                                     *)
insert_base_offset(body, off, base) ==
    <<Decl(base, BuildGetOffsetCenter(off))>> \o body

do_offset_cse(loop, offsets, base) ==
    [loop EXCEPT !.body =
        insert_base_offset(RewriteIn(@, [o \in offsets |-> replace_offset(o, base)]),
                           CHOOSE o \in offsets : TRUE, base)]

(* One base for each grid expression with several offsets.                 *)
offset_cse(ss) ==
    LET refs(loop) == { <<o.g, o.ref>> : o \in ToSet(ExprsOfKind(loop.body, "off")) }
        of(loop, p) == SelectSeq(ExprsOfKind(loop.body, "off"),
                                 LAMBDA o : o.g = p[1] /\ o.ref = p[2])
        cse(l, p) == IF Len(of(l, p)) <= 1 THEN l
                     ELSE do_offset_cse(l, ToSet(of(l, p)), "b" \o p[1] \o p[2])
    IN OnMainLoops(ss, LAMBDA loop :
          <<Iterate(cse, loop, SetToSeq(refs(loop)))>>)

---------------------------------------------------------------------------
(* Offsets are carried from iteration to iteration.                        *)

(* By how much an offset grows when the loop takes a step.                 *)
OffsetIncrementFlat(off, dim) == IF dim = 1 THEN Num(1) ELSE Dim(1)

OffsetIncrement(off, dim) ==
    LET i == Plus(Var(IndexVar[dim]), off.sil[dim])
        wrap(e) == Op("mod", Op("add", e, Dim(dim)), Dim(dim))
        step == Op("sub", wrap(Op("add", i, Num(1))), wrap(i))
    IN CASE off.per /\ dim = 1  -> step
         [] off.per /\ dim = 2  -> Op("mul", Dim(1), step)
         [] ~off.per /\ dim = 1 -> Num(1)
         [] ~off.per /\ dim = 2 -> Dim(1)

(* The offset for the first index of the loop: its loop variable replaced. *)
replace_initial_index(off, loop) ==
    [off EXCEPT !.a[loop.dim] = Rewrite(@, (Var(IndexVar[loop.dim]) :> loop.begin))]

(* The variable of an offset: its own if a declaration computes it.        *)
do_offset_spatial_cse(ss, off) ==
    LET loop == Last(ss)
        dim == loop.dim
        decls == SelectSeq(loop.body, LAMBDA s : s.k = "set" /\ s.decl /\ s.e = off)
        v == IF decls # <<>> THEN decls[1].v ELSE Fresh("o", ss)
        initial == replace_initial_index(off, loop)
        kept == SelectSeq(loop.body, LAMBDA s : \A i \in DOMAIN decls : s # decls[i])
        body == RewriteIn(kept, (off :> Var(v)))
        incr == Set(v, Op("add", Var(v), OffsetIncrement(off, dim)))
    IN Front(ss) \o << Decl(v, initial), [loop EXCEPT !.body = Append(body, incr)] >>

offset_spatial_cse(ss) ==
    OnMainLoops(ss, LAMBDA loop :
        LET offsets == ExprsOfKind(loop.body, "off")
        IN Iterate(LAMBDA r, o : IF Contains(ExprsOfKind(Last(r).body, "off"), o)
                                  THEN do_offset_spatial_cse(r, o) ELSE r,
                    <<loop>>, offsets))
=============================================================================
