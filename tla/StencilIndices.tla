--------------------------- MODULE StencilIndices ---------------------------
(***************************************************************************)
(* The analysis of the indices of PSGridGet and the ranges they make up    *)
(* (src/translator/stencil_analysis.cc, stencil_range.cc), and the points  *)
(* that the exchange generated from a range makes available.               *)
(*                                                                         *)
(* An index expression is a record with its kind k; constants are folded   *)
(* before an index is looked at, so two constants are never added.         *)
(***************************************************************************)
EXTENDS Integers, Sequences, FiniteSets, SequencesExt, TLC

Const(n) == [k |-> "num", n |-> n]
Param(i) == [k |-> "param", i |-> i]    \* the i-th parameter of the function
Local(n) == [k |-> "local", n |-> n]    \* a local variable whose value is n
Add(l, r) == [k |-> "add", l |-> l, r |-> r]
Sub(l, r) == [k |-> "sub", l |-> l, r |-> r]
Neg(e) == [k |-> "neg", e |-> e]

(* A stencil index: the parameter it is relative to (0: none, negative:    *)
(* subtracted from the offset) and the offset.                             *)
Index(dim, offset) == [dim |-> dim, offset |-> offset]

RECURSIVE AnalyzeStencilIndex(_)

(* An operand of a sum: one that is not accepted counts as the constant 0. *)
Operand(e) == LET r == AnalyzeStencilIndex(e)
              IN IF r = {} THEN Index(0, 0) ELSE CHOOSE i \in r : TRUE

(* The set of results: empty if the expression is not accepted.            *)
AnalyzeStencilIndex(e) ==
    LET Sum(l, r, sign) ==
            CASE l.dim # 0 /\ r.dim # 0 -> {}
              [] l.dim # 0 /\ r.dim = 0 ->
                   {Index(l.dim, sign * r.offset + l.offset)}
              [] l.dim = 0 /\ r.dim # 0 ->
                   {Index(sign * r.dim, l.offset + sign * r.offset)}
              [] OTHER -> {}
    IN CASE e.k = "num" -> {Index(0, e.n)}
         [] e.k = "param" -> {Index(e.i, 0)}
         [] e.k = "local" -> {}
         [] e.k = "add" -> Sum(Operand(e.l), Operand(e.r), 1)
         [] e.k = "sub" -> Sum(Operand(e.l), Operand(e.r), -1)
         [] e.k = "neg" -> {Index(-i.dim, -i.offset) : i \in AnalyzeStencilIndex(e.e)}

RECURSIVE Aborts(_)
(* A sum of two operands that are relative to no parameter stops the       *)
(* translator, wherever it is in the index.                                *)
Aborts(e) ==
    CASE e.k \in {"add", "sub"} ->
           \/ Aborts(e.l) \/ Aborts(e.r)
           \/ Operand(e.l).dim = 0 /\ Operand(e.r).dim = 0
      [] e.k = "neg" -> Aborts(e.e)
      [] OTHER -> FALSE

(* The index list of a get: the set of results again.                      *)
IndexLists(idx) ==
    LET r == [i \in DOMAIN idx |-> AnalyzeStencilIndex(idx[i])]
    IN IF \E i \in DOMAIN idx : r[i] = {} \/ Aborts(idx[i]) THEN {}
       ELSE {[i \in DOMAIN idx |-> CHOOSE x \in r[i] : TRUE]}

---------------------------------------------------------------------------
(* Ranges: for every argument of the gets, the smallest and the largest    *)
(* offset for each parameter they are relative to.                         *)

NoAccess == <<>>    \* the function of an argument that nothing was seen of

EmptyRange(nd) == [min |-> [i \in 1..nd |-> NoAccess],
                   max |-> [i \in 1..nd |-> NoAccess], diagonal |-> FALSE]

(* min_indices_ with a stencil index that may be smaller.                  *)
Lower(f, si) ==
    IF si.dim \in DOMAIN f /\ f[si.dim] <= si.offset THEN f
    ELSE (si.dim :> si.offset) @@ f

(* max_indices_ with a stencil index that may be larger.                   *)
Raise(f, si) ==
    IF si.dim \in DOMAIN f /\ f[si.dim] >= si.offset THEN f
    ELSE (si.dim :> si.offset) @@ f

NonZero(sil) == Cardinality({i \in DOMAIN sil : sil[i].offset # 0})

\* Mutated form of insert: offsets in two dimensions are not diagonal yet.
insertDiagonalIn3D(sr, sil) ==
    [min |-> [i \in DOMAIN sil |-> Lower(sr.min[i], sil[i])],
     max |-> [i \in DOMAIN sil |-> Raise(sr.max[i], sil[i])],
     diagonal |-> sr.diagonal \/ NonZero(sil) > 2]

insert(sr, sil) ==
    [min |-> [i \in DOMAIN sil |-> Lower(sr.min[i], sil[i])],
     max |-> [i \in DOMAIN sil |-> Raise(sr.max[i], sil[i])],
     diagonal |-> sr.diagonal \/ NonZero(sil) > 1]

IsNeighborAccess(sr) == \A i \in DOMAIN sr.min : DOMAIN sr.min[i] = {i}

IsZero(sr) ==
    \/ sr.min[1] = NoAccess
    \/ IsNeighborAccess(sr) /\ \A i \in DOMAIN sr.min : sr.min[i][i] = 0 /\ sr.max[i][i] = 0

IsUniqueDim(sr) == \A i \in DOMAIN sr.min : Cardinality(DOMAIN sr.min[i]) = 1

\* Mutated form of GetMaxWidth: only the upper side is looked at.
GetMaxWidthUpper(sr) ==
    LET offsets == UNION {{sr.max[i][d] : d \in DOMAIN sr.max[i]} : i \in DOMAIN sr.max}
    IN CHOOSE w \in offsets \cup {-1} : \A x \in offsets \cup {-1} : x <= w

(* The largest distance of an access from its point.                       *)
GetMaxWidth(sr) ==
    LET offsets == UNION {UNION {{-sr.min[i][d], sr.max[i][d]} : d \in DOMAIN sr.min[i]} :
                            i \in DOMAIN sr.min}
    IN CHOOSE w \in offsets \cup {-1} : \A x \in offsets \cup {-1} : x <= w

---------------------------------------------------------------------------
(* What a get reads, and what is there to be read.                         *)

RECURSIVE Value(_, _)
(* The value of an index expression at a point.                            *)
Value(e, pt) ==
    CASE e.k = "num" -> e.n
      [] e.k = "local" -> e.n
      [] e.k = "param" -> pt[e.i]
      [] e.k = "add" -> Value(e.l, pt) + Value(e.r, pt)
      [] e.k = "sub" -> Value(e.l, pt) - Value(e.r, pt)
      [] e.k = "neg" -> -Value(e.e, pt)

(* The halo that __PSLoadNeighbor fetches reaches from the lowest offset   *)
(* below zero to the highest above it.                                     *)
LoadedByNeighbor(sr, pt, at) ==
    /\ \A i \in DOMAIN at :
         at[i] - pt[i] \in (sr.min[i][i]..0) \cup (0..sr.max[i][i])
    /\ Cardinality({i \in DOMAIN at : at[i] # pt[i]}) > 1 => sr.diagonal

(* __PSLoadSubgrid2D and 3D fetch the process's part, moved by the lowest  *)
(* offset; for its last point, that is the only offset that is there.      *)
LoadedBySubgrid(sr, pt, at) ==
    \A i \in DOMAIN at : \E d \in DOMAIN sr.min[i] :
        at[i] = sr.min[i][d] + (IF d = 0 THEN 0 ELSE IF d < 0 THEN -pt[-d] ELSE pt[d])
=============================================================================
