-------------------------- MODULE StencilSemantics --------------------------
(***************************************************************************)
(* What a Physis program means (docs/programming.md): its operations take  *)
(* effect one after the other in the order of the program, and applying a  *)
(* map changes all points of its domain at once.  Programs are sequences   *)
(* of operations; PSStencilRun stands for its maps, in order, as often as  *)
(* its count says.                                                         *)
(***************************************************************************)
EXTENDS Integers, Sequences, SequencesExt, FiniteSets, FiniteSetsExt

CONSTANTS
    Dim,        \* the extent of the grids: <<nx, ny, nz>>
    Grids,      \* the grids of the program
    Programs    \* the programs

Point == (0..Dim[1] - 1) \X (0..Dim[2] - 1) \X (0..Dim[3] - 1)

(* The point that r reads for p; a periodic get wraps around.              *)
Neighbor(r, p) ==
    [d \in 1..3 |-> IF r.periodic THEN (p[d] + r.off[d]) % Dim[d] ELSE p[d] + r.off[d]]

(* The points of a domain.                                                 *)
InDomain(m) == {p \in Point : \A d \in 1..3 : m.min[d] <= p[d] /\ p[d] < m.max[d]}

(* What the kernel of map m emits at p: a combination of the points it     *)
(* reads that depends on the order they are used in.                       *)
Emitted(m, grids, p) ==
    FoldLeft(LAMBDA v, r : 2 * v + grids[r.grid][Neighbor(r, p)], m.add, m.reads)

Combine(op, x, y) ==
    CASE op = "sum" -> x + y
      [] op = "max" -> IF x > y THEN x ELSE y
      [] op = "min" -> IF x < y THEN x ELSE y
      [] op = "prod" -> x * y

Repeat(n, seq) == FlattenSeq([i \in 1..n |-> seq])

(* How often a run repeats its maps: once if it has no count.              *)
Count(run) == IF run.count = <<>> THEN 1 ELSE Head(run.count)

(* The operations that a program comes to.                                 *)
Operations(program) ==
    FlattenSeq([i \in DOMAIN program |->
        IF program[i].op # "run" THEN <<program[i]>>
        ELSE Repeat(Count(program[i]),
                    [j \in DOMAIN program[i].maps |->
                        [op |-> "apply", map |-> program[i].maps[j]]])])

(* The content of a grid that is just created.                             *)
Zeros == [p \in Point |-> 0]

VARIABLES
    program,     \* the program
    done,        \* how many of its operations have taken effect
    grids,       \* the values of the grids
    out          \* what the program has been given, in order

vars == <<program, done, grids, out>>

Init ==
    /\ program \in Programs
    /\ done = 0
    /\ grids = [g \in Grids |-> Zeros]
    /\ out = <<>>

Next ==
    /\ done < Len(Operations(program))
    /\ done' = done + 1
    /\ UNCHANGED program
    /\ LET o == Operations(program)[done + 1] IN
         \/ /\ o.op = "new"
            /\ grids' = [grids EXCEPT ![o.grid] = Zeros]
            /\ UNCHANGED out
         \/ /\ o.op = "copyin"
            /\ grids' = [grids EXCEPT ![o.grid] = o.data]
            /\ UNCHANGED out
         \/ /\ o.op = "set"
            /\ grids' = [grids EXCEPT ![o.grid][o.point] = o.value]
            /\ UNCHANGED out
         \/ /\ o.op = "apply"
            /\ grids' = [grids EXCEPT ![o.map.emit] =
                  [p \in Point |-> IF p \in InDomain(o.map) THEN Emitted(o.map, grids, p)
                                   ELSE grids[o.map.emit][p]]]
            /\ UNCHANGED out
         \/ /\ o.op = "copyout"
            /\ out' = Append(out, grids[o.grid])
            /\ UNCHANGED grids
         \/ /\ o.op = "reduce"
            /\ LET one == CHOOSE p \in Point : TRUE
               IN out' = Append(out, FoldSet(LAMBDA p, v : Combine(o.by, v, grids[o.grid][p]),
                                             grids[o.grid][one], Point \ {one}))
            /\ UNCHANGED grids
         \/ /\ o.op = "free"
            /\ UNCHANGED <<grids, out>>

Spec == Init /\ [][Next]_vars
=============================================================================
