--------------------------- MODULE StencilProgram ---------------------------
(***************************************************************************)
(* A translated program on shared memory: the code that the reference and  *)
(* the CUDA translators generate for PSStencilMap and PSStencilRun         *)
(* (src/translator/reference_translator.cc, cuda_translator.cc) and the    *)
(* runtimes it calls (src/runtime/reference_runtime.cc, cuda_runtime.cc).  *)
(*                                                                         *)
(* A map is a record of its domain (min, max, the local_min and local_max  *)
(* of the domain object), the grid it emits to, the grids and offsets it   *)
(* reads, and a scalar argument (add).  As the grids have one buffer, a    *)
(* map reads the grid it emits to only at its own point.                   *)
(*                                                                         *)
(* Reference code calls the run function of a map, a loop nest, and goes   *)
(* on when it returns.  CUDA code launches a kernel and goes on at once:   *)
(* kernels run one after the other, the threads of one in any order.       *)
(***************************************************************************)
EXTENDS StencilSemantics

CONSTANTS
    Targets,       \* the targets looked at: a subset of {"ref", "cuda"}
    BlockDim       \* block_dim_x_ and block_dim_y_

ASSUME BlockDimAssumption == BlockDim[1] > 0 /\ BlockDim[2] > 0

(* The grids that map m refers to.                                         *)
GridsOf(m) == {m.emit} \cup {m.reads[k].grid : k \in DOMAIN m.reads}

(* The grids that have no memory when statement k is executed: whatever    *)
(* has created them, they have been freed since.                           *)
Absent(prog, k) ==
    {g \in Grids : \A n \in 1..k - 1 : prog[n].op = "new" /\ prog[n].grid = g
                     => \E l \in n + 1..k - 1 : prog[l].op = "free" /\ prog[l].grid = g}

MapsOf(run) == {run.maps[j] : j \in DOMAIN run.maps}

(* What is known of programs: a run has at least one map, grids that are   *)
(* freed are grids, and grids are created before they are used.            *)
ASSUME ProgramsAssumption ==
    \A prog \in Programs :
        /\ Len(prog) \in Nat
        /\ \A k \in 1..Len(prog) :
              /\ prog[k].op = "free" => prog[k].grid \in Grids
              /\ prog[k].op = "run" =>
                    /\ prog[k].maps \in Seq(MapsOf(prog[k])) /\ prog[k].maps # <<>>
                    /\ \A m \in MapsOf(prog[k]) : GridsOf(m) \cap Absent(prog, k) = {}

VARIABLES
    target,      \* the target the program is translated for
    pc,          \* the statement of the program that the host executes
    i,           \* the iteration of PSStencilRun, or -1 outside of it
    next,        \* the map of PSStencilRun that is launched next
    queue,       \* the maps whose execution has not ended
    running,     \* whether the first of them has started
    progress,    \* for every thread of the first of them, the calls it has made
    freed,       \* the grids that have no memory
    before       \* the grids as they were when the first of them started

varsP == <<program, done, grids, out, target, pc, i, next, queue,
           running, progress, freed, before>>
device == <<queue, running, progress, before>>

InitP ==
    /\ Init
    /\ target \in Targets
    /\ pc = 1
    /\ i = -1
    /\ next = 1
    /\ queue = <<>>
    /\ running = FALSE
    /\ progress = <<>>
    /\ freed = Grids
    /\ before = grids

---------------------------------------------------------------------------
(* The code of a map.                                                      *)

\* Mutated form of Blocks: the extent is divided without rounding up.
BlocksRoundedDown(m, d) == m.max[d] \div BlockDim[d]

(* BuildGridDimDeclaration: the blocks reach from 0 to local_max.          *)
Blocks(m, d) ==
    IF m.max[d] <= 0 THEN 0 ELSE (m.max[d] + BlockDim[d] - 1) \div BlockDim[d]

(* BuildDomainInclusionCheck, for the x and y of a thread.                 *)
Included(m, x, y) ==
    ~ (x < m.min[1] \/ x >= m.max[1] \/ y < m.min[2] \/ y >= m.max[2])

(* The threads of a map; the reference code is one loop nest.              *)
Threads(m) ==
    IF target = "ref" THEN {<<0, 0>>}
    ELSE (0..Blocks(m, 1) * BlockDim[1] - 1) \X (0..Blocks(m, 2) * BlockDim[2] - 1)

\* lo to hi - 1
Index(lo, hi) == [n \in 1..(IF hi > lo THEN hi - lo ELSE 0) |-> lo + n - 1]

(* The points that a thread calls the kernel for, in order: x is the       *)
(* innermost of the reference loops (BuildRunKernelBody of both).          *)
Calls(m, t) ==
    IF target = "cuda"
    THEN IF Included(m, t[1], t[2])
         THEN [n \in DOMAIN Index(m.min[3], m.max[3]) |-> <<t[1], t[2], m.min[3] + n - 1>>]
         ELSE <<>>
    ELSE LET over(d) == Index(m.min[d], m.max[d])
         IN FlattenSeq([z \in DOMAIN over(3) |->
              FlattenSeq([y \in DOMAIN over(2) |->
                [x \in DOMAIN over(1) |-> <<over(1)[x], over(2)[y], over(3)[z]>>]])])

(* The elements of a grid in the order of their addresses.                 *)
Elements(g) ==
    [n \in 1..Dim[1] * Dim[2] * Dim[3] |->
        grids[g][<<(n - 1) % Dim[1], ((n - 1) \div Dim[1]) % Dim[2],
                   (n - 1) \div (Dim[1] * Dim[2])>>]]

(* __PSGridGetOffset3D and __PSGridGetOffsetPeriodic3D.                    *)
GetOffset(x, periodic) ==
    LET at(d) == IF periodic THEN (x[d] + Dim[d]) % Dim[d] ELSE x[d]
    IN at(1) + at(2) * Dim[1] + at(3) * Dim[1] * Dim[2]

(* The value that the kernel of map m computes for p.                      *)
Value(m, p) ==
    FoldLeft(LAMBDA v, r :
                2 * v + Elements(r.grid)[GetOffset([d \in 1..3 |-> p[d] + r.off[d]],
                                                   r.periodic) + 1],
             m.add, m.reads)

---------------------------------------------------------------------------
(* The host.                                                               *)

Statement == program[pc]
Advance == pc' = pc + 1 /\ done' = done + 1

\* Mutated form of DeviceIdle: the host does not wait.
DeviceIdleAlways == TRUE

(* cudaMemcpy, cudaFree, the reductions of thrust and cudaThreadSynchronize *)
(* wait for the kernels launched before; a call of the reference code has  *)
(* returned before the next statement.                                     *)
DeviceIdle == queue = <<>>

At(op) == pc <= Len(program) /\ Statement.op = op /\ i = -1

__PSGridNew ==
    /\ At("new") /\ DeviceIdle
    /\ grids' = [grids EXCEPT ![Statement.grid] = Zeros]
    /\ freed' = freed \ {Statement.grid}
    /\ Advance
    /\ UNCHANGED <<program, out, target, i, next, device>>

PSGridCopyin ==
    /\ At("copyin") /\ DeviceIdle
    /\ grids' = [grids EXCEPT ![Statement.grid] = Statement.data]
    /\ Advance
    /\ UNCHANGED <<program, out, target, i, next, device, freed>>

__PSGridSet ==
    /\ At("set") /\ DeviceIdle
    /\ grids' = [grids EXCEPT ![Statement.grid][Statement.point] = Statement.value]
    /\ Advance
    /\ UNCHANGED <<program, out, target, i, next, device, freed>>

PSGridCopyout ==
    /\ At("copyout") /\ DeviceIdle
    /\ out' = Append(out, grids[Statement.grid])
    /\ Advance
    /\ UNCHANGED <<program, grids, target, i, next, device, freed>>

(* GetReductionDefaultValue, of the operators that thrust starts from it.  *)
Identity(op) == IF op = "prod" THEN 1 ELSE 0

(* The reference runtime starts from the first element; the CUDA runtime   *)
(* from the default value, or takes max_element or min_element.            *)
ReduceGrid(g, op) ==
    LET d == Elements(g)
    IN IF target = "cuda" /\ op \in {"sum", "prod"}
       THEN FoldLeft(LAMBDA v, x : Combine(op, v, x), Identity(op), d)
       ELSE FoldLeft(LAMBDA v, x : Combine(op, v, x), d[1], Tail(d))

__PSReduceGrid ==
    /\ At("reduce") /\ DeviceIdle
    /\ out' = Append(out, ReduceGrid(Statement.grid, Statement.by))
    /\ Advance
    /\ UNCHANGED <<program, grids, target, i, next, device, freed>>

PSGridFree ==
    /\ At("free") /\ DeviceIdle
    /\ freed' = freed \cup {Statement.grid}
    /\ Advance
    /\ UNCHANGED <<program, grids, out, target, i, next, device>>

(* PSStencilRun: the loop over iter, which is 1 if the call has no count.  *)
Iter == IF Statement.count = <<>> THEN 1 ELSE Head(Statement.count)

RunBegins ==
    /\ At("run")
    /\ i' = 0 /\ next' = 1
    /\ UNCHANGED <<program, done, grids, out, target, pc, device, freed>>

(* The next map of the loop body, or the next iteration.                   *)
NextMap ==
    IF next < Len(Statement.maps) THEN next' = next + 1 /\ UNCHANGED i
    ELSE next' = 1 /\ i' = i + 1

(* The call of the run function of a map; __PSGridSwap does nothing for a  *)
(* grid with one buffer.  CUDA launches it and goes on.                    *)
RunMap ==
    /\ i >= 0 /\ i < Iter
    /\ target = "ref" => DeviceIdle
    /\ queue' = Append(queue, Statement.maps[next])
    /\ NextMap
    /\ UNCHANGED <<program, done, grids, out, target, pc, running, progress, freed, before>>

(* After the loop, cudaThreadSynchronize.                                  *)
RunEnds ==
    /\ i >= 0 /\ i >= Iter
    /\ DeviceIdle
    /\ i' = -1 /\ pc' = pc + 1
    /\ UNCHANGED <<program, done, grids, out, target, next, device, freed>>

Host ==
    \/ __PSGridNew \/ PSGridCopyin \/ __PSGridSet \/ PSGridCopyout \/ __PSReduceGrid \/ PSGridFree
    \/ RunBegins \/ RunMap \/ RunEnds

---------------------------------------------------------------------------
(* The execution of a map.                                                 *)

\* Mutated form of MapBegins: a map without threads does not start.
MapBeginsThreads ==
    /\ queue # <<>> /\ ~ running
    /\ Threads(Head(queue)) # {}
    /\ running' = TRUE
    /\ progress' = [t \in Threads(Head(queue)) |-> 0]
    /\ before' = grids
    /\ UNCHANGED <<program, done, grids, out, target, pc, i, next, queue, freed>>

MapBegins ==
    /\ queue # <<>> /\ ~ running
    /\ running' = TRUE
    /\ progress' = [t \in Threads(Head(queue)) |-> 0]
    /\ before' = grids
    /\ UNCHANGED <<program, done, grids, out, target, pc, i, next, queue, freed>>

(* The next call of the kernel by a thread.  An emit goes to the buffer    *)
(* that is read.                                                           *)
Kernel ==
    /\ queue # <<>> /\ running
    /\ \E t \in DOMAIN progress : LET m == Head(queue) IN
         /\ progress[t] < Len(Calls(m, t))
         /\ LET p == Calls(m, t)[progress[t] + 1]
            IN grids' = [grids EXCEPT ![m.emit][p] = Value(m, p)]
         /\ progress' = [progress EXCEPT ![t] = @ + 1]
    /\ UNCHANGED <<program, done, out, target, pc, i, next, queue, running, freed, before>>

MapEnds ==
    /\ queue # <<>> /\ running
    /\ \A t \in DOMAIN progress : progress[t] = Len(Calls(Head(queue), t))
    /\ queue' = Tail(queue)
    /\ running' = FALSE /\ progress' = <<>>
    /\ done' = done + 1
    /\ UNCHANGED <<program, grids, out, target, pc, i, next, freed, before>>

Device == MapBegins \/ Kernel \/ MapEnds

NextP == Host \/ Device

(* The host and the device both go on while they can.                      *)
SpecP == InitP /\ [][NextP]_varsP /\ WF_varsP(Host) /\ WF_varsP(Device)

---------------------------------------------------------------------------
(* Properties.                                                             *)

(* Type invariant.                                                         *)
TypeOK ==
    /\ program \in Programs /\ target \in Targets
    /\ pc \in 1..Len(program) + 1
    /\ i >= -1 /\ (i >= 0 => next \in DOMAIN Statement.maps /\ i <= Iter)
    /\ \A g \in Grids : DOMAIN grids[g] = Point /\ DOMAIN before[g] = Point
    /\ done <= Len(Operations(program))
    /\ running => queue # <<>>
    /\ freed \subseteq Grids

(* What the host has allocated, and how far it is ahead of the device: the *)
(* conditions of FreedUnused that are inductive.                           *)
HostAhead ==
    /\ program \in Programs
    /\ Len(program) \in Nat /\ pc \in 1..Len(program) + 1
    /\ i \in Int /\ i >= -1
    /\ i = -1 => queue = <<>>
    /\ i >= 0 => /\ pc <= Len(program) /\ Statement.op = "run"
                 /\ next \in DOMAIN Statement.maps
                 /\ queue \in Seq(MapsOf(Statement))
    /\ freed \subseteq Absent(program, pc)

(* No map that is still to run or running refers to a grid that has no     *)
(* memory, however far the host is ahead of the device (BuildRunBody,      *)
(* PSGridFree): the programs looked at create the grids they use.          *)
FreedUnused == \A k \in DOMAIN queue : GridsOf(queue[k]) \cap freed = {}

(* The grids of the meaning are those between two maps: a map takes effect *)
(* when its last thread ends.                                              *)
Meaning == INSTANCE StencilSemantics
             WITH grids <- IF running THEN before ELSE grids

(* The translated program does what the program means: maps take effect in *)
(* the order of the program and as often as it says, each at every point   *)
(* of its domain once and nowhere else, in whatever order the threads run, *)
(* and what is copied out or reduced is what the maps before it have left. *)
Implements == Meaning!Spec

(* The program comes to its end, with nothing left on the device.          *)
Returns == <>(pc > Len(program) /\ queue = <<>>)
=============================================================================
