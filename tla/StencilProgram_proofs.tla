----------------------- MODULE StencilProgram_proofs -----------------------
(***************************************************************************)
(* Proofs about StencilProgram: however far the host of a CUDA program is  *)
(* ahead of the device, no kernel refers to a grid without memory.  The    *)
(* argument: the device has work only while the host is in a PSStencilRun, *)
(* that work is maps of that statement, and nothing is freed meanwhile.    *)
(***************************************************************************)
EXTENDS StencilProgram, TLAPS

(* What is absent stays absent over a statement that creates nothing.      *)
LEMMA AbsentKept ==
    ASSUME NEW prog, NEW k \in Nat \ {0}, prog[k].op # "new"
    PROVE  Absent(prog, k) \subseteq Absent(prog, k + 1)
<1> SUFFICES ASSUME NEW g \in Absent(prog, k), NEW n \in 1..k,
                    prog[n].op = "new", prog[n].grid = g
             PROVE  \E l \in n + 1..k : prog[l].op = "free" /\ prog[l].grid = g
  BY DEF Absent
<1>1. n \in 1..k - 1
  OBVIOUS
<1> QED
  BY <1>1 DEF Absent

(* A statement that creates g leaves the others absent.                    *)
LEMMA AbsentNew ==
    ASSUME NEW prog, NEW k \in Nat \ {0}, NEW g, prog[k].op = "new", prog[k].grid = g
    PROVE  Absent(prog, k) \ {g} \subseteq Absent(prog, k + 1)
<1> SUFFICES ASSUME NEW h \in Absent(prog, k) \ {g}, NEW n \in 1..k,
                    prog[n].op = "new", prog[n].grid = h
             PROVE  \E l \in n + 1..k : prog[l].op = "free" /\ prog[l].grid = h
  BY DEF Absent
<1>1. n \in 1..k - 1
  OBVIOUS
<1> QED
  BY <1>1 DEF Absent

(* A statement that frees g makes it absent.                               *)
LEMMA AbsentFree ==
    ASSUME NEW prog, NEW k \in Nat \ {0}, NEW g \in Grids,
           prog[k].op = "free", prog[k].grid = g
    PROVE  g \in Absent(prog, k + 1)
<1> SUFFICES ASSUME NEW n \in 1..k, prog[n].op = "new", prog[n].grid = g
             PROVE  \E l \in n + 1..k : prog[l].op = "free" /\ prog[l].grid = g
  BY DEF Absent
<1>1. n # k
  OBVIOUS
<1> QED
  BY <1>1

(* The conditions say what is claimed.                                     *)
LEMMA AheadMeansPresent ==
    ASSUME HostAhead
    PROVE  FreedUnused
<1> SUFFICES ASSUME NEW k \in DOMAIN queue
             PROVE  GridsOf(queue[k]) \cap freed = {}
  BY DEF FreedUnused
<1>1. i >= 0
  BY DEF HostAhead
<1>2. queue[k] \in MapsOf(Statement)
  BY <1>1 DEF HostAhead
<1>3. GridsOf(queue[k]) \cap Absent(program, pc) = {}
  BY <1>1, <1>2, ProgramsAssumption DEF HostAhead, Statement
<1> QED
  BY <1>3 DEF HostAhead

(* A statement that the host executes outside of PSStencilRun: the device  *)
(* is idle before and after it.                                            *)
LEMMA StatementKeeps ==
    ASSUME HostAhead, NEW op, At(op), pc' = pc + 1,
           UNCHANGED <<program, i, next, queue>>,
           freed' \subseteq Absent(program, pc + 1)
    PROVE  HostAhead'
<1>1. i = -1 /\ queue = <<>> /\ pc \in Nat /\ pc <= Len(program)
  BY DEF At, HostAhead
<1> QED
  BY <1>1 DEF HostAhead

(* HostAhead is kept by the statements of the host ...                     *)
LEMMA HostKeeps ==
    ASSUME HostAhead, Host
    PROVE  HostAhead'
<1>0. pc \in Nat \ {0}
  BY DEF HostAhead
<1>1. CASE __PSGridNew
  <2>1. freed' \subseteq Absent(program, pc + 1)
    BY <1>0, <1>1, AbsentNew DEF __PSGridNew, At, Statement, HostAhead
  <2> QED
    BY <1>1, <2>1, StatementKeeps DEF __PSGridNew, Advance, device
<1>2. CASE PSGridFree
  <2>1. Absent(program, pc) \subseteq Absent(program, pc + 1)
    BY <1>0, <1>2, AbsentKept DEF PSGridFree, At, Statement
  <2>2. \A g \in Grids : g = Statement.grid => g \in Absent(program, pc + 1)
    BY <1>0, <1>2, AbsentFree DEF PSGridFree, At, Statement
  <2>3. Statement.grid \in Grids
    BY <1>2, ProgramsAssumption DEF PSGridFree, At, Statement, HostAhead
  <2>4. freed' \subseteq Absent(program, pc + 1)
    BY <1>2, <2>1, <2>2, <2>3 DEF PSGridFree, HostAhead
  <2> QED
    BY <1>2, <2>4, StatementKeeps DEF PSGridFree, Advance, device
<1>3. CASE PSGridCopyin \/ __PSGridSet \/ PSGridCopyout \/ __PSReduceGrid
  <2>1. PICK op \in {"copyin", "set", "copyout", "reduce"} : At(op)
    BY <1>3 DEF PSGridCopyin, __PSGridSet, PSGridCopyout, __PSReduceGrid
  <2>2. pc' = pc + 1 /\ UNCHANGED <<program, i, next, queue, freed>>
    BY <1>3 DEF PSGridCopyin, __PSGridSet, PSGridCopyout, __PSReduceGrid, Advance, device
  <2>3. program[pc].op # "new"
    BY <2>1 DEF At, Statement
  <2>4. freed' \subseteq Absent(program, pc + 1)
    BY <1>0, <2>2, <2>3, AbsentKept DEF HostAhead
  <2> QED
    BY <2>1, <2>2, <2>4, StatementKeeps
<1>4. CASE RunBegins
  <2>1. /\ pc <= Len(program) /\ Statement.op = "run" /\ queue = <<>>
        /\ i' = 0 /\ next' = 1 /\ UNCHANGED <<program, pc, queue, freed>>
    BY <1>4 DEF RunBegins, At, HostAhead, device
  <2>2. Statement.maps \in Seq(MapsOf(Statement)) /\ Statement.maps # <<>>
    BY <2>1, <1>0, ProgramsAssumption DEF HostAhead, Statement
  <2>3. 1 \in DOMAIN Statement.maps
    BY <2>2
  <2>4. Statement' = Statement
    BY <2>1 DEF Statement
  <2> QED
    BY <2>1, <2>3, <2>4 DEF HostAhead
<1>5. CASE RunMap
  <2>1. /\ pc <= Len(program) /\ Statement.op = "run" /\ next \in DOMAIN Statement.maps
        /\ queue \in Seq(MapsOf(Statement))
        /\ UNCHANGED <<program, pc, freed>>
    BY <1>5 DEF RunMap, HostAhead
  <2>2. Statement.maps \in Seq(MapsOf(Statement)) /\ Statement.maps # <<>>
    BY <2>1, <1>0, ProgramsAssumption DEF HostAhead, Statement
  <2>3. Statement.maps[next] \in MapsOf(Statement)
    BY <2>1 DEF MapsOf
  <2>4. queue' \in Seq(MapsOf(Statement))
    BY <1>5, <2>1, <2>3 DEF RunMap
  <2>5. next' \in DOMAIN Statement.maps /\ i' \in Int /\ i' >= 0
    BY <1>5, <2>1, <2>2 DEF RunMap, NextMap, HostAhead
  <2>6. Statement' = Statement
    BY <2>1 DEF Statement
  <2> QED
    BY <2>1, <2>4, <2>5, <2>6 DEF HostAhead
<1>6. CASE RunEnds
  <2>1. /\ Statement.op = "run" /\ queue = <<>> /\ pc <= Len(program)
        /\ i' = -1 /\ pc' = pc + 1 /\ UNCHANGED <<program, queue, freed>>
    BY <1>6 DEF RunEnds, DeviceIdle, HostAhead, device
  <2>2. freed' \subseteq Absent(program, pc + 1)
    BY <1>0, <2>1, AbsentKept DEF HostAhead, Statement
  <2> QED
    BY <1>0, <2>1, <2>2 DEF HostAhead
<1> QED
  BY <1>1, <1>2, <1>3, <1>4, <1>5, <1>6 DEF Host

(* ... and of the device, which only takes maps off the queue.             *)
LEMMA DeviceKeeps ==
    ASSUME HostAhead, Device
    PROVE  HostAhead'
<1>1. /\ UNCHANGED <<program, pc, i, next, freed>>
      /\ queue # <<>> /\ (queue' = queue \/ queue' = Tail(queue))
  BY DEF Device, MapBegins, Kernel, MapEnds
<1>2. i >= 0 /\ queue \in Seq(MapsOf(Statement))
  BY <1>1 DEF HostAhead
<1>3. queue' \in Seq(MapsOf(Statement))
  BY <1>1, <1>2
<1>4. Statement' = Statement
  BY <1>1 DEF Statement
<1> QED
  BY <1>1, <1>2, <1>3, <1>4 DEF HostAhead

(* HostAhead holds in every state (RunMap and RunEnds, BuildRunBody of     *)
(* cuda_translator.cc).                                                    *)
THEOREM HostAheadAlways == SpecP => []HostAhead
<1>1. InitP => HostAhead
  <2> SUFFICES ASSUME InitP PROVE HostAhead
    OBVIOUS
  <2>1. program \in Programs /\ pc = 1 /\ i = -1 /\ queue = <<>> /\ freed = Grids
    BY DEF InitP, Init
  <2>2. Len(program) \in Nat
    BY <2>1, ProgramsAssumption
  <2>3. Absent(program, 1) = Grids
    BY DEF Absent
  <2> QED
    BY <2>1, <2>2, <2>3 DEF HostAhead
<1>2. HostAhead /\ [NextP]_varsP => HostAhead'
  <2> SUFFICES ASSUME HostAhead, [NextP]_varsP PROVE HostAhead'
    OBVIOUS
  <2>1. CASE UNCHANGED varsP
    BY <2>1 DEF varsP, HostAhead, Statement
  <2> QED
    BY <2>1, HostKeeps, DeviceKeeps DEF NextP
<1> QED
  BY <1>1, <1>2, PTL DEF SpecP

(* No map refers to a grid without memory, for every program that creates  *)
(* its grids before it uses them (PSGridFree, BuildRunBody).               *)
THEOREM MapsHaveMemory == SpecP => []FreedUnused
<1>1. HostAhead => FreedUnused
  BY AheadMeansPresent
<1> QED
  BY <1>1, HostAheadAlways, PTL
=============================================================================
