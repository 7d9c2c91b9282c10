------------------------------ MODULE Analyses ------------------------------
(***************************************************************************)
(* What the translator finds out about a program before it generates code  *)
(* (TranslationContext::build and what it calls, in src/translator): the   *)
(* grids and domains a variable may hold, the functions that are kernels,  *)
(* the grids that are read and modified in one update, the stencil range   *)
(* of every grid parameter of a map, and the exchanges that                *)
(* MPITranslator::GenerateLoadRemoteGridRegion puts before the map.        *)
(* When the translator is done, the program runs.                          *)
(*                                                                         *)
(* The analyses visit declarations, assignments and calls in the order of  *)
(* the code, and maps in the order of a map keyed by pointers, which is    *)
(* any order; one visit is one step.                                       *)
(*                                                                         *)
(* A program is a record:                                                  *)
(*   decls   sequence of [v, fn, type, init]: type "grid" or "domain"; init *)
(*           a record with k = "param", "none", "new" (and x, the object)  *)
(*           or "var" (and x, the variable)                                *)
(*   asns    sequence of [lhs, fn, type, rhs], rhs like init               *)
(*   calls   sequence of [kind, fn, callee, dom, args]: kind "map" (of     *)
(*           kernel callee, in function fn) or "call"; dom is the domain   *)
(*           variable of a map, args the grid variables                    *)
(*   gets    sequence of [fn, v, idx, periodic]                            *)
(*   emits   sequence of [fn, v]                                           *)
(*   params  the grid parameters of every function                         *)
(*   nd      the number of dimensions of the domains of its maps           *)
(* Index parameters are the first parameters of a kernel, and a kernel     *)
(* that calls another function passes them on.                             *)
(***************************************************************************)
EXTENDS StencilIndices, FiniteSetsExt

CONSTANTS
    Programs,    \* the programs to translate
    Points       \* the points at which kernels are looked at

VARIABLES
    prog,        \* the program
    phase,       \* what the translator is doing
    left,        \* what it has still to visit in this sweep
    changed,     \* a visit of this sweep changed something
    held,        \* grid_var_map_ and the DefMap of the domains
    entry,       \* entry_kernels_
    children,    \* inner_kernels_: the functions that every kernel calls
    doubled,     \* the grids marked as read and modified in one update
    ranges,      \* the GridRangeMap of every map
    loads,       \* the exchanges generated for every map
    env,         \* what the variables hold as the program runs
    ran          \* the map that ran last, and the grids it read and modified

vars == <<prog, phase, left, changed, held, entry, children, doubled, ranges,
          loads, env, ran>>
analysis == <<held, entry, children, doubled, ranges, loads>>

Null == "null"
Unknown == "unknown"     \* a variable that has not got a value yet

Variables(p) == {p.decls[i].v : i \in DOMAIN p.decls}
MapsOf(p) == {i \in DOMAIN p.calls : p.calls[i].kind = "map"}
KernelCall(m) == prog.calls[m]
Gets(fn) == {i \in DOMAIN prog.gets : prog.gets[i].fn = fn}
Emits(fn) == {i \in DOMAIN prog.emits : prog.emits[i].fn = fn}
Decls(type) == {i \in DOMAIN prog.decls : prog.decls[i].type = type}
Asns(type) == {i \in DOMAIN prog.asns : prog.asns[i].type = type}

Init ==
    /\ prog \in Programs
    /\ phase = "domains"
    /\ left = {}
    /\ changed = TRUE
    /\ held = [v \in Variables(prog) |-> {}]
    /\ entry = {}
    /\ children = <<>>
    /\ doubled = {}
    /\ ranges = <<>>
    /\ loads = <<>>
    /\ env = [v \in Variables(prog) |-> Unknown]
    /\ ran = [map |-> 0, read |-> {}, modified |-> {}]

(* PSAbort, PSAssert, assert and abort: the program is not translated.     *)
Reject ==
    /\ phase' = "rejected"
    /\ UNCHANGED <<prog, left, changed, analysis, env, ran>>

---------------------------------------------------------------------------
(* Domains.                                                                *)

(* One sweep over declarations and assignments of domains (register_def,   *)
(* merge_defs, handleVarDecl): a declaration without a value defines NULL. *)
DefSweep(defs) ==
    LET Def(d, x) == IF x.k = "new" THEN {x.x}
                     ELSE IF x.k = "var" THEN d[x.x] ELSE {Null}
        Declared == FoldLeft(LAMBDA d, i : [d EXCEPT ![prog.decls[i].v] =
                                 @ \cup Def(d, prog.decls[i].init)],
                             defs, SetToSortSeq(Decls("domain"), <))
    IN FoldLeft(LAMBDA d, i : [d EXCEPT ![prog.asns[i].lhs] =
                    @ \cup Def(d, prog.asns[i].rhs)],
                Declared, SetToSortSeq(Asns("domain"), <))

(* Variables that a map refers to must be defined by calls only, and a     *)
(* domain is assigned from another variable.                               *)
DomainsFine(defs) ==
    /\ \A i \in Asns("domain") : prog.asns[i].rhs.k = "var"
    /\ \A m \in MapsOf(prog) : defs[KernelCall(m).dom] # {} /\ Null \notin defs[KernelCall(m).dom]

AnalyzeDomainExpr ==
    /\ phase = "domains"
    /\ LET defs == DefSweep(held)
       IN IF defs # held
          THEN held' = defs /\ UNCHANGED phase
          ELSE UNCHANGED held /\ phase' = IF DomainsFine(held) THEN "vars" ELSE "rejected"
    /\ left' = IF phase' = "vars" THEN Decls("grid") ELSE {}
    /\ changed' = FALSE
    /\ UNCHANGED <<prog, entry, children, doubled, ranges, loads, env, ran>>

---------------------------------------------------------------------------
(* Grid variables.                                                         *)

(* The visit of an element: in the order of the code, but for maps.        *)
Visits(i) == i \in left /\ (phase \in {"maps", "ranges", "loads"} \/ \A j \in left : i <= j)

\* Mutated form of Associate: every association counts as a change.
AssociateAlways(v, gs) ==
    /\ held' = [held EXCEPT ![v] = @ \cup gs]
    /\ changed' = TRUE

(* associateVarWithGrid for all of gs: a change is a grid that is new.     *)
Associate(v, gs) ==
    /\ held' = [held EXCEPT ![v] = @ \cup gs]
    /\ changed' = (changed \/ ~ gs \subseteq held[v])

(* handleGridNew, handleGridAlias; a parameter is taken care of at the     *)
(* calls.                                                                  *)
GridsOf(x) ==
    CASE x.k = "new" -> {x.x}
      [] x.k = "var" -> held[x.x]
      [] x.k = "none" -> {Null}
      [] x.k = "param" -> {}

Visited(i) ==
    /\ left' = left \ {i}
    /\ UNCHANGED <<prog, phase, entry, children, doubled, ranges, loads, env, ran>>

handleGridDeclaration ==
    /\ phase = "vars"
    /\ \E i \in left : /\ Visits(i)
                       /\ Associate(prog.decls[i].v, GridsOf(prog.decls[i].init))
                       /\ Visited(i)

handleGridAssignment ==
    /\ phase = "asns"
    /\ \E i \in left : /\ Visits(i)
                       /\ Associate(prog.asns[i].lhs, GridsOf(prog.asns[i].rhs))
                       /\ Visited(i)

\* Mutated form: a parameter that has got grids already is left alone.
propagateGridVarMapAcrossCallOnce(c) ==
    LET params == prog.params[c.callee]
        From(v) == UNION {held[c.args[a]] : a \in {b \in DOMAIN c.args : params[b] = v}}
    IN /\ held' = [v \in DOMAIN held |-> IF held[v] = {} THEN From(v) ELSE held[v]]
       /\ changed' = (changed \/ held' # held)

(* The grids of the arguments of a call go to the parameters of the callee. *)
propagateGridVarMapAcrossCall(c) ==
    LET params == prog.params[c.callee]
        From(v) == UNION {held[c.args[a]] : a \in {b \in DOMAIN c.args : params[b] = v}}
    IN /\ held' = [v \in DOMAIN held |-> held[v] \cup From(v)]
       /\ changed' = (changed \/ held' # held)

propagateAcrossStencilCall ==
    /\ phase = "maps"
    /\ \E m \in left : Visits(m) /\ propagateGridVarMapAcrossCall(KernelCall(m)) /\ Visited(m)

propagateAcrossOrdinaryCall ==
    /\ phase = "calls"
    /\ \E i \in left : Visits(i) /\ propagateGridVarMapAcrossCall(prog.calls[i]) /\ Visited(i)

Sweeps == <<"vars", "asns", "maps", "calls">>
Elements(sweep) ==
    CASE sweep = "vars" -> Decls("grid")
      [] sweep = "asns" -> Asns("grid")
      [] sweep = "maps" -> MapsOf(prog)
      [] sweep = "calls" -> DOMAIN prog.calls \ MapsOf(prog)

(* The loop of analyzeGridVars: another round if this one changed anything. *)
analyzeGridVars ==
    /\ left = {}
    /\ \E n \in DOMAIN Sweeps :
         /\ phase = Sweeps[n]
         /\ IF n < Len(Sweeps)
            THEN phase' = Sweeps[n + 1] /\ left' = Elements(phase') /\ UNCHANGED changed
            ELSE /\ phase' = IF changed THEN "vars" ELSE "kernels"
                 /\ left' = IF changed THEN Decls("grid") ELSE DOMAIN prog.calls
                 /\ changed' = FALSE
    /\ UNCHANGED <<prog, analysis, env, ran>>

---------------------------------------------------------------------------
(* Kernels.                                                                *)

(* The origins of a variable of fn in its AliasGraph.                      *)
Origins(fn, v) ==
    LET Origin(x) == IF x.k = "var" THEN x.x ELSE x.k
    IN {Origin(prog.decls[i].init) : i \in {j \in Decls("grid") :
                                              prog.decls[j].fn = fn /\ prog.decls[j].v = v}}
       \cup {Origin(prog.asns[i].rhs) : i \in {j \in Asns("grid") :
                                              prog.asns[j].fn = fn /\ prog.asns[j].lhs = v}}

GridVars(fn) == {prog.decls[i].v : i \in {j \in Decls("grid") : prog.decls[j].fn = fn}}

(* What the constructor of Kernel asserts (analyzeGridAccess): the grids   *)
(* are known, and every variable has one origin, which is not NULL.        *)
KernelFine(fn) ==
    LET used == {prog.gets[i].v : i \in Gets(fn)} \cup {prog.emits[i].v : i \in Emits(fn)}
    IN used # {} =>
         /\ \A v \in used : held[v] # {}
         /\ \A v \in GridVars(fn) : Cardinality(Origins(fn, v)) = 1 /\ "none" \notin Origins(fn, v)
         /\ \A i \in Asns("grid") : prog.asns[i].fn = fn => prog.asns[i].rhs.k = "var"

RECURSIVE findOriginalVar(_, _)
findOriginalVar(fn, v) ==
    LET o == CHOOSE x \in Origins(fn, v) : TRUE
    IN IF o \in GridVars(fn) THEN findOriginalVar(fn, o) ELSE v

(* rGridVars and wGridVars, rGrids and wGrids of a kernel.                 *)
ParamsRead(fn) == {findOriginalVar(fn, prog.gets[i].v) : i \in Gets(fn)}
ParamsModified(fn) == {findOriginalVar(fn, prog.emits[i].v) : i \in Emits(fn)}
OwnReads(fn) == UNION {held[prog.gets[i].v] : i \in Gets(fn)}
OwnWrites(fn) == UNION {held[prog.emits[i].v] : i \in Emits(fn)}

RECURSIVE isRead(_, _), isModified(_, _)
isRead(fn, g) == g \in OwnReads(fn) \/ \E k \in children[fn] : isRead(k, g)
isModified(fn, g) == g \in OwnWrites(fn) \/ \E k \in children[fn] : isModified(k, g)

inner == UNION {children[k] : k \in DOMAIN children}

(* A new Kernel, called by parent unless it is an entry.  A function has   *)
(* one: no kernel of a map is also called by a kernel.                     *)
registerKernel(fn, parent) ==
    /\ children' = (fn :> {}) @@ [k \in DOMAIN children |->
                        IF k = parent THEN children[k] \cup {fn} ELSE children[k]]
    /\ entry' = IF parent = fn THEN entry \cup {fn} ELSE entry

(* One call of analyzeKernelFunctions: the kernel of a map is an entry     *)
(* kernel, a function called by a kernel an inner kernel of its first      *)
(* caller.                                                                 *)
analyzeKernelFunctions ==
    /\ phase = "kernels"
    /\ \E i \in left :
         /\ Visits(i)
         /\ LET c == prog.calls[i]
                new == IF c.kind = "map" THEN c.callee \notin entry
                       ELSE c.fn \in DOMAIN children /\ c.callee \notin inner
            IN IF ~ new
               THEN /\ left' = left \ {i}
                    /\ UNCHANGED <<prog, phase, changed, analysis, env, ran>>
               ELSE IF ~ KernelFine(c.callee) THEN Reject
               ELSE /\ registerKernel(c.callee, IF c.kind = "map" THEN c.callee ELSE c.fn)
                    /\ left' = left \ {i}
                    /\ changed' = TRUE
                    /\ UNCHANGED <<prog, phase, held, doubled, ranges, loads, env, ran>>

kernelSweepEnds ==
    /\ phase = "kernels" /\ left = {}
    /\ phase' = IF changed THEN "kernels" ELSE "marks"
    /\ left' = IF changed THEN DOMAIN prog.calls ELSE {}
    /\ changed' = FALSE
    /\ UNCHANGED <<prog, analysis, env, ran>>

Objects == {prog.decls[i].init.x : i \in {j \in Decls("grid") : prog.decls[j].init.k = "new"}}
           \cup {prog.asns[i].rhs.x : i \in {j \in Asns("grid") : prog.asns[j].rhs.k = "new"}}

\* Mutated form of markReadWriteGrids: the functions that a kernel calls are
\* left out.
markReadWriteThemselves ==
    /\ phase = "marks"
    /\ doubled' = {g \in Objects : \E k \in entry : g \in OwnWrites(k) /\ g \in OwnReads(k)}
    /\ phase' = "ranges"
    /\ left' = MapsOf(prog)
    /\ UNCHANGED <<prog, changed, held, entry, children, ranges, loads, env, ran>>

markReadWriteGrids ==
    /\ phase = "marks"
    /\ doubled' = {g \in Objects : \E k \in entry : isModified(k, g) /\ isRead(k, g)}
    /\ phase' = "ranges"
    /\ left' = MapsOf(prog)
    /\ UNCHANGED <<prog, changed, held, entry, children, ranges, loads, env, ran>>

---------------------------------------------------------------------------
(* Stencil ranges and the exchanges made from them.                        *)

(* The gets in the kernel itself, by the variable they are applied to.     *)
RangeOf(fn, v) ==
    LET lists == {<<i, CHOOSE s \in IndexLists(prog.gets[i].idx) : TRUE>> :
                    i \in {j \in Gets(fn) : prog.gets[j].v = v}}
        nd == Len((CHOOSE l \in lists : TRUE)[2])
    IN FoldSet(LAMBDA l, sr : insert(sr, l[2]), EmptyRange(nd), lists)

AnalyzeStencilRange ==
    /\ phase = "ranges"
    /\ \E m \in left : LET fn == KernelCall(m).callee IN
         IF \E i \in Gets(fn) : IndexLists(prog.gets[i].idx) = {} THEN Reject
         ELSE /\ ranges' = (m :> [v \in {prog.gets[i].v : i \in Gets(fn)} |-> RangeOf(fn, v)])
                           @@ ranges
              /\ left' = left \ {m}
              /\ UNCHANGED <<prog, phase, changed, held, entry, children, doubled, loads, env, ran>>

rangesEnd ==
    /\ phase \in {"ranges", "loads"} /\ left = {}
    /\ phase' = IF phase = "ranges" THEN "loads" ELSE "run"
    /\ left' = IF phase = "ranges" THEN MapsOf(prog) ELSE {}
    /\ UNCHANGED <<prog, changed, analysis, env, ran>>

IsPeriodic(fn, v) == \E i \in Gets(fn) : prog.gets[i].v = v /\ prog.gets[i].periodic

(* The exchange of a parameter that the kernel reads: that of neighbours   *)
(* for a grid with as many dimensions as the map.                          *)
LoadOf(m, v) ==
    LET sr == ranges[m][v]
    IN [how |-> IF IsNeighborAccess(sr) /\ Len(sr.min) = prog.nd
                THEN IF IsZero(sr) THEN "none" ELSE "neighbor"
                ELSE IF IsUniqueDim(sr) THEN "subgrid" ELSE "general",
        range |-> sr, periodic |-> IsPeriodic(KernelCall(m).callee, v)]

(* No call is generated for a parameter that is read only through other    *)
(* variables, as it has no range, for a periodic one that is not accessed  *)
(* at neighbours, or for a subgrid of one dimension.                       *)
Unloadable(m, v) ==
    \/ v \notin DOMAIN ranges[m]
    \/ LET load == LoadOf(m, v)
       IN \/ load.how \in {"subgrid", "general"} /\ load.periodic
          \/ load.how = "subgrid" /\ Len(load.range.min) \notin {2, 3}

GenerateLoadRemoteGridRegion ==
    /\ phase = "loads"
    /\ \E m \in left :
         LET fn == KernelCall(m).callee
             read == {v \in Range(prog.params[fn]) : v \in ParamsRead(fn)}
             load == [v \in read |-> LoadOf(m, v)]
             neighbors == {v \in read : load[v].how = "neighbor"}
         IN IF \E v \in read : Unloadable(m, v)
            THEN Reject
            ELSE /\ loads' = (m :> [params |-> load,
                       eligible |-> \A v \in read : load[v].how \in {"none", "neighbor"},
                       width |-> Max({0} \cup {GetMaxWidth(load[v].range) : v \in neighbors})])
                       @@ loads
                 /\ left' = left \ {m}
                 /\ UNCHANGED <<prog, phase, changed, held, entry, children, doubled, ranges, env, ran>>

---------------------------------------------------------------------------
(* The program runs.  Branches and loops are left out: any statement whose *)
(* operands have a value may come next.                                    *)

Now(x) == IF x.k = "new" THEN x.x ELSE IF x.k = "var" THEN env[x.x] ELSE Null

HostFns == {prog.calls[m].fn : m \in MapsOf(prog)} \cup
           {prog.decls[i].fn : i \in {j \in DOMAIN prog.decls : prog.decls[j].init.k = "new"}}

RunAssignment ==
    /\ phase = "run"
    /\ \/ \E i \in DOMAIN prog.decls : LET d == prog.decls[i] IN
            /\ d.fn \in HostFns /\ d.init.k # "param" /\ Now(d.init) # Unknown
            /\ env' = [env EXCEPT ![d.v] = Now(d.init)]
       \/ \E i \in DOMAIN prog.asns : LET a == prog.asns[i] IN
            /\ a.fn \in HostFns /\ Now(a.rhs) # Unknown
            /\ env' = [env EXCEPT ![a.lhs] = Now(a.rhs)]
    /\ UNCHANGED <<prog, phase, left, changed, analysis, ran>>

(* The parameters of a callee, given those of its caller.                  *)
Bound(fn, args, e) ==
    [v \in DOMAIN e |-> IF \E a \in DOMAIN args : prog.params[fn][a] = v
                        THEN e[args[CHOOSE a \in DOMAIN args : prog.params[fn][a] = v]]
                        ELSE e[v]]

(* The grids that a kernel and the functions it calls read and modify.     *)
RECURSIVE Accessed(_, _, _)
Accessed(fn, e, gets) ==
    (IF gets THEN {e[findOriginalVar(fn, prog.gets[i].v)] : i \in Gets(fn)}
     ELSE {e[findOriginalVar(fn, prog.emits[i].v)] : i \in Emits(fn)})
    \cup UNION {Accessed(prog.calls[i].callee,
                   Bound(prog.calls[i].callee,
                         [a \in DOMAIN prog.calls[i].args |->
                             findOriginalVar(fn, prog.calls[i].args[a])], e), gets) :
                  i \in {j \in DOMAIN prog.calls : prog.calls[j].fn = fn}}

RunCall ==
    /\ phase = "run"
    /\ \E i \in DOMAIN prog.calls : LET c == prog.calls[i] IN
         /\ c.fn \in HostFns
         /\ \A a \in DOMAIN c.args : env[c.args[a]] \notin {Unknown, Null}
         /\ c.kind = "map" => env[c.dom] # Unknown
         /\ env' = Bound(c.callee, c.args, env)
         /\ IF c.kind = "map"
            THEN ran' = [map |-> i, read |-> Accessed(c.callee, env', TRUE),
                         modified |-> Accessed(c.callee, env', FALSE)]
            ELSE UNCHANGED ran
    /\ UNCHANGED <<prog, phase, left, changed, analysis>>

Analyze ==
    \/ AnalyzeDomainExpr \/ handleGridDeclaration \/ handleGridAssignment
    \/ propagateAcrossStencilCall \/ propagateAcrossOrdinaryCall \/ analyzeGridVars
    \/ analyzeKernelFunctions \/ kernelSweepEnds \/ markReadWriteGrids
    \/ AnalyzeStencilRange \/ rangesEnd \/ GenerateLoadRemoteGridRegion

Next == Analyze \/ RunAssignment \/ RunCall

(* The translator is a sequential program: it goes on while it can.        *)
Spec == Init /\ [][Next]_vars /\ WF_vars(Analyze)

---------------------------------------------------------------------------
(* Properties.                                                             *)

(* Type invariant.                                                         *)
TypeOK ==
    /\ prog \in Programs
    /\ phase \in {"domains", "vars", "asns", "maps", "calls", "kernels", "marks",
                  "ranges", "loads", "run", "rejected"}
    /\ left \subseteq DOMAIN prog.decls \cup DOMAIN prog.asns \cup DOMAIN prog.calls
    /\ changed \in BOOLEAN
    /\ \A v \in DOMAIN held : v \in Variables(prog) /\ Unknown \notin held[v]
    /\ entry \subseteq DOMAIN children /\ inner \subseteq DOMAIN children
    /\ doubled \subseteq Objects
    /\ DOMAIN ranges \subseteq MapsOf(prog) /\ DOMAIN loads \subseteq DOMAIN ranges
    /\ DOMAIN env = Variables(prog)

(* Whatever order the statements of the program run in, a variable holds a *)
(* grid or a domain that the analysis has found for it: the exchanges, the *)
(* double buffers and the swaps are all decided from those sets            *)
(* (analyzeGridVars, findDefinitions).                                     *)
HeldKnown ==
    \A v \in Variables(prog) : env[v] # Unknown => env[v] \in held[v]

(* A grid that one application of a map reads and modifies, be it through  *)
(* functions that the kernel calls or under two names, is marked, so that  *)
(* it gets two buffers where the translator is built for that              *)
(* (markReadWriteGrids, Kernel::isRead and isModified).                    *)
BuffersDoubled == (ran.read \cap ran.modified) \subseteq doubled

(* The gets of fn and of the functions it calls, as pairs of a grid        *)
(* parameter of the kernel and the index expressions.                      *)
RECURSIVE Reads(_, _)
Reads(fn, e) ==
    {<<e[findOriginalVar(fn, prog.gets[i].v)], prog.gets[i].idx>> : i \in Gets(fn)}
    \cup UNION {Reads(prog.calls[i].callee,
                   Bound(prog.calls[i].callee,
                         [a \in DOMAIN prog.calls[i].args |->
                             findOriginalVar(fn, prog.calls[i].args[a])], e)) :
                  i \in {j \in DOMAIN prog.calls : prog.calls[j].fn = fn}}
ReadsOf(m) == Reads(KernelCall(m).callee, [v \in Variables(prog) |-> v])

(* Every point a kernel reads, other than its own, is within what the      *)
(* exchange before the map fetches: no process computes from points of     *)
(* another one that it has not got (GenerateLoadRemoteGridRegion,          *)
(* AnalyzeStencilRange, and AnalyzeStencilIndex, which is to refuse the    *)
(* indices it cannot describe).  Its own point is there in a grid with as  *)
(* many dimensions as the map.  A general range makes the program stop.    *)
ReadsLoaded ==
    phase = "run" =>
      \A m \in MapsOf(prog) : \A r \in ReadsOf(m) : \A pt \in Points :
         LET at == [i \in DOMAIN r[2] |-> Value(r[2][i], pt)]
             load == loads[m].params[r[1]]
         IN \/ at = SubSeq(pt, 1, prog.nd)
            \/ /\ r[1] \in DOMAIN loads[m].params
               /\ CASE load.how = "neighbor" -> LoadedByNeighbor(load.range, pt, at)
                    [] load.how = "subgrid" -> LoadedBySubgrid(load.range, pt, at)
                    [] load.how = "general" -> TRUE
                    [] load.how = "none" -> FALSE

(* Where the exchange of a map may overlap with its interior, the boundary *)
(* that is computed afterwards is as wide as the longest reach of a get:   *)
(* the interior reads nothing that is still on its way (overlap_width).    *)
BoundaryWide ==
    phase = "run" =>
      \A m \in MapsOf(prog) : loads[m].eligible =>
        \A r \in ReadsOf(m) : \A pt \in Points : \A i \in DOMAIN r[2] :
          Value(r[2][i], pt) - pt[i] \in -loads[m].width..loads[m].width

(* The rounds of the analyses come to an end, in whatever order the maps   *)
(* are visited.                                                            *)
Finishes == <>(phase \in {"run", "rejected"})
=============================================================================
