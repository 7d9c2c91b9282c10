----------------------------- MODULE Optimizer ------------------------------
(***************************************************************************)
(* Stage 2 of the optimizer (src/translator/optimizer): the passes that    *)
(* the configuration turns on are applied one after another to the code    *)
(* the translator generated for a map.                                     *)
(*                                                                         *)
(* The inputs are a kernel, the domain of the map and the target: the      *)
(* reference target optimizes the loop over the first dimension, the CUDA  *)
(* target the one over the last, and they order two passes differently.    *)
(***************************************************************************)
EXTENDS LoopOpt

CONSTANTS
    Kernels,     \* kernels: [params, body, ranges], as translated
    Domains      \* domains of the map: <<min, max>>

ASSUME DomainsAssumption ==
    \A d \in Domains : \A i \in 1..2 : d[1][i] \in Nat /\ d[2][i] \in 0..Dims[i]

VARIABLES
    target,      \* "ref" or "cuda"
    kernel,      \* the kernel of the map
    dom,         \* its domain
    code,        \* the innermost loop, as far as it has been optimized
    todo,        \* the passes to come
    applied      \* the passes that the configuration turned on

vars == <<target, kernel, dom, code, todo, applied>>

---------------------------------------------------------------------------
(* ReferenceOptimizer::DoStage2 and CUDAOptimizer::DoStage2.               *)

ReferencePasses ==
    << "kernel_inlining", "loop_peeling", "unconditional_get",
       "register_blocking", "offset_cse", "offset_spatial_cse", "loop_opt" >>

CUDAPasses ==
    << "kernel_inlining", "loop_peeling", "register_blocking",
       "unconditional_get", "offset_cse", "offset_spatial_cse", "loop_opt" >>

LoopDim(t) == IF t = "ref" THEN 1 ELSE 2

Pass(p, ss) ==
    CASE p = "kernel_inlining"    -> kernel_inlining(ss, kernel)
      [] p = "loop_peeling"       -> loop_peeling(ss)
      [] p = "unconditional_get"  -> unconditional_get(ss)
      [] p = "register_blocking"  -> register_blocking(ss, kernel.ranges)
      [] p = "offset_cse"         -> offset_cse(ss)
      [] p = "offset_spatial_cse" -> offset_spatial_cse(ss)
      [] p = "loop_opt"           -> premitive_optimization(loop_opt(ss))

---------------------------------------------------------------------------

Init ==
    /\ target \in {"ref", "cuda"}
    /\ kernel \in Kernels
    /\ dom \in Domains
    /\ code = BuildRunKernelBody(LoopDim(target), dom[1], dom[2])
    /\ todo = IF target = "ref" THEN ReferencePasses ELSE CUDAPasses
    /\ applied = {}

(* The option of the next pass is on.                                      *)
Apply ==
    /\ todo # <<>>
    /\ code' = Pass(Head(todo), code)
    /\ applied' = applied \cup {Head(todo)}
    /\ todo' = Tail(todo)
    /\ UNCHANGED <<target, kernel, dom>>

(* The option is off.  Everything else assumes inlined kernels.            *)
Skip ==
    /\ todo # <<>>
    /\ Head(todo) # "kernel_inlining"
    /\ todo' = Tail(todo)
    /\ UNCHANGED <<target, kernel, dom, code, applied>>

Next == Apply \/ Skip

Spec == Init /\ [][Next]_vars

---------------------------------------------------------------------------
(* Properties.                                                             *)

(* Every loop is over the loop dimension and of a known kind, there is one *)
(* main loop, and the passes to come are a suffix of the target's list.    *)
TypeOK ==
    /\ \A i \in DOMAIN code : code[i].k \in {"set", "if", "for"}
    /\ \A i \in DOMAIN code : code[i].k = "for" =>
          code[i].dim = LoopDim(target) /\ code[i].kind \in {"FIRST", "MAIN", "LAST"}
    /\ Cardinality({ i \in DOMAIN code :
                       code[i].k = "for" /\ code[i].kind = "MAIN" }) = 1
    /\ applied \cap ToSet(todo) = {}

Original == BuildRunKernelBody(LoopDim(target), dom[1], dom[2])

(* Optimized code stores what the code without optimization stores, point  *)
(* by point and whichever passes are on: system tests compare the output   *)
(* of every configuration with that of the reference.                      *)
SameResult ==
    Result(code, kernel, LoopDim(target), dom[1], dom[2])
      = Result(Original, kernel, LoopDim(target), dom[1], dom[2])

Rows == Run(code, kernel, LoopDim(target), dom[1], dom[2])

(* The loops a map is peeled into run every iteration of its domain and no *)
(* other.                                                                  *)
CoversDomain ==
    \A j \in DOMAIN Rows :
        ToSet(Rows[j].ran) = dom[1][LoopDim(target)]..(dom[2][LoopDim(target)] - 1)

(* The main loop begins at the index its attribute names, whatever was     *)
(* peeled off before: registers and carried offsets are loaded for it.     *)
MainLoopBegins ==
    \A j \in DOMAIN Rows : \A i \in DOMAIN Rows[j].entry :
        LET e == Rows[j].entry[i] IN e.kind = "MAIN" => e.first = e.begin
=============================================================================
