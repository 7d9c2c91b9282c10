----------------------------- MODULE VirtualGrid ----------------------------
(***************************************************************************)
(* What the grid API promises to the user's program                         *)
(* (docs/programming.md, "Grid Reads and Writes"; include/physis/physis.h): *)
(* grids live in one global space, every call is done when it returns, and  *)
(* a read returns what was written last.  Nothing of the distribution over  *)
(* MPI processes shows.                                                     *)
(***************************************************************************)
EXTENDS Tables

CONSTANTS
  GridId,  \* the ids grids are known by
  Shape,   \* the sets of points a grid can consist of
  Value,   \* the values of points
  Zero,    \* the value of the points of a new grid
  Kernel   \* Value -> Value: what one run of the stencil does to a point

VARIABLES
  store,   \* id of a live grid -> point -> value
  result   \* what the last call that returned a value returned

Answer(call, x) == [call |-> call, value |-> x]

VInit ==
  /\ store = << >>
  /\ result = Answer("PSInit", {})

VNew(s) ==
  \E id \in GridId \ DOMAIN store :
    /\ store' = With(store, id, [x \in s |-> Zero])
    /\ result' = Answer("PSGridNew", id)

VFree(id) ==
  /\ store' = Without(store, id)
  /\ UNCHANGED result

VCopyin(id, buf) ==
  /\ store' = [store EXCEPT ![id] = buf]
  /\ UNCHANGED result

VSet(id, x, v) ==
  /\ store' = [store EXCEPT ![id][x] = v]
  /\ UNCHANGED result

VRun(id) ==
  /\ store' = [store EXCEPT ![id] = [x \in DOMAIN @ |-> Kernel[@[x]]]]
  /\ UNCHANGED result

VCopyout(id) ==
  /\ result' = Answer("PSGridCopyout", store[id])
  /\ UNCHANGED store

VGet(id, x) ==
  /\ result' = Answer("PSGridGet", store[id][x])
  /\ UNCHANGED store

\* A reduction sees every point of the grid.
VReduce(id) ==
  /\ result' = Answer("PSReduce", store[id])
  /\ UNCHANGED store

VNext ==
  \/ \E s \in Shape : VNew(s)
  \/ \E id \in DOMAIN store :
       \/ VFree(id)
       \/ \E buf \in [DOMAIN store[id] -> Value] : VCopyin(id, buf)
       \/ VCopyout(id)
       \/ \E x \in DOMAIN store[id], v \in Value : VSet(id, x, v)
       \/ \E x \in DOMAIN store[id] : VGet(id, x)
       \/ VRun(id)
       \/ VReduce(id)

VSpec == VInit /\ [][VNext]_<<store, result>>
=============================================================================
