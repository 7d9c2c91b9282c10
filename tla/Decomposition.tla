---------------------------- MODULE Decomposition ---------------------------
(***************************************************************************)
(* How the MPI runtime divides the grid space among the processes, and how  *)
(* LoadSubgrid finds the owners of a region (runtime/grid_mpi.cc).  Two      *)
(* algorithms have to agree for every extent and every number of processes: *)
(* partition() and PartitionGrid say what a process holds of a grid, and    *)
(* CollectPerProcSubgridInfo says whom to ask for what.                     *)
(*                                                                         *)
(* Both are loops over the dimensions, and in each over the process indices *)
(* of that dimension; the state is the state of these loops.  The global    *)
(* offset of a grid is zero (mpi_runtime.cc:295) and left out.  "Faulty"    *)
(* marks mistaken forms of the definitions they precede.                    *)
(***************************************************************************)
EXTENDS Partition

CONSTANTS
  NDims,        \* num_dims_, of the space and of the processes
  Extents,      \* the extents a space or a grid can have in one dimension
  ProcCounts,   \* the numbers of processes along one dimension
  PSINDEX_MAX,  \* the largest PSIndex
  WithinSpace   \* does the program only create grids that fit the space?

ASSUME DecompositionAssumption ==
  /\ NDims \in Nat \ {0}
  /\ PSINDEX_MAX \in Nat
  /\ Extents \subseteq 0 .. PSINDEX_MAX /\ 0 \in Extents
  /\ ProcCounts \subseteq Nat \ {0}
  /\ WithinSpace \in BOOLEAN

Dim == 1 .. NDims

VARIABLES
  space,    \* global_size_
  nparts,   \* proc_size_
  parts,    \* partitions_[d][k]: the extent of the k-th partition
  offs,     \* offsets_[d][k]: where it begins
  minPart,  \* min_partition_
  pc,       \* where the process is
  d, j,     \* the loop variables: dimension and process index in it
  offset,   \* local of partition()
  grid,     \* the size of the grid
  lo, lim,  \* the region asked for: lo[e] <= y < lim[e]
  x,        \* local of CollectPerProcSubgridInfo
  slices    \* slices[e]: what fetch_info holds in dimension e

spaceVars == <<space, nparts, parts, offs, minPart, offset>>
vars      == <<spaceVars, pc, d, j, grid, lo, lim, x, slices>>

Index(e) == 0 .. nparts[e] - 1

Origin == [e \in Dim |-> 0]

Init ==
  /\ space \in [Dim -> Extents] /\ nparts \in [Dim -> ProcCounts]
  /\ parts = [e \in Dim |-> [k \in Index(e) |-> 0]]
  /\ offs = [e \in Dim |-> [k \in Index(e) |-> 0]]
  /\ minPart = [e \in Dim |-> PSINDEX_MAX]
  /\ pc = "partition" /\ d = 1 /\ j = 0 /\ offset = 0
  /\ grid = Origin /\ lo = Origin /\ lim = Origin
  /\ x = 0 /\ slices = [e \in Dim |-> {}]

-----------------------------------------------------------------------------
(* partition(), in the constructor of GridSpaceMPI.                         *)

\* Faulty: the remainder is dropped.
PartitionEvenly ==
  /\ pc = "partition" /\ j < nparts[d]
  /\ LET p == space[d] \div nparts[d]
     IN  /\ parts' = [parts EXCEPT ![d][j] = p]
         /\ minPart' = [minPart EXCEPT ![d] = Least(@, p)]
         /\ offset' = offset + p
  /\ offs' = [offs EXCEPT ![d][j] = offset]
  /\ j' = j + 1
  /\ UNCHANGED <<space, nparts, pc, d, grid, lo, lim, x, slices>>

PartitionNext ==
  /\ pc = "partition" /\ j < nparts[d]
  /\ LET p == PartSize(space[d], nparts[d], j)
     IN  /\ parts' = [parts EXCEPT ![d][j] = p]
         /\ minPart' = [minPart EXCEPT ![d] = Least(@, p)]
         /\ offset' = offset + p
  /\ offs' = [offs EXCEPT ![d][j] = offset]
  /\ j' = j + 1
  /\ UNCHANGED <<space, nparts, pc, d, grid, lo, lim, x, slices>>

\* Faulty: the offset is not reset for the next dimension.
PartitionKeepsOffset ==
  /\ pc = "partition" /\ j = nparts[d] /\ d < NDims
  /\ d' = d + 1 /\ j' = 0 /\ offset' = offset
  /\ UNCHANGED <<space, nparts, parts, offs, minPart, pc, grid, lo, lim, x, slices>>

PartitionDim ==
  /\ pc = "partition" /\ j = nparts[d] /\ d < NDims
  /\ d' = d + 1 /\ j' = 0 /\ offset' = 0
  /\ UNCHANGED <<space, nparts, parts, offs, minPart, pc, grid, lo, lim, x, slices>>

PartitionReturn ==
  /\ pc = "partition" /\ j = nparts[d] /\ d = NDims
  /\ pc' = "user"
  /\ UNCHANGED <<spaceVars, d, j, grid, lo, lim, x, slices>>

-----------------------------------------------------------------------------
(* Ranks and process indices.                                              *)

\* The product of the process counts of the dimensions before e.
Stride(e) ==
  LET f[i \in 1 .. NDims + 1] == IF i = 1 THEN 1 ELSE f[i - 1] * nparts[i - 1]
  IN  f[e]

Rank == 0 .. Stride(NDims + 1) - 1

ProcIndex(r) == [e \in Dim |-> (r \div Stride(e)) % nparts[e]]

GetProcessRank(idx) ==
  LET f[i \in 0 .. NDims] == IF i = 0 THEN 0 ELSE f[i - 1] + idx[i] * Stride(i)
  IN  f[NDims]

\* The ranks that follow and precede r in dimension e, around the end.
FwNeighbor(r, e) ==
  GetProcessRank([ProcIndex(r) EXCEPT ![e] = (@ + 1) % nparts[e]])

\* Faulty: the first process has no wrap-around.
BwNeighborClipped(r, e) ==
  GetProcessRank([ProcIndex(r) EXCEPT ![e] = Most(@ - 1, 0)])

BwNeighbor(r, e) ==
  GetProcessRank([ProcIndex(r) EXCEPT
                    ![e] = IF @ - 1 < 0 THEN (@ - 1 + nparts[e]) % nparts[e] ELSE @ - 1])

-----------------------------------------------------------------------------
(* Grids.                                                                   *)

\* operator> of two size arrays is the one of boost::array, which compares
\* lexicographically.
Exceeds(s, t) ==
  \E e \in Dim : s[e] > t[e] /\ \A i \in 1 .. e - 1 : s[i] = t[i]

Fits(s) == \A e \in Dim : s[e] <= space[e]

\* The program creates its grid; the runtime refuses one of excessive size.
GridNew(s) ==
  /\ pc = "user"
  /\ WithinSpace => Fits(s)
  /\ ~Exceeds(s, space)
  /\ grid' = s /\ pc' = "grid"
  /\ UNCHANGED <<spaceVars, d, j, lo, lim, x, slices>>

\* PartitionGrid: the interval of the grid that process index k holds in
\* dimension e.
LocalOffset(e, k) == Most(offs[e][k], 0)
LocalSize(e, k) ==
  Most(Least(grid[e], offs[e][k] + parts[e][k]) - Most(offs[e][k], 0), 0)

Holds(e, k, y) ==
  LocalOffset(e, k) <= y /\ y < LocalOffset(e, k) + LocalSize(e, k)

-----------------------------------------------------------------------------
(* CollectPerProcSubgridInfo.  Its vector of FetchInfos is the product of   *)
(* what it finds in the single dimensions.                                  *)

LoadSubgrid(l, h) ==
  /\ pc = "grid"
  /\ \A e \in Dim : l[e] <= h[e] /\ h[e] <= grid[e]
  /\ lo' = l /\ lim' = h
  /\ slices' = [e \in Dim |-> {}]
  /\ pc' = "collect" /\ d' = 1 /\ j' = 0 /\ x' = l[1]
  /\ UNCHANGED <<spaceVars, grid>>

Slice(p, o, s) == [peer |-> p, off |-> o, size |-> s]

\* Faulty: a slice extends to the end of the peer's partition.
CollectWhole ==
  /\ pc = "collect" /\ j < nparts[d] /\ x < lim[d]
  /\ LET end == offs[d][j] + parts[d][j]
     IN  IF x < end
         THEN /\ slices' = [slices EXCEPT ![d] = @ \cup {Slice(j, x, end - x)}]
              /\ x' = end
         ELSE UNCHANGED <<slices, x>>
  /\ j' = j + 1
  /\ UNCHANGED <<spaceVars, pc, d, grid, lo, lim>>

\* Faulty: x is not moved to where the next partition begins.
CollectStays ==
  /\ pc = "collect" /\ j < nparts[d] /\ x < lim[d]
  /\ LET end == offs[d][j] + parts[d][j]
     IN  IF x < end
         THEN slices' = [slices EXCEPT ![d] =
                           @ \cup {Slice(j, x, Least(end - x, lim[d] - x))}]
         ELSE UNCHANGED slices
  /\ j' = j + 1
  /\ UNCHANGED <<spaceVars, pc, d, grid, lo, lim, x>>

CollectNext ==
  /\ pc = "collect" /\ j < nparts[d] /\ x < lim[d]
  /\ LET end == offs[d][j] + parts[d][j]
     IN  IF x < end
         THEN /\ slices' = [slices EXCEPT ![d] =
                              @ \cup {Slice(j, x, Least(end - x, lim[d] - x))}]
              /\ x' = end
         ELSE UNCHANGED <<slices, x>>
  /\ j' = j + 1
  /\ UNCHANGED <<spaceVars, pc, d, grid, lo, lim>>

\* Faulty: the process index is not reset for the next dimension.
CollectKeepsIndex ==
  /\ pc = "collect" /\ ~(j < nparts[d] /\ x < lim[d]) /\ d < NDims
  /\ d' = d + 1 /\ j' = j /\ x' = lo[d + 1]
  /\ UNCHANGED <<spaceVars, pc, grid, lo, lim, slices>>

CollectDim ==
  /\ pc = "collect" /\ ~(j < nparts[d] /\ x < lim[d]) /\ d < NDims
  /\ d' = d + 1 /\ j' = 0 /\ x' = lo[d + 1]
  /\ UNCHANGED <<spaceVars, pc, grid, lo, lim, slices>>

CollectReturn ==
  /\ pc = "collect" /\ ~(j < nparts[d] /\ x < lim[d]) /\ d = NDims
  /\ pc' = "grid"
  /\ UNCHANGED <<spaceVars, d, j, grid, lo, lim, x, slices>>

-----------------------------------------------------------------------------
Next ==
  \/ PartitionNext \/ PartitionDim \/ PartitionReturn
  \/ \E s \in [Dim -> Extents] : GridNew(s)
  \/ \E l, h \in [Dim -> Extents] : LoadSubgrid(l, h)
  \/ CollectNext \/ CollectDim \/ CollectReturn

Spec == Init /\ [][Next]_vars

-----------------------------------------------------------------------------
Slices == [peer: Nat, off: Nat, size: Nat]

TypeOK ==
  /\ space \in [Dim -> Extents] /\ nparts \in [Dim -> ProcCounts]
  /\ DOMAIN parts = Dim /\ DOMAIN offs = Dim
  /\ \A e \in Dim : parts[e] \in [Index(e) -> Nat] /\ offs[e] \in [Index(e) -> Nat]
  /\ minPart \in [Dim -> 0 .. PSINDEX_MAX]
  /\ pc \in {"partition", "user", "grid", "collect"}
  /\ d \in Dim /\ j \in Nat /\ offset \in Nat
  /\ grid \in [Dim -> Extents]
  /\ lo \in [Dim -> Nat] /\ lim \in [Dim -> Nat] /\ x \in Nat
  /\ slices \in [Dim -> SUBSET Slices]

Divided == pc # "partition"

\* Partition k of dimension e contains y.
Contains(e, k, y) == offs[e][k] <= y /\ y < offs[e][k] + parts[e][k]

\* The partitions cover the space: no point has no owner, whatever the extent
\* and the number of processes, more processes than points included.
EveryPointOwned ==
  Divided => \A e \in Dim : \A y \in 0 .. space[e] - 1 :
    \E k \in Index(e) : Contains(e, k, y)

\* They do not overlap and do not leave the space: no point has two owners,
\* whose copies could differ.
OwnersDistinct ==
  Divided => \A e \in Dim : \A k, m \in Index(e) :
    /\ k < m => offs[e][k] + parts[e][k] <= offs[e][m]
    /\ offs[e][k] + parts[e][k] <= space[e]

\* Partitions of one dimension differ by one at most, and min_partition_, by
\* which LoadNeighbor judges the width of a halo, is the smallest extent.
Balanced ==
  Divided => \A e \in Dim : \A k \in Index(e) :
    parts[e][k] - minPart[e] \in {0, 1}

\* The process indices and the ranks name the same processes, and whoever r
\* calls its forward neighbor calls r its backward neighbor: what one sends
\* in a halo exchange the other expects.
RanksAgree ==
  \A r \in Rank :
    /\ GetProcessRank(ProcIndex(r)) = r
    /\ \A e \in Dim : BwNeighbor(FwNeighbor(r, e), e) = r
                    /\ FwNeighbor(BwNeighbor(r, e), e) = r

\* "ensure the grid size is within the global grid space size"
\* (mpi_runtime.cc:298): no grid has a point that no process owns.
GridFits == Fits(grid)

Collected == pc = "grid"

\* The slices cover the region asked for.  A single point has an owner, and
\* by SlicesExact only one, as FindOwnerProcess asserts (grid_mpi.cc:1051).
SlicesCover ==
  Collected => \A e \in Dim : \A y \in lo[e] .. lim[e] - 1 :
    \E s \in slices[e] : s.off <= y /\ y < s.off + s.size

\* Nothing is asked for outside of the region, twice, or for no reason, and no
\* peer is asked twice: fetch_map has one entry for a rank, and a reply is
\* matched to it by its rank.
SlicesExact ==
  Collected => \A e \in Dim : \A s, t \in slices[e] :
    /\ lo[e] <= s.off /\ s.size > 0 /\ s.off + s.size <= lim[e]
    /\ s # t => /\ s.peer # t.peer
                /\ s.off + s.size <= t.off \/ t.off + t.size <= s.off

\* What is asked of a peer is in the part of the grid that the peer holds:
\* HandleFetchRequest copies it from there without a check.
PeersHoldSlices ==
  Collected => \A e \in Dim : \A s \in slices[e] :
    /\ s.peer \in Index(e)
    /\ \A y \in s.off .. s.off + s.size - 1 : Holds(e, s.peer, y)

-----------------------------------------------------------------------------
(* The inductive invariants behind them: that of partition(), and that of   *)
(* CollectPerProcSubgridInfo.                                              *)

\* The partitions of dimension e that are computed so far.
Built(e) == IF pc # "partition" \/ e < d THEN nparts[e]
            ELSE IF e = d THEN j ELSE 0

Layout(e) ==
  \A k \in 0 .. Built(e) - 1 :
    /\ parts[e][k] = PartSize(space[e], nparts[e], k)
    /\ offs[e][k] = PartOffset(space[e], nparts[e], k)

\* They cover all that comes before the next one.
Owned(e) ==
  \A y \in 0 .. PartOffset(space[e], nparts[e], Built(e)) - 1 :
    \E k \in 0 .. Built(e) - 1 : Contains(e, k, y)

\* The smallest partition is the first one.
MinFirst(e) ==
  minPart[e] = IF Built(e) = 0 THEN PSINDEX_MAX ELSE space[e] \div nparts[e]

LoopOffset ==
  pc = "partition" =>
    j <= nparts[d] /\ offset = PartOffset(space[d], nparts[d], j)

PartInv ==
  /\ LoopOffset
  /\ \A e \in Dim : Layout(e) /\ Owned(e) /\ MinFirst(e)

\* How far dimension e has been searched, and among which process indices.
Reached(e) == IF pc # "collect" \/ e < d THEN lim[e]
              ELSE IF e = d THEN Least(x, lim[e]) ELSE lo[e]
Seen(e)    == IF pc # "collect" \/ e < d THEN nparts[e]
              ELSE IF e = d THEN j ELSE 0

Region == \A e \in Dim : lo[e] <= lim[e] /\ lim[e] <= grid[e] /\ grid[e] <= space[e]

Fresh ==
  pc \in {"partition", "user"} => \A e \in Dim : grid[e] = 0 /\ slices[e] = {}

\* x is never behind the partition that is looked at next.
Position ==
  pc = "collect" =>
    /\ j <= nparts[d] /\ lo[d] <= x
    /\ x < lim[d] => PartOffset(space[d], nparts[d], j) <= x

SliceOf(e, s) ==
  /\ s.peer \in 0 .. Seen(e) - 1
  /\ lo[e] <= s.off /\ s.size > 0 /\ s.off + s.size <= Reached(e)
  /\ offs[e][s.peer] <= s.off
  /\ s.off + s.size <= offs[e][s.peer] + parts[e][s.peer]

SliceInv(e) ==
  /\ \A s \in slices[e] : SliceOf(e, s)
  /\ \A s, t \in slices[e] : s.peer = t.peer => s = t
  /\ \A y \in lo[e] .. Reached(e) - 1 :
       \E s \in slices[e] : s.off <= y /\ y < s.off + s.size

CollectInv == Region /\ Fresh /\ Position /\ \A e \in Dim : SliceInv(e)

DecompositionInv == TypeOK /\ PartInv /\ CollectInv
=============================================================================
