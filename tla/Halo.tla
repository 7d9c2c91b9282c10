-------------------------------- MODULE Halo --------------------------------
(***************************************************************************)
(* The halo exchange of the MPI runtime (runtime/grid_mpi.cc) in the loop    *)
(* of a stencil run.  LoadNeighbor derives the widths of the halos from the  *)
(* offsets of the stencil.  ExchangeBoundaries then goes through the         *)
(* dimensions, the last one first: a process posts the receives of its two   *)
(* halos, copies out and sends what its neighbours need, and waits for the   *)
(* receives.  With diagonal accesses the slab of a dimension contains the    *)
(* halos of the later dimensions, so that a corner takes several hops.       *)
(*                                                                         *)
(* The program has two stencil maps, one that reads grid 0 and writes grid   *)
(* 1 and one that does the reverse, so that round r reads grid r % 2.  The   *)
(* content of a point after r maps is <<point, r>>.  Buffers are functions   *)
(* on the boxes of their extents; an address outside of its box is memory    *)
(* with another content, Garbage.  The sends are never waited for: if MPI    *)
(* has not copied a message (Eager), it still reads the sender's buffer.     *)
(* "Faulty" marks mistaken forms of the definitions they precede.           *)
(***************************************************************************)
EXTENDS Mpi, Partition, FiniteSets, FiniteSetsExt

CONSTANTS
  NDims,       \* num_dims_ of the space, the grids and the processes
  PS_MAX_DIM,
  Jobs,        \* the stencil programs and their processes, see Job
  MaxRounds,   \* bound: the number of maps run
  Eager,       \* does MPI_Isend copy the message at once?
  Garbage      \* the content of memory that is not the point asked for

Dim     == 1 .. NDims

(***************************************************************************)
(* procs     proc_size_                                                    *)
(* space     global_size_                                                  *)
(* size      the size of the grids                                         *)
(* stencil   the offsets of the points that the kernel reads               *)
(* periodic  does it read them with PSGridGetPeriodic?                     *)
(***************************************************************************)
Job == [procs: [Dim -> Nat \ {0}], space: [Dim -> Nat], size: [Dim -> Nat],
        stencil: SUBSET [Dim -> Int], periodic: BOOLEAN]

VARIABLES
  job,      \* the program, and what follows from it; it does not change
  net,      \* net[p][q]: the slabs from p to q
  round,    \* round[p]: the maps that p has run
  dim,      \* dim[p]: the dimension that p exchanges next; 0: none is left
  pending,  \* pending[p]: the posted receives, "fw" and "bw", not complete
  halo      \* halo[p]: the halos of the grid that p reads

vars == <<job, net, round, dim, pending, halo>>

-----------------------------------------------------------------------------
(* Processes are named by their indices.                                    *)

Procs(jb) ==
  {p \in [Dim -> UNION {0 .. jb.procs[d] - 1 : d \in Dim}] :
     \A d \in Dim : p[d] < jb.procs[d]}
Proc == DOMAIN job.offset

FwPeer(p, d) == [p EXCEPT ![d] = (@ + 1) % job.procs[d]]
BwPeer(p, d) == [p EXCEPT ![d] = IF @ = 0 THEN job.procs[d] - 1 ELSE @ - 1]

\* PartitionGrid, in dimension d for process index k.
PartFirst(jb, d, k) == PartOffset(jb.space[d], jb.procs[d], k)
PartExtent(jb, d, k) ==
  Most(Least(jb.size[d], PartFirst(jb, d, k) + PartSize(jb.space[d], jb.procs[d], k))
         - PartFirst(jb, d, k), 0)

LocalOffset(p, d) == job.offset[p][d]
LocalSize(p, d)   == job.extent[p][d]
Empty(p)          == \E d \in Dim : LocalSize(p, d) = 0

\* Faulty: the last part has a successor.
HasFwInclusive(p, d) ==
  job.periodic \/ LocalOffset(p, d) + LocalSize(p, d) <= job.size[d]

\* There is a part of the grid before, and after, that of p.
HasBw(p, d) == job.periodic \/ LocalOffset(p, d) > 0
HasFw(p, d) == job.periodic \/ LocalOffset(p, d) + LocalSize(p, d) < job.size[d]

\* What StencilRange collects of the stencil, and the widths that LoadNeighbor
\* makes of it.
BwWidth(jb, d) == Most(- Min({o[d] : o \in jb.stencil}), 0)
FwWidth(jb, d) == Most(Max({o[d] : o \in jb.stencil}), 0)
Diagonal(jb)   == \E o \in jb.stencil : \E d, e \in Dim : d # e /\ o[d] # 0 /\ o[e] # 0

\* The job with local_offset_ and local_size_ of every process, and with the
\* arguments of LoadNeighbor.
Prepared(jb) ==
  [procs |-> jb.procs, size |-> jb.size, stencil |-> jb.stencil,
   periodic |-> jb.periodic,
   offset |-> [p \in Procs(jb) |-> [d \in Dim |-> PartFirst(jb, d, p[d])]],
   extent |-> [p \in Procs(jb) |-> [d \in Dim |-> PartExtent(jb, d, p[d])]],
   fwWidth |-> [d \in Dim |-> FwWidth(jb, d)],
   bwWidth |-> [d \in Dim |-> BwWidth(jb, d)],
   diagonal |-> Diagonal(jb)]

\* The code asserts none of this, but checks nothing else: a part is at least
\* as wide as the halo its neighbour wants, and in a periodic grid every
\* process has a part.
Fits(jb, d, k) ==
  LET extent == PartExtent(jb, d, k)
  IN  IF extent = 0 THEN ~jb.periodic
      ELSE Most(BwWidth(jb, d), FwWidth(jb, d)) <= extent

ASSUME HaloAssumption ==
  /\ PS_MAX_DIM \in Nat /\ NDims \in 1 .. PS_MAX_DIM
  /\ MaxRounds \in Nat /\ Eager \in BOOLEAN /\ Garbage \notin [Dim -> Int] \X Nat
  /\ \A jb \in Jobs :
       /\ jb \in Job /\ jb.stencil # {} /\ IsFiniteSet(jb.stencil)
       /\ \A d \in Dim : \A k \in 0 .. jb.procs[d] - 1 : Fits(jb, d, k)

-----------------------------------------------------------------------------
(* Halos and addresses.                                                     *)

\* The indices of a buffer of the given extents.
Box(ext) ==
  {l \in [Dim -> UNION {0 .. ext[d] - 1 : d \in Dim}] : \A d \in Dim : l[d] < ext[d]}

LocalBox(p) == Box([d \in Dim |-> LocalSize(p, d)])

\* CalcHaloSize and SetHaloSize: the extents of a halo of p in dimension d,
\* when the halos of the later dimensions have the widths in h.
HaloExtent(p, h, d, width) ==
  [e \in Dim |-> IF e = d THEN width
                 ELSE IF job.diagonal /\ e > d
                 THEN LocalSize(p, e) + h.fwWidth[e] + h.bwWidth[e]
                 ELSE LocalSize(p, e)]

Global(p, l)    == [d \in Dim |-> l[d] + LocalOffset(p, d)]
Content(p, l)   == <<Global(p, l), round[p]>>
Cell(buffer, l) == IF l \in DOMAIN buffer THEN buffer[l] ELSE Garbage

Outside(p, l) == {d \in Dim : l[d] < 0 \/ l[d] >= LocalSize(p, d)}

\* Faulty: the index is not moved by the widths of the later halos.
LookupUnshifted(p, h, l) ==
  IF Outside(p, l) = {} THEN Content(p, l)
  ELSE LET d == Min(Outside(p, l))
       IN  IF l[d] < 0 THEN Cell(h.bw[d], [l EXCEPT ![d] = @ + h.bwWidth[d]])
           ELSE Cell(h.fw[d], [l EXCEPT ![d] = @ - LocalSize(p, d)])

\* Where the point with local index l of p is found: in the halo of the first
\* dimension in which l is outside, which contains the later halos if it has
\* diagonal points, or in the grid.
Lookup(p, h, l) ==
  IF Outside(p, l) = {} THEN Content(p, l)
  ELSE LET d == Min(Outside(p, l))
           s == [e \in Dim |-> IF e > d /\ h.diagonal THEN l[e] + h.bwWidth[e] ELSE l[e]]
       IN  IF l[d] < 0 THEN Cell(h.bw[d], [s EXCEPT ![d] = @ + h.bwWidth[d]])
           ELSE Cell(h.fw[d], [s EXCEPT ![d] = @ - LocalSize(p, d)])

\* __PSGridGetAddr looks at PS_MAX_DIM dimensions, and local_size_ is zero in
\* those that the grid does not have: it takes the point to be outside there.
GetAddr(p, l) ==
  IF Outside(p, l) = {} /\ NDims < PS_MAX_DIM THEN Garbage
  ELSE Lookup(p, halo[p], l)

\* What the kernel reads at offset o of the point with local index l; a read of
\* the point itself has an address function of its own.
StencilRead(p, l, o) ==
  IF \A d \in Dim : o[d] = 0 THEN Content(p, l)
  ELSE GetAddr(p, [d \in Dim |-> l[d] + o[d]])

\* CopyoutHalo: what p sends for the forward (fw) or backward accesses of its
\* neighbour in dimension d.
Slab(p, h, d, width, fw) ==
  [l \in Box(HaloExtent(p, h, d, width)) |->
     LET s == [e \in Dim |->
                 IF e = d THEN (IF fw THEN l[e] ELSE l[e] + LocalSize(p, e) - width)
                 ELSE IF job.diagonal /\ e > d THEN l[e] - h.bwWidth[e] ELSE l[e]]
     IN  IF s[d] \in 0 .. LocalSize(p, d) - 1 THEN Lookup(p, h, s) ELSE Garbage]

-----------------------------------------------------------------------------
(* Messages, and the memory that MPI sends them from.                       *)

\* The send buffer for dimension d of the grid of round r; the slabs of the
\* last dimension lie in the grid itself.
Buffer(r, d, fw) == [grid |-> r % 2, dim |-> d, fw |-> fw]
InGrid(r)        == {Buffer(r, NDims, fw) : fw \in BOOLEAN}

Message(slab, buffer) == [slab |-> slab, buffer |-> buffer]
Spoilt(m) == [m EXCEPT !.slab = [l \in DOMAIN @ |-> Garbage]]

\* The network after p has written to the given buffers.
Overwrite(n, p, buffers) ==
  IF Eager THEN n
  ELSE [n EXCEPT ![p] =
          [q \in Proc |-> [i \in DOMAIN n[p][q] |->
             IF n[p][q][i].buffer \in buffers THEN Spoilt(n[p][q][i]) ELSE n[p][q][i]]]]

\* p copies out a slab and sends it to q.
SendSlab(n, p, q, h, d, width, fw) ==
  LET b == Buffer(round[p], d, fw)
  IN  Put(IF d = NDims THEN n ELSE Overwrite(n, p, {b}), p, q,
          Message(Slab(p, h, d, width, fw), b))

-----------------------------------------------------------------------------
NoHalo == [fwWidth |-> [d \in Dim |-> 0], bwWidth |-> [d \in Dim |-> 0],
           fw |-> [d \in Dim |-> << >>], bw |-> [d \in Dim |-> << >>],
           diagonal |-> FALSE]

Init ==
  /\ job \in {Prepared(jb) : jb \in Jobs}
  /\ net = EmptyNet(Proc)
  /\ round = [p \in Proc |-> 0] /\ dim = [p \in Proc |-> NDims]
  /\ pending = [p \in Proc |-> {}]
  /\ halo = [p \in Proc |-> NoHalo]

\* ExchangeBoundariesAsync of p for dimension dim[p], after the receives of
\* the dimension before are complete.
Exchange(p) ==
  /\ round[p] < MaxRounds /\ dim[p] > 0 /\ pending[p] = {}
  /\ dim' = [dim EXCEPT ![p] = @ - 1]
  /\ UNCHANGED <<job, round>>
  /\ IF Empty(p) THEN UNCHANGED <<net, pending, halo>>
     ELSE
       LET d      == dim[p]
           fwW    == job.fwWidth[d]
           bwW    == job.bwWidth[d]
           recvFw == fwW > 0 /\ HasFw(p, d)
           recvBw == bwW > 0 /\ HasBw(p, d)
           sendFw == fwW > 0 /\ HasBw(p, d)
           sendBw == bwW > 0 /\ HasFw(p, d)
           h == [halo[p] EXCEPT
                   !.fwWidth[d] = IF recvFw THEN fwW ELSE 0,
                   !.bwWidth[d] = IF recvBw THEN bwW ELSE 0,
                   !.diagonal = IF sendFw \/ sendBw THEN job.diagonal ELSE @]
           n1 == IF sendFw THEN SendSlab(net, p, BwPeer(p, d), h, d, fwW, TRUE) ELSE net
           n2 == IF sendBw THEN SendSlab(n1, p, FwPeer(p, d), h, d, bwW, FALSE) ELSE n1
       IN  /\ halo' = [halo EXCEPT ![p] = h]
           /\ pending' = [pending EXCEPT ![p] = {x \in {"fw", "bw"} :
                                                   \/ x = "fw" /\ recvFw
                                                   \/ x = "bw" /\ recvBw}]
           /\ net' = n2

\* What a receive of the given extents makes of a slab: the bytes are the same,
\* the points are not if the extents differ.
Received(m, ext) ==
  IF DOMAIN m.slab = Box(ext) THEN m.slab ELSE [l \in Box(ext) |-> Garbage]

\* The posted receives of p complete: a slab from the forward peer, and one
\* from the backward peer.  If they are the same process, the receive that was
\* posted first, the one for forward accesses, gets the first slab.
ArriveFw(p) ==
  LET d == dim[p] + 1
      q == FwPeer(p, d)
  IN  /\ "fw" \in pending[p] /\ Pending(net, q, p)
      /\ halo' = [halo EXCEPT ![p].fw[d] =
                    Received(Oldest(net, q, p),
                             HaloExtent(p, halo[p], d, halo[p].fwWidth[d]))]
      /\ net' = Drop(net, q, p)
      /\ pending' = [pending EXCEPT ![p] = @ \ {"fw"}]
      /\ UNCHANGED <<job, round, dim>>

ArriveBw(p) ==
  LET d == dim[p] + 1
      q == BwPeer(p, d)
  IN  /\ "bw" \in pending[p] /\ Pending(net, q, p)
      /\ q = FwPeer(p, d) => "fw" \notin pending[p]
      /\ halo' = [halo EXCEPT ![p].bw[d] =
                    Received(Oldest(net, q, p),
                             HaloExtent(p, halo[p], d, halo[p].bwWidth[d]))]
      /\ net' = Drop(net, q, p)
      /\ pending' = [pending EXCEPT ![p] = @ \ {"bw"}]
      /\ UNCHANGED <<job, round, dim>>

\* ExchangeBoundaries has returned for all dimensions: all halos are there.
Loaded(p) == round[p] < MaxRounds /\ dim[p] = 0 /\ pending[p] = {}

\* Faulty: the requests of the last dimension are dropped.
RunKernelDrops(p) ==
  /\ round[p] < MaxRounds /\ dim[p] = 0
  /\ round' = [round EXCEPT ![p] = @ + 1]
  /\ dim' = [dim EXCEPT ![p] = NDims]
  /\ net' = Overwrite(net, p, InGrid(round[p] + 1))
  /\ pending' = [pending EXCEPT ![p] = {}]
  /\ UNCHANGED <<job, halo>>

\* The kernel runs on p's part and writes the other grid.
RunKernel(p) ==
  /\ Loaded(p)
  /\ round' = [round EXCEPT ![p] = @ + 1]
  /\ dim' = [dim EXCEPT ![p] = NDims]
  /\ net' = Overwrite(net, p, InGrid(round[p] + 1))
  /\ UNCHANGED <<job, pending, halo>>

Finished == \A p \in Proc : round[p] = MaxRounds
Stopped  == Finished /\ UNCHANGED vars

Step(p) == Exchange(p) \/ ArriveFw(p) \/ ArriveBw(p) \/ RunKernel(p)

Next == (\E p \in Proc : Step(p)) \/ Stopped

Spec == Init /\ [][Next]_vars

\* As long as some process can go on, one does.
Fairness == WF_vars(\E p \in Proc : Step(p))

FairSpec == Spec /\ Fairness

-----------------------------------------------------------------------------
Value == [Dim -> Int] \X Nat \cup {Garbage}

Widths == [Dim -> Nat]

TypeOK ==
  /\ job \in {Prepared(jb) : jb \in Jobs}
  /\ round \in [Proc -> 0 .. MaxRounds] /\ dim \in [Proc -> 0 .. NDims]
  /\ pending \in [Proc -> SUBSET {"fw", "bw"}]
  /\ \A p \in Proc :
       /\ dim[p] = NDims => pending[p] = {}
       /\ halo[p].fwWidth \in Widths /\ halo[p].bwWidth \in Widths
       /\ halo[p].diagonal => job.diagonal

\* PSGridGet "returns the value of the specified point" (docs/programming.md:112):
\* when the kernel of a round runs, what it reads at an offset, in its own part
\* or in a halo, is that point as the round before has left it everywhere.
Wrapped(x)  == [d \in Dim |-> IF job.periodic THEN x[d] % job.size[d] ELSE x[d]]
InsideOf(x) == \A d \in Dim : 0 <= x[d] /\ x[d] < job.size[d]

HaloCurrent ==
  \A p \in Proc : Loaded(p) /\ ~Empty(p) =>
    \A l \in LocalBox(p), o \in job.stencil :
      LET x == Wrapped([d \in Dim |-> Global(p, l)[d] + o[d]])
      IN  InsideOf(x) => StencilRead(p, l, o) = <<x, round[p]>>

\* Although no send is ever waited for, no process writes to a buffer, or to
\* the grid, while a neighbour has still to receive from it.
SendsIntact ==
  \A p, q \in Proc : \A i \in DOMAIN net[p][q] :
    \A l \in DOMAIN net[p][q][i].slab : net[p][q][i].slab[l] # Garbage

\* Every slab that is sent is received in the round it is sent for: a process
\* whose halos are there has at most slabs of the next round to come, from
\* neighbours that are one round ahead, and after the last round there is none.
NothingLeft ==
  \A p, q \in Proc :
    /\ Loaded(p) => \A i \in DOMAIN net[q][p] :
         net[q][p][i].buffer.grid # round[p] % 2 /\ round[q] = round[p] + 1
    /\ Finished => net[q][p] = << >>

\* The exchange does not hang: all rounds are run.
RoundsEnd == <>Finished
=============================================================================
