------------------------------- MODULE CudaRun -------------------------------
(***************************************************************************)
(* A stencil run of the MPI and CUDA translation.  In every process a host  *)
(* thread goes through the generated loop (translator/mpi_cuda_translator.cc,*)
(* ProcessStencilMap and BuildRunBody): it launches the kernel for the       *)
(* interior, which reads no halo, exchanges the halos with its neighbours    *)
(* while that kernel runs (runtime/grid_mpi_cuda.cc, LoadNeighbor), and then *)
(* launches the kernels for the boundary.  Nothing but the rules of CUDA     *)
(* streams keeps a kernel from running before its halos have arrived, after  *)
(* the next exchange has replaced them, or while another one writes what it  *)
(* reads.                                                                   *)
(*                                                                         *)
(* The program has two maps, so that round r reads grid r % 2 and writes the *)
(* other one.  A point holds the number of the round whose map has written   *)
(* it, or Garbage if a value it was computed from was not the one of the     *)
(* round before.  A kernel is one step of the device.                       *)
(* "Faulty" marks mistaken forms of the definitions they precede.           *)
(***************************************************************************)
EXTENDS CudaGrid, Mpi, Partition, SequencesExt

CONSTANTS
  Jobs,        \* the programs, the options they are translated with, see Job
  XStreams,    \* num_x_streams of ProcessStencilMap
  Eager,       \* does MPI_Isend copy the message at once?
  Garbage      \* what memory holds that is not the value asked for

\* Streams: the default one, stream_inner, stream_boundary_copy, and
\* stream_boundary_kernel[i].
DefaultStream == 0
InnerStream   == 1
CopyStream    == 2
KernelStream(i) == 3 + i

(***************************************************************************)
(* procs, size, stencil, periodic    as in Halo                            *)
(* lo, hi      the domain of the maps                                      *)
(* overlap     flag_mpi_overlap_                                           *)
(* streams     flag_multistream_boundary_                                  *)
(* eligible    no grid of the maps is loaded with LoadSubgrid              *)
(* staged      the halos are loaded with __PSLoadNeighborStage1 and Stage2 *)
(* regular     the kernels' index expressions are in regular order         *)
(* rounds      bound: the number of maps run                               *)
(***************************************************************************)
Job == [procs: [Axis -> Nat \ {0}], size: [Axis -> Nat],
        stencil: SUBSET [Axis -> Int], periodic: BOOLEAN,
        lo: [Axis -> Nat], hi: [Axis -> Nat],
        overlap: BOOLEAN, streams: BOOLEAN, eligible: BOOLEAN, staged: BOOLEAN,
        regular: BOOLEAN, rounds: Nat]

ASSUME CudaRunAssumption ==
  /\ Jobs \subseteq Job
  /\ \A jb \in Jobs : jb.stencil # {} /\ IsFiniteSet(jb.stencil)
  /\ XStreams \in Nat \ {0} /\ Eager \in BOOLEAN
  /\ Garbage \notin Int /\ Garbage \notin [Axis -> Int] \X Int

VARIABLES
  job,      \* the program, and what follows from it; it does not change
  net,      \* net[p][q]: the slabs from p to q
  round,    \* round[p]: the maps whose loop body the host of p has left
  at,       \* at[p]: the operation of the loop body that it does next
  queue,    \* queue[p]: the kernels launched by p that have not run
  grid,     \* grid[p][g]: the host's side of grid g
  data      \* data[p][g][l]: what grid g of p holds at local index l

vars == <<job, net, round, at, queue, grid, data>>

-----------------------------------------------------------------------------
(* The job.                                                                 *)

Procs(jb) == Block(Origin, jb.procs)
Proc      == DOMAIN job.offset
Size(p)   == job.extent[p]
Offset(p) == job.offset[p]

FwPeer(p, d) == [p EXCEPT ![d] = (@ + 1) % job.procs[d]]
BwPeer(p, d) == [p EXCEPT ![d] = (@ + job.procs[d] - 1) % job.procs[d]]

BwWidth(jb, d) == Most(- Min({o[d] : o \in jb.stencil}), 0)
FwWidth(jb, d) == Most(Max({o[d] : o \in jb.stencil}), 0)
Diagonal(jb)   == \E o \in jb.stencil : \E d, e \in Axis : d # e /\ o[d] # 0 /\ o[e] # 0
Width(jb)      == Max({BwWidth(jb, d) : d \in Axis} \cup {FwWidth(jb, d) : d \in Axis})
Enabled(jb)    == jb.overlap /\ jb.eligible

-----------------------------------------------------------------------------
(* The body of the loop, as the sequence of the calls that it makes.        *)

Send(d, fw)    == [op |-> "send", d |-> d, fw |-> fw]
CopyOut(d, fw) == [op |-> "copyout", d |-> d, fw |-> fw]
Isend(d, fw)   == [op |-> "isend", d |-> d, fw |-> fw]
Recv(d, fw)    == [op |-> "recv", d |-> d, fw |-> fw]
Wait(d)        == [op |-> "wait", d |-> d]
Sync           == [op |-> "sync"]

\* The launch of a kernel.  variant says which functions it reads the grid with,
\* face, slice and of the part of the domain it goes through.
Launch(variant, stream, face, slice, of) ==
  [op |-> "launch", variant |-> variant, stream |-> stream, face |-> face,
   slice |-> slice, of |-> of]

Whole == <<0, FALSE>>

\* Faulty: the slabs are received before any is sent.
ExchangeReceivesFirst(d) ==
  <<Recv(d, FALSE), Recv(d, TRUE), Send(d, FALSE), Send(d, TRUE), Wait(d)>>

\* ExchangeBoundaries
Exchange(d) ==
  <<Send(d, FALSE), Send(d, TRUE), Recv(d, FALSE), Recv(d, TRUE), Wait(d)>>

\* ExchangeBoundariesStage1 and Stage2
Stage1(d) == <<CopyOut(d, FALSE), CopyOut(d, TRUE)>>
Stage2(d) ==
  <<Isend(d, FALSE), Isend(d, TRUE), Recv(d, FALSE), Recv(d, TRUE), Wait(d)>>

\* LoadNeighbor, or LoadNeighborStage1 and LoadNeighborStage2.
LoadNeighbor(jb) ==
  IF Width(jb) = 0 THEN << >>
  ELSE IF jb.staged
  THEN Stage1(2) \o Stage1(1) \o Exchange(3) \o Stage2(2) \o Stage2(1)
  ELSE Exchange(3) \o Exchange(2) \o Exchange(1)

\* The kernels of the boundary, each on a stream of its own: the two faces in x
\* in slices, and those in y and z.
FaceLaunches ==
  [i \in 1 .. 2 * XStreams |->
     LET fw == i > XStreams
     IN  Launch("face", KernelStream(i - 1), <<1, fw>>, (i - 1) % XStreams, XStreams)]
  \o [i \in 1 .. 4 |->
     Launch("face", KernelStream(2 * XStreams + i - 1),
            <<2 + (i - 1) \div 2, i % 2 = 0>>, 0, 1)]

\* Faulty: the host does not wait for the kernels on streams of their own.
BodyUnsynchronized(jb) ==
  IF ~Enabled(jb) THEN LoadNeighbor(jb) \o <<Launch("normal", DefaultStream, Whole, 0, 1)>>
  ELSE <<Launch("inner", InnerStream, Whole, 0, 1)>> \o LoadNeighbor(jb)
         \o (IF Width(jb) = 0 THEN << >>
             ELSE IF jb.streams THEN FaceLaunches
             ELSE <<Launch("boundary", DefaultStream, Whole, 0, 1)>>)

\* ProcessStencilMap
Body(jb) ==
  IF ~Enabled(jb) THEN LoadNeighbor(jb) \o <<Launch("normal", DefaultStream, Whole, 0, 1)>>
  ELSE <<Launch("inner", InnerStream, Whole, 0, 1)>> \o LoadNeighbor(jb)
         \o (IF Width(jb) = 0 THEN << >>
             ELSE IF jb.streams THEN FaceLaunches \o <<Sync>>
             ELSE <<Launch("boundary", DefaultStream, Whole, 0, 1)>>)

\* SendBoundaries has something to send: a slab for the forward accesses of the
\* backward neighbour, or the other way round; RecvBoundaries has something to
\* receive.
HasFw(j, p, d) == j.periodic \/ j.offset[p][d] + j.extent[p][d] # j.size[d]
HasBw(j, p, d) == j.periodic \/ j.offset[p][d] # 0
Sends(j, p, d, fw) ==
  IF fw THEN j.fw[d] > 0 /\ HasBw(j, p, d) ELSE j.bw[d] > 0 /\ HasFw(j, p, d)
Receives(j, p, d, fw) ==
  IF fw THEN j.fw[d] > 0 /\ HasFw(j, p, d) ELSE j.bw[d] > 0 /\ HasBw(j, p, d)

\* Call c does anything in process p.  Where nothing is received, the width of the
\* halo is set to zero, which it is already.
Does(j, p, c) ==
  CASE c.op \in {"send", "copyout", "isend"} -> Sends(j, p, c.d, c.fw)
    [] c.op = "recv" -> Receives(j, p, c.d, c.fw)
    [] OTHER -> TRUE

\* The job with its loop body, local_offset_ and local_size_, and the widths.
Prepared(jb) ==
  [procs |-> jb.procs, size |-> jb.size, stencil |-> jb.stencil,
   periodic |-> jb.periodic, lo |-> jb.lo, hi |-> jb.hi,
   rounds |-> jb.rounds, regular |-> jb.regular, body |-> Body(jb),
   stream |-> IF jb.eligible THEN CopyStream ELSE DefaultStream,
   bw |-> [d \in Axis |-> BwWidth(jb, d)], fw |-> [d \in Axis |-> FwWidth(jb, d)],
   width |-> Width(jb), diagonal |-> Diagonal(jb),
   offset |-> [p \in Procs(jb) |-> [d \in Axis |-> PartOffset(jb.size[d], jb.procs[d], p[d])]],
   extent |-> [p \in Procs(jb) |-> [d \in Axis |-> PartSize(jb.size[d], jb.procs[d], p[d])]]]



-----------------------------------------------------------------------------
(* What a process does next, and with what.                                 *)

InRound(p)  == round[p] < job.rounds
Next1(p)    == job.body[at[p]]
Doing(p, o) == InRound(p) /\ at[p] <= Len(job.body) /\ Next1(p).op = o
G(p)        == round[p] % 2
My(p)       == grid[p][G(p)]

\* The first call from position i on that does anything in process p, or the end
\* of the body.
NextCall(p, i) ==
  Min({k \in i .. Len(job.body) + 1 :
         k = Len(job.body) + 1 \/ Does(job, p, job.body[k])})

\* The host goes on to the operation after this one.
Advance(p) == at' = [at EXCEPT ![p] = NextCall(p, @ + 1)] /\ UNCHANGED round

WidthOf(d, fw)   == IF fw THEN job.fw[d] ELSE job.bw[d]
Target(p, d, fw) == IF fw THEN BwPeer(p, d) ELSE FwPeer(p, d)
Source(p, d, fw) == IF fw THEN FwPeer(p, d) ELSE BwPeer(p, d)

Kernels(p) == {queue[p][i] : i \in DOMAIN queue[p]}

\* Faulty: the streams are not ordered with the default one.
OrderedNonBlocking(s, t) == s = t

\* Work of one of these streams waits for work that was put on the other
\* before: streams made by cudaStreamCreate are ordered with the default one.
Ordered(s, t) == s = t \/ s = DefaultStream \/ t = DefaultStream

\* A copy on the stream of the exchange, which the host waits for, can be made.
CopyDone(p) == \A k \in Kernels(p) : ~Ordered(k.stream, job.stream)

-----------------------------------------------------------------------------
(* The buffers.                                                             *)

Half(fw) == IF fw THEN "fw" ELSE "bw"
Point(p, l) == Plus(l, Offset(p))
Content(p, g, l) == <<Point(p, l), data[p][g][l]>>

\* What CopyoutHalo leaves in halo_self_mpi_.
SlabOf(p, d, fw) ==
  LET w    == WidthOf(d, fw)
      box  == Copyout(SlabOffset(Size(p), d, w, fw), SlabSize(Size(p), d, w))
      slab == [i \in DOMAIN box |-> Content(p, G(p), box[i])]
  IN  CopyoutHalo(slab, My(p).peer, Size(p), My(p).bw, My(p).fw, d, w, fw, job.diagonal)

Buffer(p, d, fw) == <<G(p), d, fw>>
Message(slab, buffer) == [slab |-> slab, buffer |-> buffer]
Spoilt(m) == [m EXCEPT !.slab = [i \in DOMAIN @ |-> Garbage]]

\* The messages of p whose memory is written to again before they are received.
Overwrite(n, p, b) ==
  IF Eager THEN n
  ELSE [n EXCEPT ![p] =
          [q \in Proc |-> [i \in DOMAIN n[p][q] |->
             IF n[p][q][i].buffer = b THEN Spoilt(n[p][q][i]) ELSE n[p][q][i]]]]

\* The descriptor that FixupBufferPointers makes for the kernels.
Descriptor(p, g) ==
  [size |-> Size(p), offset |-> Offset(p), diag |-> g.diag, bw |-> g.bw, fw |-> g.fw]

NoHalos == [bw |-> [d \in Axis |-> 0], fw |-> [d \in Axis |-> 0], diag |-> FALSE,
            peer |-> [d \in Axis |-> [bw |-> << >>, fw |-> << >>]],
            self |-> [d \in Axis |-> [bw |-> << >>, fw |-> << >>]],
            dev |-> << >>]

InDomain(x) == \A d \in Axis : job.lo[d] <= x[d] /\ x[d] < job.hi[d]

Init ==
  /\ job \in {Prepared(jb) : jb \in Jobs}
  /\ net = EmptyNet(Proc)
  /\ round = [p \in Proc |-> 0] /\ at = [p \in Proc |-> NextCall(p, 1)]
  /\ queue = [p \in Proc |-> << >>]
  /\ grid = [p \in Proc |-> [g \in 0 .. 1 |->
               [NoHalos EXCEPT !.dev = Descriptor(p, NoHalos)]]]
  /\ data = [p \in Proc |-> [g \in 0 .. 1 |-> [l \in Block(Origin, Size(p)) |->
               IF g = 1 /\ InDomain(Point(p, l)) THEN -1 ELSE 0]]]

-----------------------------------------------------------------------------
(* The host.                                                                *)

\* SendBoundaries: the slab is copied out and sent.
DoSend(p) ==
  LET d == Next1(p).d
      fw == Next1(p).fw
      b == Buffer(p, d, fw)
  IN  /\ Doing(p, "send") /\ Advance(p) /\ CopyDone(p)
      /\ grid' = [grid EXCEPT ![p][G(p)].diag = job.diagonal]
      /\ net' = Put(Overwrite(net, p, b), p, Target(p, d, fw),
                    Message(SlabOf(p, d, fw), b))
      /\ UNCHANGED <<job, queue, data>>

\* The first stage of an exchange in two: CopyoutHalo.
DoCopyOut(p) ==
  LET d == Next1(p).d
      fw == Next1(p).fw
  IN  /\ Doing(p, "copyout") /\ Advance(p) /\ CopyDone(p)
      /\ grid' = [grid EXCEPT ![p][G(p)].diag = job.diagonal,
                              ![p][G(p)].self[d][Half(fw)] = SlabOf(p, d, fw)]
      /\ net' = Overwrite(net, p, Buffer(p, d, fw))
      /\ UNCHANGED <<job, queue, data>>

\* The second: what has been copied out is sent.
DoIsend(p) ==
  LET d == Next1(p).d
      fw == Next1(p).fw
  IN  /\ Doing(p, "isend") /\ Advance(p)
      /\ net' = Put(net, p, Target(p, d, fw),
                    Message(My(p).self[d][Half(fw)], Buffer(p, d, fw)))
      /\ UNCHANGED <<job, queue, grid, data>>

\* The halo that has room for as many elements as the receiver has computed.
Received(p, d, fw, slab) ==
  [i \in 1 .. CalcHaloSize(Size(p), My(p).bw, My(p).fw, d, WidthOf(d, fw), job.diagonal) |->
     IF i \in DOMAIN slab THEN slab[i] ELSE Garbage]

\* RecvBoundaries: a message of the neighbour is received and copied to the
\* device.
DoRecv(p) ==
  LET d == Next1(p).d
      fw == Next1(p).fw
      q == Source(p, d, fw)
  IN  /\ Doing(p, "recv") /\ Advance(p) /\ Pending(net, q, p) /\ CopyDone(p)
      /\ grid' = [grid EXCEPT ![p][G(p)][Half(fw)][d] = WidthOf(d, fw),
                              ![p][G(p)].peer[d][Half(fw)] =
                                Received(p, d, fw, Oldest(net, q, p).slab)]
      /\ net' = Drop(net, q, p)
      /\ UNCHANGED <<job, queue, data>>

Fixup(p) == grid' = [grid EXCEPT ![p][G(p)].dev = Descriptor(p, My(p))]

\* Faulty: the sends are not waited for.
DoWaitNot(p) ==
  /\ Doing(p, "wait") /\ Advance(p) /\ Fixup(p)
  /\ UNCHANGED <<job, net, queue, data>>

\* The end of an exchange: MPI_Wait for the sends, which return when the message
\* has been copied or received, and FixupBufferPointers.
DoWait(p) ==
  LET d == Next1(p).d
  IN  /\ Doing(p, "wait") /\ Advance(p) /\ Fixup(p)
      /\ ~Eager => \A fw \in BOOLEAN : \A i \in DOMAIN net[p][Target(p, d, fw)] :
                     net[p][Target(p, d, fw)][i].buffer # Buffer(p, d, fw)
      /\ UNCHANGED <<job, net, queue, data>>

\* The domain that a kernel is passed, for process p.
KernelDomain(p, k) ==
  LET d == LocalDomain(Domain(job.lo, job.hi), Offset(p), Size(p))
  IN  CASE k.variant = "inner" -> DomainShrink(d, job.width)
        [] k.variant = "face"  -> DomainGetBoundary(d, k.face[1], k.face[2], job.width,
                                                    k.of, k.slice)
        [] OTHER -> d

\* A kernel is launched, with copies of the domain and of the descriptor.
DoLaunch(p) ==
  LET k == Next1(p)
  IN  /\ Doing(p, "launch") /\ Advance(p)
      /\ queue' = [queue EXCEPT ![p] = Append(@,
                     [variant |-> k.variant, stream |-> k.stream, face |-> k.face,
                      domain |-> KernelDomain(p, k), round |-> round[p],
                      dev |-> My(p).dev])]
      /\ UNCHANGED <<job, net, grid, data>>

\* cudaThreadSynchronize
DoSync(p) ==
  /\ Doing(p, "sync") /\ Advance(p) /\ queue[p] = << >>
  /\ UNCHANGED <<job, net, queue, grid, data>>

\* The end of the body; after the loop there is another cudaThreadSynchronize.
EndBody(p) ==
  /\ InRound(p) /\ at[p] > Len(job.body)
  /\ round[p] + 1 = job.rounds => queue[p] = << >>
  /\ round' = [round EXCEPT ![p] = @ + 1] /\ at' = [at EXCEPT ![p] = NextCall(p, 1)]
  /\ UNCHANGED <<job, net, queue, grid, data>>

Host(p) ==
  \/ DoSend(p) \/ DoCopyOut(p) \/ DoIsend(p) \/ DoRecv(p) \/ DoWait(p)
  \/ DoLaunch(p) \/ DoSync(p) \/ EndBody(p)

-----------------------------------------------------------------------------
(* The device.                                                              *)

\* The function that a kernel reads offset o with.  The kernel for the interior
\* has none that looks for a halo; that of a face has one where the access may
\* cross the face, or is along more than one dimension, or along another one,
\* or where its indices are not in regular order.
Addr(k, x, o) ==
  LET d == k.face[1]
      along == \A e \in Axis \ {d} : o[e] = 0
      crosses == IF k.face[2] THEN o[d] > 0 ELSE o[d] < 0
      y == Plus(x, o)
  IN  IF k.variant = "inner" \/ (k.variant = "face" /\ job.regular /\ along /\ ~crosses)
      THEN AddrNoHalo(k.dev, y)
      ELSE IF job.regular THEN AddrRegular(k.dev, y, o) ELSE AddrGeneric(k.dev, y)

\* What is found at an address when kernel k of process p runs.
Fetch(p, k, a) ==
  LET g == k.round % 2
  IN  IF a[1] = "grid"
      THEN IF a[2] \in DOMAIN data[p][g] THEN Content(p, g, a[2]) ELSE Garbage
      ELSE LET halo == grid[p][g].peer[a[2]][Half(a[3])]
           IN  IF a[4] + 1 \in DOMAIN halo THEN halo[a[4] + 1] ELSE Garbage

Wrapped(x)  == [d \in Axis |-> IF job.periodic THEN x[d] % job.size[d] ELSE x[d]]
InsideOf(x) == \A d \in Axis : 0 <= x[d] /\ x[d] < job.size[d]

\* What a point should hold after r maps.
Expected(x, r) == <<x, IF InDomain(x) THEN r ELSE 0>>

\* The kernel reads the points of the grid at the offsets of the stencil.
Computed(p, k, x) ==
  IF \A o \in job.stencil :
       LET y == Wrapped(Plus(x, o))
       IN  InsideOf(y) => Fetch(p, k, Addr(k, x, o)) = Expected(y, k.round)
  THEN k.round + 1 ELSE Garbage

Points(k) ==
  IF k.variant = "boundary" THEN RunBoundaryPoints(k.domain, job.width)
  ELSE RunKernelPoints(k.domain)

\* A kernel runs that waits for none of those launched before it.
RunKernel(p) ==
  \E i \in DOMAIN queue[p] :
    LET k == queue[p][i]
        written == {EmitAddr(k.dev, x) : x \in Points(k)}
        h == 1 - (k.round % 2)
    IN  /\ \A j \in 1 .. i - 1 : ~Ordered(queue[p][j].stream, k.stream)
        /\ queue' = [queue EXCEPT ![p] = RemoveAt(@, i)]
        /\ data' = [data EXCEPT ![p][h] = [l \in DOMAIN @ |->
                      IF InGrid(l) \in written THEN Computed(p, k, Point(p, l)) ELSE @[l]]]
        /\ UNCHANGED <<job, net, round, at, grid>>

Finished == \A p \in Proc : ~InRound(p)
Stopped  == Finished /\ UNCHANGED vars

Next == (\E p \in Proc : Host(p) \/ RunKernel(p)) \/ Stopped

Spec == Init /\ [][Next]_vars

\* As long as some host or some device can go on, one does.
Fairness == WF_vars(\E p \in Proc : Host(p) \/ RunKernel(p))

FairSpec == Spec /\ Fairness

-----------------------------------------------------------------------------
TypeOK ==
  /\ round \in [Proc -> 0 .. job.rounds]
  /\ \A p \in Proc : at[p] \in 1 .. Len(job.body) + 1
  /\ \A p \in Proc :
       /\ \A k \in Kernels(p) : k.round <= round[p] /\ k.stream \in 0 .. KernelStream(15)
       /\ \A g \in 0 .. 1 :
            /\ DOMAIN data[p][g] = Block(Origin, Size(p))
            /\ \A d \in Axis : grid[p][g].bw[d] \in 0 .. job.bw[d]
                              /\ grid[p][g].fw[d] \in 0 .. job.fw[d]

\* The maps of a run are executed "in the given order" (docs/programming.md:254):
\* every value that a kernel reads, in the grid or in a halo, is the one that
\* the map before has left at that point.
ReadsCurrent ==
  \A p \in Proc, g \in 0 .. 1 : \A l \in DOMAIN data[p][g] : data[p][g][l] # Garbage

\* Between them, the kernels of the maps compute every point of the domain: after
\* the run it holds the result of the last map.
AllComputed ==
  Finished => \A p \in Proc : \A l \in DOMAIN data[p][job.rounds % 2] :
    Content(p, job.rounds % 2, l) = Expected(Point(p, l), job.rounds)

\* No kernel computes a point that is not in the domain of the map and in the
\* part of its process: there is no memory for it.
KernelsInBounds ==
  \A p \in Proc : \A k \in Kernels(p) : \A x \in Points(k) :
    InDomain(x) /\ Minus(x, Offset(p)) \in DOMAIN data[p][0]

\* "Otherwise, the send buffers can be overwritten by the next iteration"
\* (grid_mpi_cuda.cc:700): no slab is, until it is received.
SendsIntact ==
  \A p, q \in Proc : \A i \in DOMAIN net[p][q] :
    Garbage \notin {net[p][q][i].slab[j] : j \in DOMAIN net[p][q][i].slab}

\* All maps are run, whatever the order in which the devices work.
RunEnds == <>Finished
=============================================================================
