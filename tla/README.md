# A TLA+ model of Physis

Physis compiles C programs with stencils over structured grids for clusters and
GPUs. A program creates grids, fills them, runs stencils on them and reads them.
The translator (`src/translator`) analyses the program and turns it into code
for one of four targets (reference, CUDA, MPI, MPI and CUDA), which the
optimizer rewrites and which calls that target's runtime (`src/runtime`). In
the MPI runtimes rank 0 runs the user's program as the *master*, the other
ranks are *clients* that execute what the master broadcasts, every rank holds a
part of every grid, and the ranks exchange what their neighbours need.

These modules model the message protocols of the MPI runtime, its decomposition
of the grid space and the promises of its API; the overlap of exchange and
computation on devices; the analyses and the optimization passes of the
translator; and the programs it generates for shared memory. TLC checks them on
small instances; TLAPS proves the invariants of four of them, and that the
remote calls implement one grid space, for every value of the constants.

## Inventory

| Component | State | Operations | Interaction | What makes it correct |
|---|---|---|---|---|
| Remote grid fetch, `GridSpaceMPI::LoadSubgrid` (`grid_mpi.cc`) | fetch map, number of open requests, DONE count, shared buffer, remote grid | send requests, serve requests, take replies, announce and count DONE | point to point, any source, one tag | nobody leaves with parts missing, replies meet their requests, data is of the right iteration, everybody leaves |
| Stencil loop (`mpi_translator.cc`, generated code) | iteration, buffers of each grid, reuse flags | load remote parts, run kernel, swap | calls LoadSubgrid and LoadNeighbor on every rank | every rank reads what the others had at the same iteration |
| Master and clients (`rpc_mpi.cc`) | request queue of each client, grid tables, id counters | the grid calls of the API and their handlers | broadcast, point to point, reduction | the ranks together behave as one grid space |
| Domain decomposition (`grid_mpi.cc`) | partitions and offsets of each dimension | `partition`, `PartitionGrid`, `CollectPerProcSubgridInfo`, neighbours, ranks | used by all of the above | one owner for every point; the owner that is asked is the one that holds |
| Halo exchange (`grid_mpi.cc`) | halo buffers and widths of each dimension | post receives, copy out and send, wait; dimension after dimension | point to point with the neighbours | every halo point, diagonals included, holds its owner's value of the same iteration |
| Grids, buffers, checkpoints (`grid.cc`, `buffer.cc`, `grid_util.cc`) | two buffers, a table of grids | swap, get, set, copy of subgrids, save and restore | called by all | copies are exact, swap does not lose what was emitted |
| Reductions (`reduce.h`, `grid_mpi.cc`) | local value | local reduction, `MPI_Reduce` | collective | each point counts once; empty parts contribute the identity |
| MPI and CUDA runtime (`grid_mpi_cuda.cc`, `mpi_cuda_runtime.cc`, `physis_mpi_cuda.h`) | grids on the device, halos on both sides, streams, queued kernels | copy faces, send, receive, wait; interior and boundary kernels | the host goes on while kernels run | a kernel reads current values only, interior and boundary cover the domain once, buffers outlive their sends |
| CUDA and reference runtimes (`cuda_runtime.cc`, `reference_runtime.cc`) | grids in one memory, kernels not yet run | the API | the CUDA host runs ahead of the device | the program does what it means |
| Translator: analyses (`translation_context.cc`, `stencil_analysis.cc`, `stencil_range.cc`) | grids and domains per variable, kernels and what they call, stencil ranges | sweeps over declarations, assignments, maps, calls; ranges of indices | decide what the generated code exchanges and doubles | the sets contain what happens at run time, ranges contain all accesses, the sweeps end |
| Translator: optimizer (`optimizer/`) | loops and expressions with their attributes | inlining, peeling, unconditional gets, register blocking, common offsets, loop optimization | each pass relies on what the passes before have left | every point gets the value that the translated code gives it |
| Translator: code generation (`*_translator.cc`) | none of its own | run functions, kernels, loops, exchanges | | the generated loops are those of the modules above |
| Driver, ROSE utilities, configuration, logging | none of their own | construction of syntax trees | | |

What is hard here: messages of different calls share one tag and one
communicator; receives take messages from any source; the number of the call is
never part of a message; the master runs ahead of its clients; sends are
started and never waited for; flags survive the call that set them; extents
that the number of processes does not divide, and parts that are empty; kernels
that run later than the host thinks, with a description of the grid that was
copied at their launch; passes whose cases no test meets.
`PROJECT.json` lists these hazards at their lines.

## Modules

`Mpi` is the part of MPI that the runtime relies on: one ordered channel for
each pair of ranks, nothing ordered between channels. It stands for code
outside of the repository.

`SubgridFetch` is one call of `LoadSubgrid`: `BeginLoad` sends the requests and
sets the counters, `AnnounceDone`, `RecvDone`, `HandleFetchRequest` and
`HandleFetchReply` are the branches of the loop, `EndLoad` is its exit. `ld[p]`
holds the locals of the call, `net` the messages. A header and the payload that
the code sends right behind it are one message. The constant `Eager` says
whether MPI copies a message when `MPI_Isend` returns; if not, the shared
buffer that the next call of `ensure_buffer_capacity` frees is what the
receiver gets. The body of a DONE is bookkeeping of the proofs; no step reads it.

`SubgridRounds` puts the calls into the loop that the translator generates
around a stencil map: `Load` starts a call, `Return` ends it, runs the kernel
and swaps the buffers, so that the content of a grid is the number of kernels
run on it.

`MasterClient` has the grid calls of the API on the master and their handlers
on the clients, one action for each stretch between two receives. It extends
`SubgridFetch`, whose steps are those of `PSGridGet`. `bcast[p]` are the
requests a client has not taken yet, `grids[p]` the parts a rank holds by id,
`remote` the grids whose `remote_grid_active` is set on the master. What a
kernel loads while it runs belongs to `SubgridRounds`: a run is one local step
of each rank here. `store` and `result` are history: what the program has
written, and what its last call returned.

`VirtualGrid` is the promise of `docs/programming.md` for the same calls: one
grid space, every call done when it returns. `OneSystem` says that
`MasterClient` implements it, with `store` and `result` mapped to themselves:
the answers of the calls, computed from parts, messages and flags, are the
ones `VirtualGrid` gives. Both take the operations on tables of grids from
`Tables`.

`Decomposition` has the loops of `partition()` and of
`CollectPerProcSubgridInfo` as steps over dimension and process index, and the
index arithmetic of ranks and neighbours as functions. The list of `FetchInfo`s
is the product of what is found in the single dimensions, and is kept as those.
It extends `Partition`, the same arithmetic in closed form, which `Halo` uses
too.

`Halo` is the exchange of halos in the loop of a stencil run with two maps, one
that reads grid 0 and writes grid 1 and one that does the reverse. A job is a
stencil program with its processes: extents, offsets that the kernel reads,
periodic or not. `Prepared` adds what creating the grid and `LoadNeighbor` make
of it. `Exchange` is `ExchangeBoundariesAsync` for one dimension: it posts the
receives, copies out and sends; `ArriveFw` and `ArriveBw` complete a receive,
and only then does the next dimension begin; `RunKernel` ends the round. A
buffer is a function on the box of its extents, so that a wrong width or a wrong
shift of an index reads another point or none. The content of a point is the
point itself with the number of maps run. `Slab` stands for the three routines
of `CopyoutHalo` at once: they put together, line by line, what `Lookup` finds
at the indices of the slab. With `Eager` false a message keeps reading the
buffer it was sent from; the field `buffer` of a message says which one that is,
and no receiver looks at it. `HaloAssumption` has what the code takes for
granted: no halo is wider than a part (the test in `LoadNeighbor`,
`grid_mpi.cc:996`, always holds), and no part of a periodic grid is empty (its
neighbours would wait for it for ever).

`CudaGrid` has what is particular to a grid of the MPI and CUDA runtime: the
address functions of the device code, which the translator chooses among by the
offset of a read; the slabs that `CopyoutHalo` puts together from the device
and from the halos of other dimensions; the domains of boundary kernels. A halo
is the sequence of its elements, so that two pieces of code that disagree on
the extents of a buffer find different points in it.

`CudaRun` is the generated loop around it. `job.body` is the sequence of calls
that the loop body makes, with or without overlap, streams for the faces and
staged loads; `at[p]` is where in it the host of p is, past the calls that do
nothing in p (`NextCall`); `DoSend`, `DoRecv`, `DoWait` and the others do one
of them; `RunKernel` is a kernel that the device gets to. `queue[p]` are
the kernels launched and not yet run, with the descriptors they were given;
`Ordered` is the rule of CUDA for work on two streams. `data` is the device
memory, with the round of the map that has written a point, or `Garbage`.

`StencilIndices` has the analysis of index expressions and ranges, and what an
exchange that is generated from a range makes available. `Analyses` is
`TranslationContext::build` over a program given by its declarations,
assignments, calls, gets and emits: one action for a visit of each kind, with
maps visited in any order, `Reject` for the programs that the translator
refuses, and then, with `RunAssignment` and `RunCall`, the program that runs:
`env` is what its variables hold, `ran` what a map reads and writes. What is
found out is compared with that.

`KernelCode` is the code that the translator generates for a map, as nested
sequences of statements with the attributes the optimizer looks at, and what
running it does. `LoopPasses`, `CodePasses` and `LoopOpt` are the passes, each
an operator from code to code; `Optimizer` applies those that are switched on
in the order of the target (`Apply`), and omits the others (`Skip`).

`StencilSemantics` says what a program means on shared memory
(`docs/programming.md`): its operations one after the other, a map at all
points of its domain at once. `StencilProgram` is the translated program: `Host`
has one action per call of the runtime and per step of `PSStencilRun`; `Device`
runs the queued maps, a kernel call at a time, in any order of the threads. In
reference code a map has one thread, and the host waits for it. `Implements` is
the refinement: the abstract grids are the present ones between two maps and
`before` while one runs.

Definitions marked "Faulty" or "Mutated form" are mistaken forms of what follows
them. The specifications do not use them; they document which mistakes the
properties tell apart.

## Runs

| Run | Question | Instance |
|---|---|---|
| `load_three` | is the DONE count safe, does the loop end, is the invariant inductive enough? | 3 processes, 2 iterations, regions of none, one or all of the owners |
| `calls_three` | does the program see one grid space; does everybody leave? | 3 ranks, 2 grids, 4 calls of any kind |
| `get_then_set` | can a message reach a client in the wrong method? Violated | 3 ranks, `PSGridSet` after `PSGridGet` |
| `decompose` | do partition and lookup agree? | 2 dimensions, extents 0 to 4, 1 to 3 processes each |
| `halo` | is every point that a kernel reads current, though no send is waited for, and does the exchange end? | 6 programs in 3 dimensions, 3 rounds, messages not copied |
| `halo_corner` | the same for a stencil that reaches forward in one dimension and backward in another. Violated | 2 x 2 processes, 1 round |
| `cuda_overlap` | do kernels that overlap the exchange read current values, and is every point computed? | 12 programs on 1 to 4 devices, 1 to 4 rounds, messages not copied |
| `optimize` | does every combination of passes preserve the result? | 5 kernels, 15 domains of a 4 x 3 grid, both targets |
| `optimize_swapped` | the same for branches that share a term at different places. Violated | 1 kernel |
| `analyse` | do the analyses find what happens, and does the exchange cover the reads? | 39 programs, every order of visits and of statements |
| `inner_kernel` | the same for a neighbour read in a called function. Violated | 1 program |
| `stencil_program` | does the translated program do what it means? | 3 programs on 3 x 3 x 2 grids, 2 x 2 blocks, both targets |

Two processes are the smallest instance with a message; three are the smallest
in which a DONE of one process overtakes another process's request, and in
which a client can wait for a client. Two iterations are enough for calls of
different iterations to meet, because the count never lets them drift further
apart (`OneCallAhead`, proved). Two grids are enough to confuse one with the
other. Extents from 0 to 4 on up to 3 processes have every case of the
division: no remainder, remainders of one and two, fewer points than
processes, none at all. Two dimensions are enough for the outer loops to be
taken; the proofs are for any number. The programs of `halo` are chosen by what
goes wrong in an exchange: corners that travel over two and three hops, two
processes in a dimension that are each other's forward and backward peer, a
process that is its own peer, widths that differ in the two directions, parts
of different size, and a process without a part. Three rounds use the buffers
of one of the two grids for a second time, which is when a send that has not
been waited for could still be reading them. The programs of `cuda_overlap` are
chosen in the same way, and by the shape of the domain: parts as thin as the
boundary, an interior that is empty, a part without points of the domain, a
sender that runs four rounds ahead. Two streams for the faces are enough to have
faces on different streams and on the same one.

The kernels of `optimize` are two-dimensional versions of those of the system
tests, with guarded, unguarded and periodic gets, conditional expressions, holes
in a stencil and two grids; the domains begin and end on, before and behind the
iterations that are peeled off. The programs of `analyse` combine aliases that
form a cycle, calls that pass grids on, kernels that emit in a called function,
and grids with fewer dimensions than the map or as many. Their indices are
constants, index parameters, negations, sums and differences of these, and the
forms that are refused: two parameters in a sum, a local variable by itself or
negated, a sum that is relative to no parameter. The one form left out is a sum
of a parameter and an operand that is not accepted, such as a local variable:
the translator drops that operand (`MCOperand`, see below). A scalar
parameter as the whole index, which the translator counts as a further
dimension, is not modelled either. Two points are enough, since they differ in
all coordinates. Blocks of 2 x 2 threads do not divide grids of 3 x 3.

The four violations are disagreements between the code and its documentation,
comments or tests; `PROJECT.json` quotes both under "findings". The passing runs
leave out what they show. In the same way some other properties are kept in the
modules for faults that the passing runs assume away; the instances show them
when the constants are changed as follows:

- `FetchedIsCurrent` (`SubgridRounds`): fetched data is of the same iteration.
  Violated with three processes, as a request carries no call number and the
  barrier before it is commented out (`grid_mpi.cc:878`); true with two.
- `RepliesIntact` (`SubgridRounds`): violated with `Eager` FALSE, because
  `ensure_buffer_capacity` frees a buffer that `MPI_Isend` may still read.
- `GetReturnsStored` (`MasterClient`): violated with `AvoidRemote` FALSE, since
  a remote `PSGridGet` leaves the remote grid active for the next call; and with
  `AwaitClients` FALSE and the calls `ReadCalls` on two grids. There a client
  still in the `LoadSubgrid` of one `PSGridGet` takes the fetch request of the
  next one, which names no grid (`grid_mpi.cc:795`), and serves it from the grid
  of its own call.
- `GridFits` (`Decomposition`): violated with `WithinSpace` FALSE; the check of a
  grid's size (`mpi_runtime.cc:300`) compares arrays lexicographically.
- `SendsIntact`, `HaloCurrent` and `NothingLeft` (`Halo`): violated with the
  program of `OneWayJobs`, the first two with `Eager` FALSE only. A process whose
  stencil reaches only forward sends to the neighbour before it and hears
  nothing of it. It runs rounds ahead, and two rounds later writes to the buffer
  that an `MPI_Isend` nobody waits for may still be reading (`grid_mpi.cc:627`).
- `BuffersDoubled` (`Analyses`): no two kernels of the programs of `analyse`
  share a function. Where two do, `registerInnerKernel`
  (`translation_context.cc:719`) makes it an inner kernel of the first only, and
  a grid that the second one reads, and modifies in it, is not marked. No kernel
  of a map is called by another kernel either: the code keeps two `Kernel`
  objects for such a function, `registerKernel` of the model one.
- `ReadsLoaded` (`Analyses`): violated with the program of `MCOperand`, whose
  kernel reads at `x + n` with a local variable n. `docs/programming.md:160-163`
  says that an index must be an index parameter and an immediate value, and
  lines 192-193 that other code is not accepted. `AnalyzeStencilIndex`
  (`stencil_analysis.cc:94`) does not look at whether the operands of a sum were
  accepted, takes n for the constant 0 and the index for `x`, and no exchange is
  generated for points that other processes hold. `BoundaryWide` fails with it
  too.

`get_then_set`, `FetchedIsCurrent` and the answer from a wrong grid have one
cause: a call of `LoadSubgrid` ends by counting, and its messages do not say
which call they belong to. The passing run of `MasterClient` therefore assumes
a program that avoids the two known faults: with `AwaitClients` it makes a call
that waits for all clients (`PSGridCopyin`, `PSGridCopyout`, `PSReduce`) before
the next call that sends point to point, and with `AvoidRemote` it leaves the
master's part of a grid alone after it has read a remote point of that grid.

Fairness: each rank runs one thread that keeps going until it leaves, so the
steps of each rank are weakly fair, and MPI delivers what is sent. Which
message a receive from any source takes is not fair: weak fairness of the whole
step of a rank lets TLC choose. A rank with a blocking send that has not been
received (`MayBlock`) may go on, but nothing promises that it does: MPI may
make it wait. `LoopEnds` and `AllExit` are checked under this. In `Halo` and
`CudaRun` it is enough that some process or device goes on as long as one can:
a run is finite. In `StencilProgram` host and device are weakly fair, each for
itself: a thread that can run runs, and a device works off its queue. In
`Analyses` the translator goes on while it can (`Finishes`); nothing is assumed
about the program that is run.

The runs of `Optimizer`, `Analyses` and `StencilProgram` do not check for
deadlock, since a translator that is done and a program that has ended stop;
`Finishes` and `Returns` say that the last two do not stop before. In all other
runs deadlock is checked.

## Proofs

`SubgridRounds_proofs` proves, for any number of processes and iterations and
any regions, that `IInv` is inductive, and from it `ReplyExpected`,
`LeavesComplete`, `OneCallAhead` and `StaleByOneAtMost`. The argument: the
history variable `heard` records which DONE of which call a process has
counted. `DoneCount` says that the counts of all calls of p add up to the size
of `heard[p]`; since p hears each DONE of the others once (`DoneFrom`) and
nobody has announced more than one DONE beyond the calls it has completed, p
can have counted NProcs - 1 of them for each of its r calls only if everybody
has announced r times (`CountedAll`). So nobody completes its r-th call before
everybody has announced its r-th DONE (`AllAnnounced`), and everybody announces
only with nothing outstanding (`RequestInv`). Data is then at most one
iteration old (`AgeInv`). The count alone would not be inductive: without
`heard` nothing ties a DONE to a call.

`MasterClient_proofs` proves, for any number of ranks, grids, points and calls,
what the run `calls_three` checks of the remote calls, `NoUnknownRequest`,
`ReceivesMatch`, `GridsFound`, `PartsAgree`, `NothingLost` and the refinement
`OneSystem`, and `GetReturnsStored`. All follow from one inductive invariant, `Inv`,
whose parts are in two modules, the second of which extends the first:

- `Typed` and `Control` (`MasterControl_proofs`): what the variables hold, and
  which queued requests, answers and methods go together. Only the last request
  a client has not taken can be one the master waits for (`Ordered`), and a
  client answers when the master listens for it (`Answers`).
- `Fetching` (`MasterControl_proofs`): the messages of `LoadSubgrid`. A rank is
  `Before`, in (`During`) or behind the last `PSGridGet`; a DONE of q is in
  flight to p from when q has announced until p has counted it (`DoneFrom`), so
  that a count of all processes means that all have announced (`HeardCount`),
  and nobody is asked after that.
- `Contents` (`MasterClient_proofs`): how far a client is behind does not
  show in any one variable. `Replays(p, k)` says that k is a chain of tables
  that begins with what p holds, in which each queued request turns one table
  into the next (`Executes`), with the data and points in flight from the
  master, and that ends with p's part of `store`. A call of the master extends
  the chain at its end, a step of p removes its beginning. The type of a
  message in flight and of its body are part of this, since messages of all
  calls share one tag.
- `Values` (`MasterClient_proofs`): what the master has collected of the answer
  it is about to return, and what is in flight towards it, are values of
  `store`.

None of them is inductive alone: the request that `Contents` takes from the
queue is the one that `Control` allows, `Control` needs `Fetching` to know that
a master that has left `LoadSubgrid` cannot be sent a reply any more, and
`Values` needs all of them. `UserRefined` and `OthersRefined` then show that a
call of the program is a step of `VirtualGrid` when it returns a value or
changes `store`, and that everything else stutters.

These theorems assume `AwaitClients` and `AvoidRemote`, the discipline of the
program described above; `get_then_set` shows that the first one is needed, and
`GetReturnsStored` fails without either. What an address outside of a part
holds (`Garbage`) is taken to differ from all data that a program writes.

`Decomposition_proofs` proves for every number of dimensions, every extent and
every number of processes that `partition()` gives each point exactly one owner
(`EveryPointOwned`, `OwnersDistinct`) and that parts differ by one point at
most (`Balanced`). The invariant `PartInv` has
the closed form of the tables: partition k begins at k (s div n) plus the
number of longer partitions before it; that these sums telescope to s is
`LastOffset`. For programs whose grids fit the space, `CollectInv` says that
the search of `CollectPerProcSubgridInfo` has covered all up to its position
and is never behind the partition it looks at, which gives `SlicesCover`,
`SlicesExact` and `PeersHoldSlices`; `DecompositionInv` is both with the types.
The assumption `WithinSpace` is what the
code does not guarantee (`GridFits` above). `NeighborsMatch` is
about `Stride` and `GetProcessRank`, which are recursive functions over the
dimensions: their equations, and what they compute, are proved by induction over
the set of dimensions for which they hold (`Induction`). A rank is the number
that its process indices write in mixed radix (`Radix`), so that the indices of a
rank name it, and the forward neighbor's backward neighbor is the rank itself.

`StencilProgram_proofs` proves, for every program, set of grids and block size,
that no kernel refers to a grid without memory, however far the host of a CUDA
program is ahead of the device (`FreedUnused`). That is not inductive: it says
nothing of the maps the host is still to launch. The invariant `HostAhead` ties
the device to the host: outside of `PSStencilRun` the queue is empty, inside it
all its maps are maps of the present statement, and what has no memory is what
the statements before have freed or not created (`Absent`). The run ends by
waiting for the device, so the queue is empty again when the next statement
frees something. The assumption `ProgramsAssumption` is about the user's
program: it has created the grids of a run, and not freed them since.

`Halo_proofs` proves `NothingLeft`, `SendsIntact` and `HaloCurrent` for any
number of dimensions, processes, rounds and offsets, corners, periodic grids and
processes without points included, and whether MPI copies messages or not. None
of the three is inductive, since they do not say which messages there are. The
invariant `Inv` does, by a key for each message: its round, dimension and side.
`Channel` says that what is in flight from q to p is, in the order of the keys,
what q has sent and p has not received (`Way`), so that the oldest message is
the one that the posted receive is for, also where both peers are the same
process and one tag has to do for both halos. `MessageOf` gives the content of
each: `SlabIsHalo` shows, from the partition alone (`PartsMeet`, `Neighbours`),
that the slab the sender cuts out is the halo that the receiver is to hold,
point by point. `Filled` has the halos of the dimensions already exchanged, and
with those `Found` shows that `Lookup` returns the right point at every index
within reach, corners included, which serves the kernel's reads (`ReadIs`) and
the next slabs (`SlabIs`) alike. That a buffer is free when it is used again is
`Drift`: whoever sends to a neighbour also receives from it, so what it has
received in the round between is word that the neighbour has taken the slab
sent two rounds ago.

These theorems assume `TwoWay`, a stencil that reaches in both directions of a
dimension or in none; `OneWayJobs` and `halo_corner` show what happens without.
The two widths may differ. They assume `WithinSpace` as above, and for
`HaloCurrent` that the space has `PS_MAX_DIM` dimensions, because
`__PSGridGetAddr` finds no point of a smaller one.

`CudaGrid_proofs` proves, for parts and halos of any extents, that the pieces of
the MPI and CUDA runtime that number the points of a buffer agree. `SlabIs` says
that the slab that `CopyoutHalo` pastes together from the device and the halos of
later dimensions is `Fill` of the box that the neighbour takes it for, element by
element; `GenericLocated` and `RegularLocated` that the general and the
specialised address functions of the device find a point in the same place
(`Located`); `HaloElement` that this place in a halo so filled holds that point.
`LocalDomainIs`, `BoundaryPoints`, `InnerPoints` and `FaceCovered` are about the
domains of the kernels: the interior and the boundary, or the interior and the
slices of the faces, cover a part and leave it nowhere.

`CudaRun_proofs` proves `ReadsCurrent`, `AllComputed`, `KernelsInBounds` and
`SendsIntact` for any number of devices, of streams for the faces and of maps,
with and without overlap, whether MPI copies messages or not. None of them is
inductive. The invariant `RunOK` says for each process, with its round and its
place in the loop body, and for each pair of processes what the rest of the state
must be; its parts need each other:

- `HostOK`: which halos and which descriptor the grid of the round has at this
  place of the body (`Loaded`). Needed for what is sent, and for the descriptor
  that a kernel is launched with.
- `QueueOK`: the queue has kernels of the body only (`Launched`), in order of
  their rounds (`InOrder`), and all that were launched after the round of its
  oldest (`AllThere`). Behind each kernel of an earlier round is one on the default
  stream (`Blocked`); with streams for the faces there is none, since the host has
  waited at the end of the body (`Drained`). By `Ordered` no kernel then runs while
  one of an earlier round is queued, and a copy of the exchange, which waits for
  the default stream, is made when no kernel of an earlier round is left.
- `KernelsOK`: what a queued kernel will find in the halos when it runs. The
  kernel for the interior reads none; the others have the halos of their round,
  because the next exchange that copies into these buffers waits for them.
- `DataOK`: the grid that is read holds the round throughout (`Holds`), and in
  the one that is written each point of a kernel that has run holds the next one
  (`Written`). When no kernel of the round is left every point of the domain has
  been written, because the kernels of a body cover the domain.
- `NetOK`: a channel has the slabs sent and not received in the order of the
  exchange (`Chan`, `Way`), each with the points the receiver wants
  (`MessageOf`). `Causal` has that nothing is taken that was not sent. `Pressed`,
  for messages that MPI does not copy, that the sender is still in the exchange
  that it sent them in, so that no buffer is used again before.

`RunOK` is what `InitOK` and `NextOK` show to hold initially and to be kept, with
one lemma per action (`SendKeeps`, `RecvKeeps`, `WaitKeeps`, `LaunchKeeps`,
`SyncKeeps`, `EndKeeps`, `RunKeeps`). The actions of the staged loads are not
taken.

These theorems assume four conditions on the programs, `Conditions`. Each of them
is needed: TLC finds a violation without it, on the programs given here.

- `WidthsFit`: no halo is wider than a part (`grid_mpi.cc:996`). On two parts of
  one point each, a stencil of width 2 asks for a slab that the part does not
  have.
- `TwoWay`, for stencils with points off the axes only: with the stencil {0,
  (1, -1, 0)} on 2 x 2 processes the corner process sends nothing and looks for
  no diagonal points (`ReadsCurrent`).
- `OneStage`: loads in two stages copy the slabs of the first two dimensions out
  before the halos of the third have come, so that the corners are lost
  (`ReadsCurrent`, stencils with corners on 2 x 2 processes). The translator does
  not generate calls of `__PSLoadNeighborStage1` and `Stage2`.
- `DomainsWide`: where the boundary has kernels of its own, a process has no
  point of the domain, or the domain is as wide as the boundary in each
  dimension, and twice as wide if the faces have streams. The width is the
  greatest of all dimensions. The kernel for the boundary of a part of two points
  and a width of three computes points outside (`KernelsInBounds`). A face of a
  part of one point is its own opposite face: its kernel reads the neighbour's
  point without a look for the halo (`ReadsCurrent`).

All programs of `cuda_overlap` fulfil them, except the one in two stages, whose
stencil has no corners.

The assumptions on the constants are those stated in the modules, and TLC
evaluates them in the runs. tlapm's translation for its SMT solver takes
`DOMAIN s = 1 .. n` to be the same as `Len(s) = n` for any value s, which is true
of sequences only; no proof here depends on that, all have been checked with
the solver allowed to conclude in one direction only.

Only model-checked: liveness (`LoopEnds`, `AllExit`, `RoundsEnd`, `RunEnds`,
`Finishes`, `Returns`) and everything that speaks of ENABLED, which the provers
do not handle; the passes of the optimizer and the analyses, which are recursive
over expressions and calls; the refinement `Implements`, because it folds over
the points of a domain; and `CudaRun` with loads in two stages.

## Not modelled, and the plan

What would come next:

1. The loop with several maps around `LoadSubgrid`, the reuse of remote grids,
   and `DeactivateRemoteGrids`.
2. The remote calls on grids in device memory (`rpc_mpi_cuda.cc`), which follow
   `MasterClient` with a staging buffer in between.
3. Reductions of floating point types: the default values of `reduce.h`.

Outside of the models, and why:

- Programs with fewer dimensions than `PS_MAX_DIM` on MPI: `__PSGridGetAddr`
  leaves the grid, so that what is read is arbitrary memory. Kernels of fewer
  than three dimensions on CUDA: the translator reports an error and generates
  an empty body (`cuda_translator.cc:461`).
- Halos wider than a part: the test in `LoadNeighbor` always holds, and what is
  sent is memory outside of the grid.
- What a kernel reads at a general range, that is, at index expressions that
  are not a parameter and a constant: the generated program stops at run time,
  and `ReadsLoaded` claims nothing.
- The second buffer of a grid: `AUTO_DOUBLE_BUFFERING` is off
  (`CMakeLists.txt:68`). Maps that read the grid they emit to are therefore
  looked at only where they read it at their own point.
- Checkpoints (`Grid::Save`, `Restore`): nothing calls them.
- Transfers and kernels that fail: the code checks for errors only to abort.
- Rounding: values are integers, and the passes of the optimizer that reorder
  sums are judged by them.
- Construction of syntax trees, the driver, configuration, logging and timing,
  which keep no state of their own; the build and the vendored test framework.
