----------------------------- MODULE MasterClient ---------------------------
(***************************************************************************)
(* The remote calls of the MPI runtime (runtime/rpc_mpi.cc).  Rank 0 runs    *)
(* the user's program and is the master; the others are clients, which sit   *)
(* in Client::Listen and wait for broadcast requests.  Every rank holds its  *)
(* part of every grid and finds grids by ids that it counts for itself.      *)
(*                                                                         *)
(* A grid call of the user's program is one call of a Master method: it      *)
(* broadcasts a request and, for some calls, talks to the clients point to   *)
(* point.  The master does not wait for the clients unless the call needs    *)
(* their answer, so clients can be several requests behind.  All             *)
(* point-to-point messages share one tag and one communicator.               *)
(*                                                                         *)
(* PSGridGet is a call of LoadSubgrid on every rank (SubgridFetch), in which *)
(* only the master asks for something.  What a stencil loads while it runs   *)
(* is SubgridRounds' subject: a run is one local step of every rank here.    *)
(* "Faulty" marks mistaken forms of the definitions they precede, as in     *)
(* SubgridFetch.                                                           *)
(***************************************************************************)
EXTENDS SubgridFetch, Tables

CONSTANTS
  MaxGrids,      \* bound: grids created
  MaxCalls,      \* bound: calls of the user's program, PSFinalize aside
  Point,         \* the points of the grid space
  Shape,         \* the sets of points a grid can consist of
  Owner,         \* Point -> Proc: the rank whose part a point lies in
  Zero, Kernel,  \* as in VirtualGrid
  Calls,         \* the calls the user's program makes
  AwaitClients,  \* does the program let the clients settle after PSGridGet?
  AvoidRemote    \* does it leave the master's part of a grid alone after it
                 \* has read a remote point of that grid?

ASSUME MasterClientAssumption ==
  /\ MaxGrids \in Nat /\ MaxCalls \in Nat
  /\ Shape \subseteq SUBSET Point
  /\ Owner \in [Point -> Proc]
  /\ Zero \in Data /\ Kernel \in [Data -> Data] /\ Garbage \notin Data
  /\ Info = Point /\ Tag = {0}
  /\ {AwaitClients, AvoidRemote} \subseteq BOOLEAN

GridId == 0 .. MaxGrids - 1
Client == Proc \ {0}

VARIABLES
  bcast,    \* bcast[p]: the broadcasts of the master that p has not taken yet
  partials, \* partials[p]: what p has contributed to reductions not done yet
  pc,       \* pc[p]: the method p is executing
  cur,      \* cur[p]: the id of the grid that method is about
  call,     \* locals of the master's call: the point, the buffer, the rank i
  grids,    \* grids[p]: id -> the content of p's part, of the grids p knows
  counter,  \* counter[p]: grid_counter_, the id of the next grid on p
  remote,   \* the grids whose remote_grid_active is set on the master
  store,    \* history: what the program has written, as in VirtualGrid
  result,   \* what the last call that returned a value returned
  calls,    \* the number of calls made
  settled   \* every client has answered since the last PSGridGet

rpcVars  == <<bcast, partials, pc, cur, call, grids, counter>>
userVars == <<store, result, calls, settled>>
vars     == <<net, ld, rpcVars, remote, userVars>>

Answer(k, x) == [call |-> k, value |-> x]

\* PartitionGrid: the part of a grid of shape s that p holds.
Part(s, p)      == {x \in s : Owner[x] = p}
Restricted(f, p) == [x \in Part(DOMAIN f, p) |-> f[x]]

NoCall == [point |-> Nothing, buf |-> << >>, next |-> 1]

\* The messages of the calls; consecutive ones of one sender to one receiver
\* that the receiver takes in one go are one message.
PartMsg(s)        == [kind |-> "PART", body |-> s]
DataMsg(f)        == [kind |-> "DATA", body |-> f]
SetMsg(id, x, v)  == [kind |-> "SET", body |-> [id |-> id, point |-> x, value |-> v]]
FetchKinds        == {"FETCH_REQUEST", "FETCH_REPLY", "DONE"}

Init ==
  /\ FetchInit
  /\ bcast = [p \in Proc |-> << >>] /\ partials = [p \in Proc |-> << >>]
  /\ pc = [p \in Proc |-> IF p = 0 THEN "user" ELSE "Listen"]
  /\ cur = [p \in Proc |-> 0] /\ call = NoCall
  /\ grids = [p \in Proc |-> << >>] /\ counter = [p \in Proc |-> 0]
  /\ remote = {}
  /\ store = << >> /\ result = Answer("PSInit", {})
  /\ calls = 0 /\ settled = TRUE

-----------------------------------------------------------------------------
(* The grid space of one rank.                                             *)

\* CreateGrid and RegisterGrid on p; the buffers come from calloc.
CreateGrid(gr, p, s) ==
  [gr EXCEPT ![p] = With(@, counter[p], [x \in Part(s, p) |-> Zero])]

\* DeleteGrid and DeregisterGrid on p.
DeleteGrid(gr, p, id) ==
  [gr EXCEPT ![p] = Without(@, id)]

Knows(p, id) == id \in DOMAIN grids[p]

\* The kernel on p's part of a grid.  The master reads grid points through the
\* remote grid if that is active, and they are not in it.
RunKernel(gr, p, id) ==
  [gr EXCEPT ![p][id] =
     [x \in DOMAIN @ |-> IF (p = 0 /\ id \in remote) \/ @[x] = Garbage
                         THEN Garbage ELSE Kernel[@[x]]]]

\* What CopyoutSubgrid finds at point x when p serves it from grid id.
ContentAt(p, id, x) ==
  IF x \in DOMAIN grids[p][id] THEN grids[p][id][x] ELSE Garbage

-----------------------------------------------------------------------------
(* The master.                                                             *)

\* NotifyCall, with what is broadcast right after it.
Notify(m) == bcast' = [p \in Proc |-> IF p = 0 THEN << >> ELSE Append(bcast[p], m)]
Req(kind, opt) == [kind |-> kind, opt |-> opt]

\* The user's program calls a method of the master.
UserCalls(k) ==
  /\ pc[0] = "user"
  /\ k \in Calls /\ calls < MaxCalls
  /\ calls' = calls + 1

\* The discipline of the user's program, if it has one.
MayTalk        == AwaitClients => settled
MayTouch(id)   == AvoidRemote => id \notin remote

MasterNew(s) ==
  /\ UserCalls("New") /\ counter[0] < MaxGrids
  /\ Notify(Req("FUNC_NEW", s))
  /\ grids' = CreateGrid(grids, 0, s)
  /\ counter' = [counter EXCEPT ![0] = @ + 1]
  /\ store' = With(store, counter[0], [x \in s |-> Zero])
  /\ result' = Answer("PSGridNew", counter[0])
  /\ UNCHANGED <<net, ld, partials, pc, cur, call, remote, settled>>

MasterDelete(id) ==
  /\ UserCalls("Free")
  /\ Notify(Req("FUNC_DELETE", id))
  /\ grids' = DeleteGrid(grids, 0, id)
  /\ remote' = remote \ {id}
  /\ store' = Without(store, id)
  /\ UNCHANGED <<net, ld, partials, pc, cur, call, counter, result, settled>>

\* GridCopyin: the master's own part first, then the clients one by one.
MasterCopyin(id, buf) ==
  /\ UserCalls("Copyin")
  /\ grids' = [grids EXCEPT ![0][id] = Restricted(buf, 0)]
  /\ Notify(Req("FUNC_COPYIN", id))
  /\ pc' = [pc EXCEPT ![0] = "GridCopyin"]
  /\ call' = [NoCall EXCEPT !.buf = buf]
  /\ store' = [store EXCEPT ![id] = buf]
  /\ UNCHANGED <<net, ld, partials, cur, counter, remote, result, settled>>

\* Faulty: the data is sent even if there is none to send.
CopyinNextAlways(i) ==
  /\ pc[0] = "GridCopyin"
  /\ i = call.next /\ Pending(net, i, 0) /\ Oldest(net, i, 0).kind = "PART"
  /\ LET part == Oldest(net, i, 0).body
     IN  net' = Put(Drop(net, i, 0), 0, i, DataMsg([x \in part |-> call.buf[x]]))
  /\ call' = [call EXCEPT !.next = @ + 1]
  /\ UNCHANGED <<ld, bcast, partials, pc, cur, grids, counter, remote, userVars>>

\* A client whose part is empty gets no data.
MasterCopyinNext(i) ==
  /\ pc[0] = "GridCopyin"
  /\ i = call.next /\ Pending(net, i, 0) /\ Oldest(net, i, 0).kind = "PART"
  /\ LET part == Oldest(net, i, 0).body
     IN  net' = IF part = {} THEN Drop(net, i, 0)
                ELSE Put(Drop(net, i, 0), 0, i, DataMsg([x \in part |-> call.buf[x]]))
  /\ call' = [call EXCEPT !.next = @ + 1]
  /\ UNCHANGED <<ld, bcast, partials, pc, cur, grids, counter, remote, userVars>>

MasterCopyinReturn ==
  /\ pc[0] = "GridCopyin"
  /\ call.next = NProcs
  /\ pc' = [pc EXCEPT ![0] = "user"]
  /\ call' = NoCall /\ settled' = TRUE
  /\ UNCHANGED <<net, ld, bcast, partials, cur, grids, counter, remote,
                 store, result, calls>>

MasterCopyout(id) ==
  /\ UserCalls("Copyout")
  /\ Notify(Req("FUNC_COPYOUT", id))
  /\ pc' = [pc EXCEPT ![0] = "GridCopyout"]
  /\ call' = [NoCall EXCEPT !.buf = grids[0][id]]
  /\ UNCHANGED <<net, ld, partials, cur, grids, counter, remote, store, result,
                 settled>>

MasterCopyoutNext(i) ==
  /\ pc[0] = "GridCopyout"
  /\ i = call.next /\ Pending(net, i, 0) /\ Oldest(net, i, 0).kind = "DATA"
  /\ net' = Drop(net, i, 0)
  /\ call' = [call EXCEPT !.next = @ + 1, !.buf = Merged(Oldest(net, i, 0).body, @)]
  /\ UNCHANGED <<ld, bcast, partials, pc, cur, grids, counter, remote, userVars>>

\* Faulty: the loop over the clients stops one short.
CopyoutReturnEarly ==
  /\ pc[0] = "GridCopyout"
  /\ call.next = NProcs - 1
  /\ pc' = [pc EXCEPT ![0] = "user"]
  /\ result' = Answer("PSGridCopyout", call.buf)
  /\ call' = NoCall /\ settled' = TRUE
  /\ UNCHANGED <<net, ld, bcast, partials, cur, grids, counter, remote, store,
                 calls>>

MasterCopyoutReturn ==
  /\ pc[0] = "GridCopyout"
  /\ call.next = NProcs
  /\ pc' = [pc EXCEPT ![0] = "user"]
  /\ result' = Answer("PSGridCopyout", call.buf)
  /\ call' = NoCall /\ settled' = TRUE
  /\ UNCHANGED <<net, ld, bcast, partials, cur, grids, counter, remote, store,
                 calls>>

\* Faulty: only the owner is told, by the point-to-point message.
SetUnannounced(id, x, v) ==
  /\ UserCalls("Set") /\ MayTalk
  /\ Owner[x] # 0
  /\ net' = Put(net, 0, Owner[x], SetMsg(id, x, v))
  /\ store' = [store EXCEPT ![id][x] = v]
  /\ UNCHANGED <<ld, bcast, partials, pc, cur, call, grids, counter, remote,
                 result, settled>>

\* GridSet of a remote point: only its owner takes the request seriously.
MasterSetRemote(id, x, v) ==
  /\ UserCalls("Set") /\ MayTalk
  /\ Owner[x] # 0
  /\ Notify(Req("FUNC_SET", Owner[x]))
  /\ net' = Put(net, 0, Owner[x], SetMsg(id, x, v))
  /\ store' = [store EXCEPT ![id][x] = v]
  /\ UNCHANGED <<ld, partials, pc, cur, call, grids, counter, remote, result,
                 settled>>

\* GridSet of an own point: the clients do not hear of it.  GetAddress uses
\* the remote grid if that is active, and x is outside of it.
MasterSetLocal(id, x, v) ==
  /\ UserCalls("Set") /\ MayTouch(id)
  /\ Owner[x] = 0
  /\ grids' = IF id \in remote THEN grids ELSE [grids EXCEPT ![0][id][x] = v]
  /\ store' = [store EXCEPT ![id][x] = v]
  /\ UNCHANGED <<net, ld, bcast, partials, pc, cur, call, counter, remote,
                 result, settled>>

\* GridGet: LoadSubgrid for the one point.  A remote point arrives in the
\* remote grid, which is active from here on.
MasterGet(id, x) ==
  /\ UserCalls("Get") /\ MayTalk
  /\ Owner[x] = 0 => MayTouch(id)
  /\ Notify(Req("FUNC_GET", id))
  /\ BeginLoad(0, [q \in Proc |-> IF q = Owner[x] THEN x ELSE Nothing])
  /\ remote' = IF Owner[x] = 0 THEN remote ELSE remote \cup {id}
  /\ pc' = [pc EXCEPT ![0] = "GridGet"]
  /\ cur' = [cur EXCEPT ![0] = id]
  /\ call' = [NoCall EXCEPT !.point = x]
  /\ UNCHANGED <<partials, grids, counter, store, result, settled>>

\* Grid::Get: GetAddress uses the remote grid if that is active.
GetValue(id, x) ==
  IF id \notin remote THEN grids[0][id][x]
  ELSE IF Owner[x] = 0 THEN Garbage ELSE ld[0].sg[Owner[x]]

MasterGetReturn ==
  /\ pc[0] = "GridGet" /\ EndLoad(0)
  /\ result' = Answer("PSGridGet", GetValue(cur[0], call.point))
  /\ pc' = [pc EXCEPT ![0] = "user"]
  /\ call' = NoCall /\ settled' = FALSE
  /\ UNCHANGED <<bcast, partials, cur, grids, counter, remote, store, calls>>

\* StencilRun: every rank calls the stencil function on its own.
MasterRun(id) ==
  /\ UserCalls("Run") /\ MayTalk /\ MayTouch(id)
  /\ Notify(Req("FUNC_RUN", id))
  /\ grids' = RunKernel(grids, 0, id)
  /\ store' = [store EXCEPT ![id] = [x \in DOMAIN @ |-> Kernel[@[x]]]]
  /\ UNCHANGED <<net, ld, partials, pc, cur, call, counter, remote, result,
                 settled>>

\* GridReduce: MPI_Reduce returns on the root when every rank has contributed.
MasterReduce(id) ==
  /\ UserCalls("Reduce")
  /\ Notify(Req("FUNC_GRID_REDUCE", id))
  /\ pc' = [pc EXCEPT ![0] = "GridReduce"]
  /\ call' = [NoCall EXCEPT !.buf = grids[0][id]]
  /\ UNCHANGED <<net, ld, partials, cur, grids, counter, remote, store, result,
                 settled>>

\* The parts that the ranks hold, put together.
Join(parts) ==
  [x \in UNION {DOMAIN parts[p] : p \in Proc} |->
     LET p == CHOOSE q \in Proc : x \in DOMAIN parts[q] IN parts[p][x]]

MasterReduceReturn ==
  /\ pc[0] = "GridReduce"
  /\ \A p \in Client : partials[p] # << >>
  /\ result' = Answer("PSReduce",
                      Join([p \in Proc |-> IF p = 0 THEN call.buf ELSE Head(partials[p])]))
  /\ partials' = [p \in Proc |-> IF p = 0 THEN << >> ELSE Tail(partials[p])]
  /\ pc' = [pc EXCEPT ![0] = "user"]
  /\ call' = NoCall /\ settled' = TRUE
  /\ UNCHANGED <<net, ld, bcast, cur, grids, counter, remote, store, calls>>

MasterFinalize ==
  /\ pc[0] = "user"
  /\ Notify(Req("FUNC_FINALIZE", 0))
  /\ pc' = [pc EXCEPT ![0] = "exit"]
  /\ UNCHANGED <<net, ld, partials, cur, call, grids, counter, remote, userVars>>

-----------------------------------------------------------------------------
(* The clients.                                                            *)

\* p takes a broadcast of the given kind in Client::Listen.
Takes(p, kind) ==
  /\ pc[p] = "Listen"
  /\ bcast[p] # << >> /\ Head(bcast[p]).kind = kind
  /\ bcast' = [bcast EXCEPT ![p] = Tail(@)]

Opt(p) == Head(bcast[p]).opt

clientFrame == UNCHANGED <<call, remote, userVars>>

\* Faulty: a client whose part is empty does not register the grid.
ClientNewUnlessEmpty(p) ==
  /\ Takes(p, "FUNC_NEW")
  /\ IF Part(Opt(p), p) = {} THEN UNCHANGED <<grids, counter>>
     ELSE /\ grids' = CreateGrid(grids, p, Opt(p))
          /\ counter' = [counter EXCEPT ![p] = @ + 1]
  /\ UNCHANGED <<net, ld, partials, pc, cur>> /\ clientFrame

ClientNew(p) ==
  /\ Takes(p, "FUNC_NEW")
  /\ grids' = CreateGrid(grids, p, Opt(p))
  /\ counter' = [counter EXCEPT ![p] = @ + 1]
  /\ UNCHANGED <<net, ld, partials, pc, cur>> /\ clientFrame

ClientDelete(p) ==
  /\ Takes(p, "FUNC_DELETE") /\ Knows(p, Opt(p))
  /\ grids' = DeleteGrid(grids, p, Opt(p))
  /\ UNCHANGED <<net, ld, partials, pc, cur, counter>> /\ clientFrame

ClientCopyin(p) ==
  /\ Takes(p, "FUNC_COPYIN") /\ Knows(p, Opt(p))
  /\ LET part == DOMAIN grids[p][Opt(p)]
     IN  /\ net' = Put(net, p, 0, PartMsg(part))
         /\ pc' = [pc EXCEPT ![p] = IF part = {} THEN "Listen" ELSE "GridCopyin"]
  /\ cur' = [cur EXCEPT ![p] = Opt(p)]
  /\ UNCHANGED <<ld, partials, grids, counter>> /\ clientFrame

ClientCopyinData(p) ==
  /\ pc[p] = "GridCopyin"
  /\ Pending(net, 0, p) /\ Oldest(net, 0, p).kind = "DATA"
  /\ net' = Drop(net, 0, p)
  /\ grids' = [grids EXCEPT ![p][cur[p]] = Oldest(net, 0, p).body]
  /\ pc' = [pc EXCEPT ![p] = "Listen"]
  /\ UNCHANGED <<ld, bcast, partials, cur, counter>> /\ clientFrame

\* The part and, unless it is empty, its content.
ClientCopyout(p) ==
  /\ Takes(p, "FUNC_COPYOUT") /\ Knows(p, Opt(p))
  /\ net' = Put(net, p, 0, DataMsg(grids[p][Opt(p)]))
  /\ UNCHANGED <<ld, partials, pc, cur, grids, counter>> /\ clientFrame

\* A client loads nothing itself.
ClientGet(p) ==
  /\ Takes(p, "FUNC_GET") /\ Knows(p, Opt(p))
  /\ BeginLoad(p, [q \in Proc |-> Nothing])
  /\ pc' = [pc EXCEPT ![p] = "GridGet"]
  /\ cur' = [cur EXCEPT ![p] = Opt(p)]
  /\ UNCHANGED <<partials, grids, counter>> /\ clientFrame

ClientGetReturn(p) ==
  /\ pc[p] = "GridGet" /\ EndLoad(p)
  /\ pc' = [pc EXCEPT ![p] = "Listen"]
  /\ UNCHANGED <<bcast, partials, cur, grids, counter>> /\ clientFrame

ClientSet(p) ==
  /\ Takes(p, "FUNC_SET")
  /\ pc' = [pc EXCEPT ![p] = IF Opt(p) = p THEN "GridSet" ELSE "Listen"]
  /\ UNCHANGED <<net, ld, partials, cur, grids, counter>> /\ clientFrame

\* Faulty: the value goes to the grid of the last call.
ClientSetCurrent(p) ==
  /\ pc[p] = "GridSet"
  /\ Pending(net, 0, p) /\ Oldest(net, 0, p).kind = "SET"
  /\ LET m == Oldest(net, 0, p).body
     IN  grids' = [grids EXCEPT ![p][cur[p]][m.point] = m.value]
  /\ net' = Drop(net, 0, p)
  /\ pc' = [pc EXCEPT ![p] = "Listen"]
  /\ UNCHANGED <<ld, bcast, partials, cur, counter>> /\ clientFrame

ClientSetData(p) ==
  /\ pc[p] = "GridSet"
  /\ Pending(net, 0, p) /\ Oldest(net, 0, p).kind = "SET"
  /\ LET m == Oldest(net, 0, p).body
     IN  /\ Knows(p, m.id)
         /\ grids' = [grids EXCEPT ![p][m.id][m.point] = m.value]
  /\ net' = Drop(net, 0, p)
  /\ pc' = [pc EXCEPT ![p] = "Listen"]
  /\ UNCHANGED <<ld, bcast, partials, cur, counter>> /\ clientFrame

ClientRun(p) ==
  /\ Takes(p, "FUNC_RUN") /\ Knows(p, Opt(p))
  /\ grids' = RunKernel(grids, p, Opt(p))
  /\ UNCHANGED <<net, ld, partials, pc, cur, counter>> /\ clientFrame

\* MPI_Reduce of a client does not wait for the root.
ClientReduce(p) ==
  /\ Takes(p, "FUNC_GRID_REDUCE") /\ Knows(p, Opt(p))
  /\ partials' = [partials EXCEPT ![p] = Append(@, grids[p][Opt(p)])]
  /\ UNCHANGED <<net, ld, pc, cur, grids, counter>> /\ clientFrame

ClientFinalize(p) ==
  /\ Takes(p, "FUNC_FINALIZE")
  /\ pc' = [pc EXCEPT ![p] = "exit"]
  /\ UNCHANGED <<net, ld, partials, cur, grids, counter>> /\ clientFrame

-----------------------------------------------------------------------------
(* LoadSubgrid, on any rank that is executing GridGet.                      *)

fetchFrame == UNCHANGED <<rpcVars, remote, userVars>>

Announce(p)     == AnnounceDone(p, 0) /\ fetchFrame
CountDone(p, q) == RecvDone(p, q) /\ fetchFrame

\* p serves q from the grid of p's own call.
Serve(p, q) ==
  /\ HandleFetchRequest(p, q, ContentAt(p, cur[p], Oldest(net, q, p).body))
  /\ fetchFrame

TakeReply(p, q) == HandleFetchReply(p, q) /\ fetchFrame

Fetch(p) ==
  \/ Announce(p)
  \/ \E q \in Proc : CountDone(p, q) \/ Serve(p, q) \/ TakeReply(p, q)

-----------------------------------------------------------------------------
UserStep ==
  \/ \E s \in Shape : MasterNew(s)
  \/ \E id \in DOMAIN store :
       \/ MasterDelete(id)
       \/ \E buf \in [DOMAIN store[id] -> Data] : MasterCopyin(id, buf)
       \/ MasterCopyout(id)
       \/ \E x \in DOMAIN store[id], v \in Data :
            MasterSetRemote(id, x, v) \/ MasterSetLocal(id, x, v)
       \/ \E x \in DOMAIN store[id] : MasterGet(id, x)
       \/ MasterRun(id)
       \/ MasterReduce(id)
  \/ MasterFinalize

MasterStep ==
  \/ \E i \in Client : MasterCopyinNext(i) \/ MasterCopyoutNext(i)
  \/ MasterCopyinReturn \/ MasterCopyoutReturn
  \/ MasterGetReturn \/ MasterReduceReturn
  \/ Fetch(0)

ClientStep(p) ==
  \/ ClientNew(p) \/ ClientDelete(p) \/ ClientCopyin(p) \/ ClientCopyinData(p)
  \/ ClientCopyout(p) \/ ClientGet(p) \/ ClientGetReturn(p) \/ ClientSet(p)
  \/ ClientSetData(p) \/ ClientRun(p) \/ ClientReduce(p) \/ ClientFinalize(p)
  \/ Fetch(p)

Exited == \A p \in Proc : pc[p] = "exit"

Stopped == Exited /\ UNCHANGED vars

Next ==
  \/ UserStep \/ MasterStep
  \/ \E p \in Client : ClientStep(p)
  \/ Stopped

Spec == Init /\ [][Next]_vars

\* A message of p that was sent with MPI_Send has not been received.  MPI may
\* have copied it, and p goes on, or p waits.
MayBlock(p) ==
  \E d \in Proc : \E i \in DOMAIN net[p][d] : net[p][d][i].kind \notin FetchKinds

\* Every rank that need not wait keeps running; the program makes finitely many
\* calls, the last of which is PSFinalize.
Fairness ==
  /\ WF_vars(~MayBlock(0) /\ (UserStep \/ MasterStep))
  /\ \A p \in Client : WF_vars(~MayBlock(p) /\ ClientStep(p))

FairSpec == Spec /\ Fairness

-----------------------------------------------------------------------------
GridTable == UNION {[S -> UNION {[T -> Data \cup {Garbage}] : T \in SUBSET Point}] :
                      S \in SUBSET GridId}

TypeOK ==
  /\ ld \in [Proc -> LoadState]
  /\ DOMAIN net = Proc /\ \A p \in Proc : DOMAIN net[p] = Proc
  /\ pc \in [Proc -> {"user", "Listen", "GridCopyin", "GridCopyout", "GridGet",
                      "GridSet", "GridReduce", "exit"}]
  /\ cur \in [Proc -> Nat]
  /\ grids \in [Proc -> GridTable]
  /\ counter \in [Proc -> 0 .. MaxGrids]
  /\ remote \subseteq DOMAIN grids[0]
  /\ store \in GridTable
  /\ calls \in 0 .. MaxCalls /\ settled \in BOOLEAN
  /\ bcast[0] = << >> /\ partials[0] = << >>

\* LoadSubgrid hears requests, replies and DONEs only: a message of another
\* method makes it abort with "Unknown request" (grid_mpi.cc:962).
NoUnknownRequest ==
  \A p, q \in Proc :
    Listening(p) /\ Pending(net, q, p) => Oldest(net, q, p).kind \in FetchKinds

\* A receive that names its source gets the message it is written for.
ReceivesMatch ==
  \A p \in Client :
    /\ pc[p] = "GridCopyin" /\ Pending(net, 0, p) => Oldest(net, 0, p).kind = "DATA"
    /\ pc[p] = "GridSet" /\ Pending(net, 0, p) => Oldest(net, 0, p).kind = "SET"
    /\ p = call.next /\ Pending(net, p, 0) =>
         /\ pc[0] = "GridCopyin" => Oldest(net, p, 0).kind = "PART"
         /\ pc[0] = "GridCopyout" => Oldest(net, p, 0).kind = "DATA"

\* The assertion of FindGrid (grid.cc:135): an id in a request is one that
\* the client has given to a grid too, although it counts its ids itself.
GridCalls == {"FUNC_DELETE", "FUNC_COPYIN", "FUNC_COPYOUT", "FUNC_GET", "FUNC_RUN",
              "FUNC_GRID_REDUCE"}
GridsFound ==
  \A p \in Client :
    /\ pc[p] = "Listen" /\ bcast[p] # << >> /\ Head(bcast[p]).kind \in GridCalls
         => Knows(p, Opt(p))
    /\ pc[p] = "GridSet" /\ Pending(net, 0, p) => Knows(p, Oldest(net, 0, p).body.id)

\* What Grid::Get reads when LoadSubgrid has returned is what the program has
\* written to that point.
GetReturnsStored ==
  pc[0] = "GridGet" /\ ld[0].done = NProcs =>
    GetValue(cur[0], call.point) = store[cur[0]][call.point]

\* A client that has done all it was asked to do holds its part of what the
\* program has written, of every grid the program has.
PartsAgree ==
  \A p \in Client :
    pc[p] = "Listen" /\ bcast[p] = << >> =>
      grids[p] = [id \in DOMAIN store |-> Restricted(store[id], p)]

\* When all ranks have left, no message is left that nobody will receive.
NothingLost ==
  Exited => \A p, q \in Proc : net[p][q] = << >> /\ partials[p] = << >>

\* Every call of the program returns what VirtualGrid says.
VG == INSTANCE VirtualGrid WITH Value <- Data
OneSystem == VG!VSpec

\* The program ends, and then every rank leaves.
AllExit == <>Exited
=============================================================================
