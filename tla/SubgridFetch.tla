---------------------------- MODULE SubgridFetch ----------------------------
(***************************************************************************)
(* GridSpaceMPI::LoadSubgrid (runtime/grid_mpi.cc): how the processes of a  *)
(* stencil program fetch the parts of a grid they need from the processes   *)
(* that own them.                                                          *)
(*                                                                         *)
(* A process that enters LoadSubgrid asks the owners of the region it wants *)
(* (FETCH_REQUEST), then serves everybody else's requests until each of the *)
(* NProcs processes has announced that it has got all it asked for (DONE).  *)
(* It takes its messages from MPI_ANY_SOURCE, and a message says neither    *)
(* which call nor which grid it belongs to.                                 *)
(*                                                                         *)
(* The module has the state and the steps of one such call; the modules     *)
(* that extend it say when calls start and what the grids hold.  A          *)
(* definition marked "Faulty" is the one that follows it with a mistake put *)
(* in; the specification uses none of them.  A header                       *)
(* and the payload the code sends right behind it, to the same rank with    *)
(* the same tag, are one message here.                                      *)
(***************************************************************************)
EXTENDS Mpi, Integers, FiniteSets

CONSTANTS
  NProcs,   \* number of MPI processes, num_procs_
  Info,     \* what a FetchInfo can ask a peer for
  Data,     \* what the memory of a grid region can hold
  Garbage,  \* the content of memory that was freed or overwritten
  Nothing,  \* no value: a region not asked for, or not fetched yet
  Tag,      \* bodies of DONE messages: bookkeeping of the proofs, the code
            \* sends no body and no step looks at it
  Eager     \* does MPI_Isend copy a reply out of the send buffer at once?

ASSUME NProcsAssumption == NProcs \in Nat \ {0}
ASSUME BodyAssumption   == /\ Nothing \notin Info \cup Data \cup {Garbage}
                           /\ Eager \in BOOLEAN

Proc == 0 .. NProcs - 1

VARIABLES
  net,  \* the network
  ld    \* ld[p]: the locals of p's call of LoadSubgrid

(***************************************************************************)
(* active    p is inside LoadSubgrid                                       *)
(* want      fetch_map: peer -> what is asked of it (Nothing: no request)  *)
(* remaining remaining_requests                                            *)
(* done      done_count                                                    *)
(* doneSent  done_sent                                                     *)
(* sg        the remote grid, by the peer its parts come from              *)
(***************************************************************************)
LoadState == [active: BOOLEAN, want: [Proc -> Info \cup {Nothing}],
              remaining: Nat, done: Nat, doneSent: BOOLEAN,
              sg: [Proc -> Data \cup {Garbage, Nothing}]]

Message == [kind: {"FETCH_REQUEST"}, body: Info]
           \cup [kind: {"FETCH_REPLY"}, body: Data \cup {Garbage}]
           \cup [kind: {"DONE"}, body: Tag]

Request(i) == [kind |-> "FETCH_REQUEST", body |-> i]
Reply(x)   == [kind |-> "FETCH_REPLY", body |-> x]
Done(t)    == [kind |-> "DONE", body |-> t]

NoLoad == [active |-> FALSE, want |-> [q \in Proc |-> Nothing],
           remaining |-> 0, done |-> 0, doneSent |-> FALSE,
           sg |-> [q \in Proc |-> Nothing]]

FetchInit ==
  /\ net = EmptyNet(Proc)
  /\ ld = [p \in Proc |-> NoLoad]

-----------------------------------------------------------------------------
(* The shared buffer: HandleFetchRequest and HandleFetchReply both stage    *)
(* their data in the member buf.  ensure_buffer_capacity takes the current  *)
(* capacity by value and nobody updates cur_buf_size, so every call frees   *)
(* the buffer and allocates a new one.  A reply that MPI has not copied yet *)
(* then refers to freed memory.                                            *)

Spoil(s) == [i \in DOMAIN s |-> IF s[i].kind = "FETCH_REPLY"
                                THEN Reply(Garbage) ELSE s[i]]

\* The network after p calls ensure_buffer_capacity.
Reallocate(n, p) ==
  IF Eager THEN n ELSE [n EXCEPT ![p] = [d \in Proc |-> Spoil(n[p][d])]]

-----------------------------------------------------------------------------
(* The steps of one call.                                                  *)

\* The peers a request goes to: CollectPerProcSubgridInfo found w, and a
\* region that lies in p's own part needs no request at all.
SendsTo(p, w) ==
  LET peers == {q \in Proc : w[q] # Nothing}
  IN  IF peers = {p} THEN {} ELSE peers

\* Entering the call: the requests go out, the counters are set up.
BeginLoad(p, w) ==
  LET peers == SendsTo(p, w)
  IN  /\ ~ld[p].active
      /\ net' = [net EXCEPT ![p] =
                   [d \in Proc |-> IF d \in peers
                                   THEN Append(net[p][d], Request(w[d]))
                                   ELSE net[p][d]]]
      /\ ld' = [ld EXCEPT ![p] =
                  [active |-> TRUE,
                   want |-> [q \in Proc |-> IF q \in peers THEN w[q] ELSE Nothing],
                   remaining |-> Cardinality(peers),
                   done |-> 0, doneSent |-> FALSE,
                   sg |-> [q \in Proc |-> Nothing]]]

\* Faulty: DONE goes out at once, outstanding requests or not.
MayAnnounceEarly(p) == ~ld[p].doneSent

\* The condition under which the loop announces DONE instead of listening.
MayAnnounce(p) == ld[p].remaining = 0 /\ ~ld[p].doneSent

\* Faulty: the announcing process sends DONE to itself too.
AnnounceToAll(p, t) ==
  /\ ld[p].active
  /\ ld[p].done # NProcs
  /\ MayAnnounce(p)
  /\ net' = Multicast(net, p, Proc, Done(t))
  /\ ld' = [ld EXCEPT ![p].done = @ + 1, ![p].doneSent = TRUE]

AnnounceDone(p, t) ==
  /\ ld[p].active
  /\ ld[p].done # NProcs
  /\ MayAnnounce(p)
  /\ net' = Multicast(net, p, Proc \ {p}, Done(t))
  /\ ld' = [ld EXCEPT ![p].done = @ + 1, ![p].doneSent = TRUE]

\* p is blocked in RecvGridRequest.
Listening(p) ==
  /\ ld[p].active
  /\ ld[p].done # NProcs
  /\ ~MayAnnounce(p)

\* The header p receives next from q, if p may receive from q.
Hears(p, q, kind) ==
  /\ Listening(p)
  /\ Pending(net, q, p)
  /\ Oldest(net, q, p).kind = kind

RecvDone(p, q) ==
  /\ Hears(p, q, "DONE")
  /\ net' = Drop(net, q, p)
  /\ ld' = [ld EXCEPT ![p].done = @ + 1]

\* Faulty: others are served only after p has got all it asked for.
ServeOthersLast(p, q, x) ==
  /\ Hears(p, q, "FETCH_REQUEST")
  /\ IF ld[p].remaining > 0
     THEN net' = net
     ELSE net' = Put(Reallocate(Drop(net, q, p), p), p, q, Reply(x))
  /\ UNCHANGED ld

\* Faulty: a process that is done polls past the requests of the others.
ServeUntilDone(p, q, x) ==
  /\ Hears(p, q, "FETCH_REQUEST")
  /\ IF ld[p].doneSent
     THEN net' = net
     ELSE net' = Put(Reallocate(Drop(net, q, p), p), p, q, Reply(x))
  /\ UNCHANGED ld

\* p answers q's request with x, the content of the region q asks for.
HandleFetchRequest(p, q, x) ==
  /\ Hears(p, q, "FETCH_REQUEST")
  /\ net' = Put(Reallocate(Drop(net, q, p), p), p, q, Reply(x))
  /\ UNCHANGED ld

\* The buffer is made ready before the data is received into it.
HandleFetchReply(p, q) ==
  /\ Hears(p, q, "FETCH_REPLY")
  /\ net' = Drop(Reallocate(net, p), q, p)
  /\ ld' = [ld EXCEPT ![p].sg[q] = Oldest(Reallocate(net, p), q, p).body,
                      ![p].remaining = @ - 1]

\* Faulty: the call returns one DONE too early.
EndLoadEarly(p) ==
  /\ ld[p].active
  /\ ld[p].done >= NProcs - 1
  /\ ld' = [ld EXCEPT ![p].active = FALSE]
  /\ UNCHANGED net

\* Everyone is done: LoadSubgrid returns.
EndLoad(p) ==
  /\ ld[p].active
  /\ ld[p].done = NProcs
  /\ ld' = [ld EXCEPT ![p].active = FALSE]
  /\ UNCHANGED net
=============================================================================
