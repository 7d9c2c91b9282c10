-------------------------------- MODULE Mpi --------------------------------
(***************************************************************************)
(* The part of MPI the Physis runtime relies on, as src/runtime calls it    *)
(* (runtime/mpi_wrapper.cc): point-to-point messages with one tag on one    *)
(* communicator.  MPI itself is outside the repository.                     *)
(*                                                                         *)
(* A network is a function n where n[s][d] is the sequence of messages      *)
(* sent by rank s to rank d and not yet received.  MPI guarantees that      *)
(* messages of one (source, destination, tag, communicator) do not overtake *)
(* each other, and nothing about messages of different sources: a receive   *)
(* that names its source takes the head of one sequence, a receive from     *)
(* MPI_ANY_SOURCE may take the head of any of them.                         *)
(***************************************************************************)
EXTENDS Naturals, Sequences

\* The network of the ranks in P with nothing in flight.
EmptyNet(P) == [s \in P |-> [d \in P |-> << >>]]

\* MPI_Send and MPI_Isend of m from s to d: m follows what s sent to d before.
Put(n, s, d, m) == [n EXCEPT ![s][d] = Append(@, m)]

\* s sends m to every rank of D, one call after the other.
Multicast(n, s, D, m) ==
  [n EXCEPT ![s] = [d \in DOMAIN n[s] |->
                      IF d \in D THEN Append(n[s][d], m) ELSE n[s][d]]]

\* A receive at d that names source s completes with the oldest message.
Pending(n, s, d) == n[s][d] # << >>
Oldest(n, s, d)  == Head(n[s][d])
Drop(n, s, d)    == [n EXCEPT ![s][d] = Tail(@)]
=============================================================================
