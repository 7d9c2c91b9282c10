---------------------------- MODULE SubgridRounds ---------------------------
(***************************************************************************)
(* The stencil loop the translator generates around LoadSubgrid             *)
(* (translator/mpi_translator.cc): every process repeats "load the remote   *)
(* parts of the grid, run the kernel, swap the buffers".  There is no       *)
(* barrier between the processes other than the DONE count of LoadSubgrid.  *)
(*                                                                         *)
(* What a grid holds is abstracted to the number of kernels that have been  *)
(* run on it: in its r-th call of LoadSubgrid a process serves generation r *)
(* of its part, and the data it asks for should be of generation r too.     *)
(***************************************************************************)
EXTENDS SubgridFetch

CONSTANTS
  FetchSets,  \* the sets of owners a region a process asks for can span
  MaxRounds   \* bound: calls of LoadSubgrid per process

ASSUME RoundsAssumption ==
  /\ FetchSets \subseteq SUBSET Proc
  /\ MaxRounds \in Nat
  /\ Data = 1 .. MaxRounds
  /\ Tag = 1 .. MaxRounds
  /\ Garbage \notin Data
  /\ Info # {}

VARIABLES
  round,  \* round[p]: how often p has called LoadSubgrid
  heard   \* history: heard[p] is the set of <<q, r>> such that p has counted
          \* the DONE that q announced in its r-th call

vars == <<net, ld, round, heard>>

Whole == CHOOSE i \in Info : TRUE

Init ==
  /\ FetchInit
  /\ round = [p \in Proc |-> 0]
  /\ heard = [p \in Proc |-> {}]

\* The loop body starts: p loads what the kernel will read.
Load(p) ==
  /\ round[p] < MaxRounds
  /\ \E S \in FetchSets :
       BeginLoad(p, [q \in Proc |-> IF q \in S THEN Whole ELSE Nothing])
  /\ round' = [round EXCEPT ![p] = @ + 1]
  /\ UNCHANGED heard

Announce(p) == AnnounceDone(p, round[p]) /\ UNCHANGED <<round, heard>>

CountDone(p, q) ==
  /\ RecvDone(p, q)
  /\ heard' = [heard EXCEPT ![p] = @ \cup {<<q, Oldest(net, q, p).body>>}]
  /\ UNCHANGED round

\* What p's part of the grid holds while p is in its current call.
Content(p) == round[p]

Serve(p, q) ==
  HandleFetchRequest(p, q, Content(p)) /\ UNCHANGED <<round, heard>>

TakeReply(p, q) == HandleFetchReply(p, q) /\ UNCHANGED <<round, heard>>

\* The call returns; the kernel runs and the buffers are swapped.
Return(p) == EndLoad(p) /\ UNCHANGED <<round, heard>>

Step(p) ==
  \/ Load(p)
  \/ Announce(p)
  \/ \E q \in Proc : CountDone(p, q) \/ Serve(p, q) \/ TakeReply(p, q)
  \/ Return(p)

\* All iterations are over everywhere.
Finished ==
  /\ \A p \in Proc : round[p] = MaxRounds /\ ~ld[p].active
  /\ UNCHANGED vars

Next ==
  \/ \E p \in Proc : Step(p)
  \/ Finished

Spec == Init /\ [][Next]_vars

\* Every process runs the same loop to its end, and MPI delivers.
Fairness == \A p \in Proc : WF_vars(Step(p))

FairSpec == Spec /\ Fairness

-----------------------------------------------------------------------------
TypeOK ==
  /\ net \in [Proc -> [Proc -> Seq(Message)]]
  /\ ld \in [Proc -> LoadState]
  /\ round \in [Proc -> 0 .. MaxRounds]
  /\ heard \in [Proc -> SUBSET (Proc \X Tag)]

\* The calls p has completed, and the DONEs it has announced in all.
Completed(p) == IF ld[p].active THEN round[p] - 1 ELSE round[p]
SentDone(p)  == Completed(p) + (IF ld[p].active /\ ld[p].doneSent THEN 1 ELSE 0)

\* p has asked q for something it has not received.
Outstanding(p, q) == ld[p].want[q] # Nothing /\ ld[p].sg[q] = Nothing

\* A message of kind k is in the channel s; there is at most one.
Has(s, k)   == \E i \in DOMAIN s : s[i].kind = k
AtMostOne(s, k) ==
  \A i, j \in DOMAIN s : s[i].kind = k /\ s[j].kind = k => i = j

\* The assertion of HandleFetchReply (grid_mpi.cc:817): a reply comes from a
\* peer of fetch_map, and from one whose part has not arrived yet.
ReplyExpected ==
  \A p, q \in Proc : Hears(p, q, "FETCH_REPLY") =>
    Outstanding(p, q) /\ ld[p].remaining > 0

\* LoadSubgrid returns by the DONE count alone (grid_mpi.cc:935), but never
\* before the call has announced its own DONE, has received all it asked for
\* and has left no request or reply of its own in the network.
LeavesComplete ==
  \A p \in Proc : ld[p].active /\ ld[p].done = NProcs =>
    /\ ld[p].doneSent
    /\ \A q \in Proc : /\ ~Outstanding(p, q)
                       /\ ~Has(net[p][q], "FETCH_REQUEST")
                       /\ ~Has(net[q][p], "FETCH_REPLY")

\* The DONE count keeps the processes together: nobody is more than one call
\* of LoadSubgrid ahead of anybody else.
OneCallAhead ==
  \A p, q \in Proc : Completed(p) <= Completed(q) + 1

\* What a process has fetched is what the owner's grid held in the same
\* iteration of the loop.
FetchedIsCurrent ==
  \A p, q \in Proc : ld[p].sg[q] \in {Nothing, round[p]}

\* It is at most one iteration old, even when the calls of different
\* iterations mix, and never from an iteration the reader has not reached.
StaleByOneAtMost ==
  \A p, q \in Proc : ld[p].sg[q] \in {Nothing, Garbage, round[p] - 1, round[p]}

\* No process reads memory that the sender has freed or overwritten.
RepliesIntact ==
  \A p, q \in Proc : ld[p].sg[q] # Garbage

\* Every process gets through the whole loop.
LoopEnds == <>(\A p \in Proc : round[p] = MaxRounds /\ ~ld[p].active)

-----------------------------------------------------------------------------
(* The inductive invariant behind the safety properties.                    *)

\* What the messages of kind k in the channel s carry, and that no two DONEs
\* in it are the same.
Bodies(s, k) == {s[i].body : i \in {j \in DOMAIN s : s[j].kind = k}}
DistinctTags(s) ==
  \A i, j \in DOMAIN s :
    s[i].kind = "DONE" /\ s[j].kind = "DONE" /\ s[i].body = s[j].body => i = j

\* The DONEs of q that p has heard or can still hear: q has announced each of
\* them, and p hears none twice.
DoneFrom(p, q) ==
  /\ DistinctTags(net[q][p])
  /\ \A t \in Bodies(net[q][p], "DONE") :
       t <= SentDone(q) /\ q # p /\ <<q, t>> \notin heard[p]
  /\ \A t \in Tag : <<q, t>> \in heard[p] => t <= SentDone(q) /\ q # p

\* What p has counted in its current call, its own DONE aside.
Counted(p) == IF ~ld[p].active THEN 0
              ELSE IF ld[p].doneSent THEN ld[p].done - 1 ELSE ld[p].done

\* The counts of all calls of p add up to the DONEs p has heard.
DoneCount(p) ==
  /\ ld[p].active => round[p] > 0
  /\ Cardinality(heard[p]) = (NProcs - 1) * Completed(p) + Counted(p)

DoneInv ==
  /\ \A p, q \in Proc : DoneFrom(p, q)
  /\ \A p \in Proc : DoneCount(p)

\* Nobody completes its r-th call before everybody has announced its r-th DONE.
AllAnnounced == \A p, q \in Proc : Completed(p) <= SentDone(q)

\* A request or a reply in the network belongs to a part still outstanding.
Exchange(p, q) ==
  /\ AtMostOne(net[p][q], "FETCH_REQUEST")
  /\ AtMostOne(net[q][p], "FETCH_REPLY")
  /\ ~(Has(net[p][q], "FETCH_REQUEST") /\ Has(net[q][p], "FETCH_REPLY"))
  /\ Has(net[p][q], "FETCH_REQUEST") => Outstanding(p, q)
  /\ Has(net[q][p], "FETCH_REPLY") => Outstanding(p, q)

\* remaining_requests counts those parts.
RemainingCount(p) ==
  /\ ld[p].remaining = Cardinality({q \in Proc : Outstanding(p, q)})
  /\ ~ld[p].active \/ ld[p].doneSent => ld[p].remaining = 0

RequestInv ==
  /\ \A p, q \in Proc : Exchange(p, q)
  /\ \A p \in Proc : RemainingCount(p)

\* The age of the data in the network and in the remote grids.
Age(p, q) ==
  /\ ld[p].sg[q] \in {Nothing, Garbage, round[p] - 1, round[p]}
  /\ \A x \in Bodies(net[q][p], "FETCH_REPLY") :
       x \in {Garbage, round[p] - 1, round[p]}

AgeInv == \A p, q \in Proc : Age(p, q)

IInv == TypeOK /\ DoneInv /\ AllAnnounced /\ RequestInv /\ AgeInv
=============================================================================
