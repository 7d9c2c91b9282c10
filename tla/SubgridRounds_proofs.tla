------------------------ MODULE SubgridRounds_proofs ------------------------
(***************************************************************************)
(* Proofs about SubgridRounds, for any number of processes and rounds.      *)
(***************************************************************************)
EXTENDS SubgridRounds, FiniteSetTheorems, SequenceTheorems, TLAPS

-----------------------------------------------------------------------------
(* One channel: what sending, receiving and spoiling do to its messages.    *)

\* A send adds one message and leaves the others alone.
LEMMA AppendFacts ==
  ASSUME NEW s \in Seq(Message), NEW m \in Message
  PROVE  /\ Append(s, m) \in Seq(Message)
         /\ \A k : Has(Append(s, m), k) <=> Has(s, k) \/ m.kind = k
         /\ \A k : AtMostOne(s, k) /\ (m.kind = k => ~Has(s, k))
                     => AtMostOne(Append(s, m), k)
         /\ \A k : Bodies(Append(s, m), k)
                     = Bodies(s, k) \cup (IF m.kind = k THEN {m.body} ELSE {})
         /\ DistinctTags(s) /\ (m.kind = "DONE" => m.body \notin Bodies(s, "DONE"))
              => DistinctTags(Append(s, m))
<1> DEFINE t == Append(s, m)
<1>1. /\ t \in Seq(Message) /\ Len(t) = Len(s) + 1
      /\ \A i \in 1 .. Len(s) : t[i] = s[i]
      /\ t[Len(s) + 1] = m
  BY AppendProperties
<1>2. /\ Len(s) \in Nat /\ DOMAIN s = 1 .. Len(s) /\ DOMAIN t = 1 .. Len(s) + 1
  BY <1>1, LenProperties
<1> HIDE DEF t
<1>3. \A k : Has(t, k) <=> Has(s, k) \/ m.kind = k
  BY <1>1, <1>2 DEF Has
<1>4. \A k : AtMostOne(s, k) /\ (m.kind = k => ~Has(s, k)) => AtMostOne(t, k)
  BY <1>1, <1>2 DEF AtMostOne, Has
<1>5. ASSUME NEW k
      PROVE  Bodies(t, k) = Bodies(s, k) \cup (IF m.kind = k THEN {m.body} ELSE {})
  <2>1. ASSUME NEW x \in Bodies(t, k)
        PROVE  x \in Bodies(s, k) \cup (IF m.kind = k THEN {m.body} ELSE {})
    BY <1>1, <1>2, <2>1 DEF Bodies
  <2>2. ASSUME NEW x \in Bodies(s, k) \cup (IF m.kind = k THEN {m.body} ELSE {})
        PROVE  x \in Bodies(t, k)
    BY <1>1, <1>2, <2>2 DEF Bodies
  <2> QED BY <2>1, <2>2
<1>6. DistinctTags(s) /\ (m.kind = "DONE" => m.body \notin Bodies(s, "DONE"))
        => DistinctTags(t)
  BY <1>1, <1>2 DEF DistinctTags, Bodies
<1> QED BY <1>1, <1>3, <1>4, <1>5, <1>6 DEF t

\* A receive takes the oldest message away and leaves the others alone.
LEMMA TailFacts ==
  ASSUME NEW s \in Seq(Message), s # << >>
  PROVE  /\ Head(s) \in Message
         /\ Tail(s) \in Seq(Message)
         /\ Has(s, Head(s).kind)
         /\ Head(s).body \in Bodies(s, Head(s).kind)
         /\ \A k : Has(Tail(s), k) => Has(s, k)
         /\ \A k : AtMostOne(s, k) => AtMostOne(Tail(s), k)
         /\ AtMostOne(s, Head(s).kind) => ~Has(Tail(s), Head(s).kind)
         /\ \A k : Bodies(Tail(s), k) \subseteq Bodies(s, k)
         /\ DistinctTags(s) => DistinctTags(Tail(s))
         /\ DistinctTags(s) /\ Head(s).kind = "DONE"
              => Head(s).body \notin Bodies(Tail(s), "DONE")
<1> DEFINE t == Tail(s)
<1>1. /\ Head(s) \in Message /\ t \in Seq(Message) /\ Len(t) = Len(s) - 1
      /\ \A i \in 1 .. Len(t) : t[i] = s[i + 1]
  BY HeadTailProperties
<1>2. /\ Len(s) \in Nat /\ Len(s) > 0 /\ DOMAIN s = 1 .. Len(s)
      /\ DOMAIN t = 1 .. Len(s) - 1 /\ Head(s) = s[1]
  BY <1>1, LenProperties, EmptySeq
<1> HIDE DEF t
<1>3. Has(s, Head(s).kind) /\ Head(s).body \in Bodies(s, Head(s).kind)
  BY <1>2 DEF Has, Bodies
<1>4. \A k : Has(t, k) => Has(s, k)
  <2>1. \A i \in DOMAIN t : i + 1 \in DOMAIN s /\ t[i] = s[i + 1]
    BY <1>1, <1>2
  <2> QED BY <2>1 DEF Has
<1>5. ASSUME NEW k, AtMostOne(s, k)
      PROVE  AtMostOne(t, k)
  <2> SUFFICES ASSUME NEW i \in DOMAIN t, NEW j \in DOMAIN t,
                      t[i].kind = k, t[j].kind = k
               PROVE  i = j
    BY DEF AtMostOne
  <2>1. /\ i \in Nat /\ i + 1 \in DOMAIN s /\ s[i + 1].kind = k
        /\ j \in Nat /\ j + 1 \in DOMAIN s /\ s[j + 1].kind = k
    BY <1>1, <1>2
  <2>2. i + 1 = j + 1
    BY <2>1, <1>5 DEF AtMostOne
  <2> QED BY <2>1, <2>2
<1>6. AtMostOne(s, Head(s).kind) => ~Has(t, Head(s).kind)
  BY <1>1, <1>2 DEF AtMostOne, Has
<1>7. \A k : Bodies(t, k) \subseteq Bodies(s, k)
  <2>1. \A i \in DOMAIN t : i + 1 \in DOMAIN s /\ t[i] = s[i + 1]
    BY <1>1, <1>2
  <2> QED BY <2>1 DEF Bodies
<1>8. ASSUME DistinctTags(s) PROVE DistinctTags(t)
  <2> SUFFICES ASSUME NEW i \in DOMAIN t, NEW j \in DOMAIN t, t[i].kind = "DONE",
                      t[j].kind = "DONE", t[i].body = t[j].body
               PROVE  i = j
    BY DEF DistinctTags
  <2>1. /\ i \in Nat /\ i + 1 \in DOMAIN s /\ s[i + 1] = t[i]
        /\ j \in Nat /\ j + 1 \in DOMAIN s /\ s[j + 1] = t[j]
    BY <1>1, <1>2
  <2>2. i + 1 = j + 1
    BY <2>1, <1>8 DEF DistinctTags
  <2> QED BY <2>1, <2>2
<1>9. ASSUME DistinctTags(s), Head(s).kind = "DONE"
      PROVE  Head(s).body \notin Bodies(t, "DONE")
  <2> SUFFICES ASSUME NEW i \in DOMAIN t, t[i].kind = "DONE", t[i].body = Head(s).body
               PROVE  FALSE
    BY DEF Bodies
  <2>1. i \in Nat /\ i + 1 \in DOMAIN s /\ s[i + 1] = t[i] /\ i + 1 # 1 /\ 1 \in DOMAIN s
    BY <1>1, <1>2
  <2> QED BY <2>1, <1>2, <1>9 DEF DistinctTags
<1> QED BY <1>1, <1>3, <1>4, <1>5, <1>6, <1>7, <1>8, <1>9 DEF t

\* Freeing the buffer changes the bodies of replies and nothing else.
LEMMA SpoilFacts ==
  ASSUME NEW s \in Seq(Message)
  PROVE  /\ Spoil(s) \in Seq(Message)
         /\ s # << >> => Spoil(s) # << >> /\ Head(Spoil(s)).kind = Head(s).kind
         /\ \A k : Has(Spoil(s), k) <=> Has(s, k)
         /\ \A k : AtMostOne(s, k) => AtMostOne(Spoil(s), k)
         /\ \A k : Bodies(Spoil(s), k) \subseteq
                     IF k = "FETCH_REPLY" THEN {Garbage} ELSE Bodies(s, k)
         /\ DistinctTags(s) => DistinctTags(Spoil(s))
<1> DEFINE t == Spoil(s)
<1>1. Len(s) \in Nat /\ DOMAIN s = 1 .. Len(s) /\ \A i \in 1 .. Len(s) : s[i] \in Message
  BY LenProperties, ElementOfSeq
<1>2. /\ DOMAIN t = 1 .. Len(s)
      /\ \A i \in 1 .. Len(s) :
           t[i] = IF s[i].kind = "FETCH_REPLY" THEN Reply(Garbage) ELSE s[i]
  BY <1>1 DEF Spoil
<1>3. \A i \in 1 .. Len(s) : t[i] \in Message /\ t[i].kind = s[i].kind
  BY <1>1, <1>2 DEF Reply, Message
<1>4. t \in Seq(Message) /\ Len(t) = Len(s)
  BY <1>1, <1>2, <1>3 DEF Spoil
<1>5. s # << >> => t # << >> /\ Head(t).kind = Head(s).kind
  BY <1>1, <1>2, <1>3, <1>4, EmptySeq
<1> HIDE DEF t
<1>6. \A k : Has(t, k) <=> Has(s, k)
  BY <1>1, <1>2, <1>3 DEF Has
<1>7. \A k : AtMostOne(s, k) => AtMostOne(t, k)
  BY <1>1, <1>2, <1>3 DEF AtMostOne
<1>8. ASSUME NEW k
      PROVE  Bodies(t, k) \subseteq IF k = "FETCH_REPLY" THEN {Garbage} ELSE Bodies(s, k)
  BY <1>1, <1>2, <1>3 DEF Bodies, Reply
<1>9. DistinctTags(s) => DistinctTags(t)
  BY <1>1, <1>2, <1>3 DEF DistinctTags
<1> QED BY <1>4, <1>5, <1>6, <1>7, <1>8, <1>9 DEF t

-----------------------------------------------------------------------------
(* Facts that hold in every state that satisfies the invariant.             *)

\* The number of tags up to n.
LEMMA UpTo ==
  ASSUME NEW n \in Nat
  PROVE  IsFiniteSet(1 .. n) /\ Cardinality(1 .. n) = n
<1>1. 1 \in Int /\ n \in Int
  OBVIOUS
<1>2. IsFiniteSet(1 .. n) /\ Cardinality(1 .. n) = IF 1 > n THEN 0 ELSE n - 1 + 1
  BY <1>1, FS_Interval
<1> QED BY <1>2

\* There are NProcs processes, and finitely many in every set of them.
LEMMA ProcFacts ==
  /\ NProcs \in Nat /\ NProcs > 0
  /\ Proc \subseteq Nat
  /\ IsFiniteSet(Proc) /\ Cardinality(Proc) = NProcs
  /\ \A S \in SUBSET Proc : IsFiniteSet(S) /\ Cardinality(S) \in Nat
<1>1. NProcs \in Nat /\ NProcs > 0
  BY NProcsAssumption
<1>2. IsFiniteSet(Proc) /\ Cardinality(Proc) = NProcs
  BY <1>1, FS_Interval DEF Proc
<1>3. \A S \in SUBSET Proc : IsFiniteSet(S) /\ Cardinality(S) \in Nat
  BY <1>2, FS_Subset, FS_CardinalityType
<1> QED BY <1>1, <1>2, <1>3 DEF Proc

\* A body of kind k is the body of some message of kind k.
LEMMA BodiesHas ==
  ASSUME NEW s, NEW k, ~Has(s, k)
  PROVE  Bodies(s, k) = {}
BY DEF Bodies, Has

\* The bodies of DONE messages are tags.
LEMMA DoneBodies ==
  ASSUME NEW s \in Seq(Message)
  PROVE  Bodies(s, "DONE") \subseteq Tag
<1>1. \A i \in DOMAIN s : s[i] \in Message
  BY LenProperties, ElementOfSeq
<1>2. \A m \in Message : m.kind = "DONE" => m.body \in Tag
  BY DEF Message
<1> QED BY <1>1, <1>2 DEF Bodies

\* An update of one field of the load state is a load state.
LEMMA LoadStateEdits ==
  ASSUME NEW l \in LoadState
  PROVE  /\ \A b \in BOOLEAN : [l EXCEPT !.active = b] \in LoadState
         /\ \A b \in BOOLEAN : [l EXCEPT !.doneSent = b] \in LoadState
         /\ \A n \in Nat : [l EXCEPT !.done = n] \in LoadState
         /\ \A n \in Nat : [l EXCEPT !.remaining = n] \in LoadState
         /\ \A q \in Proc, x \in Data \cup {Garbage, Nothing} :
              [l EXCEPT !.sg[q] = x] \in LoadState
         /\ l.done \in Nat /\ l.remaining \in Nat
BY DEF LoadState

Nets == [Proc -> [Proc -> Seq(Message)]]

\* Receiving changes one channel.
LEMMA DropFacts ==
  ASSUME NEW n \in Nets, NEW s \in Proc, NEW d \in Proc, Pending(n, s, d)
  PROVE  /\ Drop(n, s, d) \in Nets
         /\ Drop(n, s, d)[s][d] = Tail(n[s][d])
         /\ \A a, b \in Proc : a # s \/ b # d => Drop(n, s, d)[a][b] = n[a][b]
         /\ Oldest(n, s, d) = Head(n[s][d])
         /\ n[s][d] \in Seq(Message) /\ n[s][d] # << >>
<1>1. n[s][d] \in Seq(Message) /\ n[s][d] # << >>
  BY DEF Nets, Pending
<1>2. Tail(n[s][d]) \in Seq(Message)
  BY <1>1, TailFacts
<1>3. Drop(n, s, d) \in Nets
  BY <1>2 DEF Nets, Drop
<1> QED BY <1>1, <1>3 DEF Nets, Drop, Oldest

\* Sending to one peer changes one channel.
LEMMA PutFacts ==
  ASSUME NEW n \in Nets, NEW s \in Proc, NEW d \in Proc, NEW m \in Message
  PROVE  /\ Put(n, s, d, m) \in Nets
         /\ Put(n, s, d, m)[s][d] = Append(n[s][d], m)
         /\ \A a, b \in Proc : a # s \/ b # d => Put(n, s, d, m)[a][b] = n[a][b]
<1>1. Append(n[s][d], m) \in Seq(Message)
  BY AppendFacts DEF Nets
<1> QED BY <1>1 DEF Nets, Put

\* Reallocating the buffer of s touches nothing but replies s has sent.
LEMMA ReallocateFacts ==
  ASSUME NEW n \in Nets, NEW s \in Proc
  PROVE  /\ Reallocate(n, s) \in Nets
         /\ \A a, b \in Proc :
              Reallocate(n, s)[a][b] \in {n[a][b], Spoil(n[a][b])}
<1>1. \A a, b \in Proc : n[a][b] \in Seq(Message) /\ Spoil(n[a][b]) \in Seq(Message)
  BY SpoilFacts DEF Nets
<1>2. CASE Eager
  BY <1>2 DEF Reallocate
<1>3. CASE ~Eager
  <2>1. Reallocate(n, s) = [n EXCEPT ![s] = [d \in Proc |-> Spoil(n[s][d])]]
    BY <1>3 DEF Reallocate
  <2>2. \A a, b \in Proc : Reallocate(n, s)[a][b] =
                           IF a = s THEN Spoil(n[a][b]) ELSE n[a][b]
    BY <2>1 DEF Nets
  <2>3. [d \in Proc |-> Spoil(n[s][d])] \in [Proc -> Seq(Message)]
    BY <1>1
  <2>4. Reallocate(n, s) \in Nets
    BY <2>1, <2>3 DEF Nets
  <2> QED BY <2>2, <2>4
<1> QED BY <1>2, <1>3

\* The counters have their types and stay in step.
LEMMA CounterFacts ==
  ASSUME IInv
  PROVE  \A p \in Proc :
           /\ round[p] \in Nat /\ Completed(p) \in Nat /\ SentDone(p) \in Nat
           /\ ld[p] \in LoadState
           /\ round[p] - 1 <= Completed(p) /\ Completed(p) <= round[p]
           /\ Completed(p) <= SentDone(p) /\ SentDone(p) <= Completed(p) + 1
           /\ SentDone(p) <= round[p]
           /\ ld[p].active => Completed(p) = round[p] - 1
           /\ ~ld[p].active => Completed(p) = round[p]
<1>1. ASSUME NEW p \in Proc
      PROVE  /\ round[p] \in Nat /\ ld[p] \in LoadState
             /\ ld[p].active \in BOOLEAN /\ ld[p].doneSent \in BOOLEAN
             /\ ld[p].active => round[p] > 0
  BY RoundsAssumption DEF IInv, TypeOK, DoneInv, DoneCount, LoadState
<1> QED BY <1>1 DEF Completed, SentDone

\* A process with nothing remaining has nothing outstanding, and neither
\* requests nor replies of its own in the network.
LEMMA NothingOutstanding ==
  ASSUME IInv, NEW p \in Proc, ld[p].remaining = 0
  PROVE  \A q \in Proc : /\ ~Outstanding(p, q)
                         /\ ~Has(net[p][q], "FETCH_REQUEST")
                         /\ ~Has(net[q][p], "FETCH_REPLY")
<1> DEFINE O == {q \in Proc : Outstanding(p, q)}
<1>1. Cardinality(O) = 0
  BY DEF IInv, RequestInv, RemainingCount
<1>2. O = {}
  BY <1>1, ProcFacts, FS_EmptySet
<1> QED BY <1>2 DEF IInv, RequestInv, Exchange

\* A process with a part outstanding is inside the call, has asked and has
\* not announced DONE.
LEMMA OutstandingFacts ==
  ASSUME IInv, NEW p \in Proc, NEW q \in Proc, Outstanding(p, q)
  PROVE  ld[p].active /\ ~ld[p].doneSent /\ ld[p].remaining > 0
<1> DEFINE O == {r \in Proc : Outstanding(p, r)}
<1>1. ld[p].remaining = Cardinality(O) /\ ld[p].remaining \in Nat
  BY ProcFacts DEF IInv, RequestInv, RemainingCount
<1>2. ld[p].remaining # 0
  BY <1>1, ProcFacts, FS_EmptySet
<1> QED BY <1>1, <1>2 DEF IInv, RequestInv, RemainingCount

\* The content of a region is data once the loop has started.
LEMMA ContentIsData ==
  ASSUME IInv, NEW p \in Proc, ld[p].active
  PROVE  Content(p) \in Data
BY RoundsAssumption DEF IInv, TypeOK, DoneInv, DoneCount, Content


-----------------------------------------------------------------------------
(* Each step preserves the invariant.                                       *)

\* The initial state: nothing is in flight and nobody has called.
LEMMA InitIInv == Init => IInv
<1> SUFFICES ASSUME Init PROVE IInv
  OBVIOUS
<1>1. /\ net = [p \in Proc |-> [q \in Proc |-> << >>]]
      /\ ld = [p \in Proc |-> NoLoad]
      /\ round = [p \in Proc |-> 0]
      /\ heard = [p \in Proc |-> {}]
  BY DEF Init, FetchInit, EmptyNet
<1>2. \A p \in Proc : Completed(p) = 0 /\ SentDone(p) = 0 /\ Counted(p) = 0
  BY <1>1 DEF Completed, SentDone, Counted, NoLoad
<1>3. TypeOK
  <2>1. net \in [Proc -> [Proc -> Seq(Message)]]
    BY <1>1, EmptySeq
  <2>2. ld \in [Proc -> LoadState]
    BY <1>1 DEF LoadState, NoLoad
  <2>3. round \in [Proc -> 0 .. MaxRounds]
    BY <1>1, RoundsAssumption
  <2>4. heard \in [Proc -> SUBSET (Proc \X Tag)]
    BY <1>1
  <2> QED BY <2>1, <2>2, <2>3, <2>4 DEF TypeOK
<1>4. /\ \A k : ~Has(<< >>, k) /\ AtMostOne(<< >>, k) /\ Bodies(<< >>, k) = {}
      /\ DistinctTags(<< >>)
  BY DEF Has, AtMostOne, Bodies, DistinctTags
<1>5. DoneInv
  <2>1. (NProcs - 1) * 0 + 0 = 0
    BY ProcFacts
  <2>2. \A p, q \in Proc : DoneFrom(p, q)
    BY <1>1, <1>4 DEF DoneFrom
  <2>3. \A p \in Proc : DoneCount(p)
    BY <1>1, <1>2, <2>1, FS_EmptySet DEF DoneCount, NoLoad
  <2> QED BY <2>2, <2>3 DEF DoneInv
<1>6. RequestInv
  <2>1. \A p \in Proc : {q \in Proc : Outstanding(p, q)} = {}
    BY <1>1 DEF Outstanding, NoLoad
  <2>2. \A p, q \in Proc : Exchange(p, q)
    BY <1>1, <1>4 DEF Exchange
  <2>3. \A p \in Proc : RemainingCount(p)
    BY <1>1, <2>1, FS_EmptySet DEF RemainingCount, NoLoad
  <2> QED BY <2>2, <2>3 DEF RequestInv
<1>7. AgeInv
  BY <1>1, <1>4 DEF AgeInv, Age, NoLoad
<1> QED BY <1>2, <1>3, <1>5, <1>6, <1>7 DEF IInv, AllAnnounced

\* Entering LoadSubgrid.
LEMMA LoadStep ==
  ASSUME IInv, NEW p \in Proc, Load(p)
  PROVE  IInv'
<1>1. PICK S \in FetchSets :
        BeginLoad(p, [q \in Proc |-> IF q \in S THEN Whole ELSE Nothing])
  BY DEF Load
<1> DEFINE w     == [q \in Proc |-> IF q \in S THEN Whole ELSE Nothing]
           peers == SendsTo(p, w)
<1>2. /\ peers \subseteq Proc /\ \A q \in peers : w[q] = Whole
      /\ Whole \in Info /\ Whole # Nothing
  BY RoundsAssumption, BodyAssumption DEF SendsTo, Whole
<1>3. /\ ~ld[p].active
      /\ round' = [round EXCEPT ![p] = @ + 1] /\ heard' = heard
      /\ round[p] < MaxRounds
  BY <1>1 DEF Load, BeginLoad
<1>4. net' = [net EXCEPT ![p] = [d \in Proc |-> IF d \in peers
                                                THEN Append(net[p][d], Request(w[d]))
                                                ELSE net[p][d]]]
  BY <1>1 DEF BeginLoad
<1>5. ld' = [ld EXCEPT ![p] =
               [active |-> TRUE,
                want |-> [q \in Proc |-> IF q \in peers THEN w[q] ELSE Nothing],
                remaining |-> Cardinality(peers), done |-> 0, doneSent |-> FALSE,
                sg |-> [q \in Proc |-> Nothing]]]
  BY <1>1 DEF BeginLoad
<1> HIDE DEF w, peers
<1>6. /\ net \in [Proc -> [Proc -> Seq(Message)]] /\ ld \in [Proc -> LoadState]
      /\ round \in [Proc -> 0 .. MaxRounds] /\ MaxRounds \in Nat
      /\ heard \in [Proc -> SUBSET (Proc \X Tag)]
  BY RoundsAssumption DEF IInv, TypeOK
<1>7. Request(Whole) \in Message /\ Request(Whole).kind = "FETCH_REQUEST"
  BY <1>2 DEF Request, Message
\* The channels: only p's requests are new.
<1>8. ASSUME NEW s \in Proc, NEW d \in Proc
      PROVE  /\ net'[s][d] \in Seq(Message)
             /\ \A k : k # "FETCH_REQUEST" =>
                  /\ Has(net'[s][d], k) <=> Has(net[s][d], k)
                  /\ AtMostOne(net[s][d], k) => AtMostOne(net'[s][d], k)
                  /\ Bodies(net'[s][d], k) = Bodies(net[s][d], k)
             /\ DistinctTags(net[s][d]) => DistinctTags(net'[s][d])
             /\ s # p \/ d \notin peers => net'[s][d] = net[s][d]
             /\ s = p /\ d \in peers =>
                  /\ Has(net'[s][d], "FETCH_REQUEST")
                  /\ ~Has(net[s][d], "FETCH_REQUEST")
                       => AtMostOne(net'[s][d], "FETCH_REQUEST")
  <2>1. net[s][d] \in Seq(Message)
    BY <1>6
  <2>2. CASE s = p /\ d \in peers
    <3>1. net'[s][d] = Append(net[s][d], Request(Whole))
      BY <1>2, <1>4, <1>6, <2>2
    <3>2. /\ \A k : Has(net'[s][d], k) <=> Has(net[s][d], k) \/ k = "FETCH_REQUEST"
          /\ \A k : AtMostOne(net[s][d], k)
                      /\ (k = "FETCH_REQUEST" => ~Has(net[s][d], k))
                    => AtMostOne(net'[s][d], k)
          /\ \A k : Bodies(net'[s][d], k) = Bodies(net[s][d], k)
                      \cup (IF k = "FETCH_REQUEST" THEN {Request(Whole).body} ELSE {})
          /\ DistinctTags(net[s][d]) => DistinctTags(net'[s][d])
          /\ net'[s][d] \in Seq(Message)
      BY <2>1, <3>1, <1>7, AppendFacts
    <3>3. ~Has(net[s][d], "FETCH_REQUEST") => AtMostOne(net[s][d], "FETCH_REQUEST")
      BY DEF AtMostOne, Has
    <3>4. ASSUME NEW k, k # "FETCH_REQUEST"
          PROVE  /\ Has(net'[s][d], k) <=> Has(net[s][d], k)
                 /\ AtMostOne(net[s][d], k) => AtMostOne(net'[s][d], k)
                 /\ Bodies(net'[s][d], k) = Bodies(net[s][d], k)
      BY <3>2, <3>4
    <3>5. Has(net'[s][d], "FETCH_REQUEST")
      BY <3>2
    <3>6. ~Has(net[s][d], "FETCH_REQUEST") => AtMostOne(net'[s][d], "FETCH_REQUEST")
      BY <3>2, <3>3
    <3> QED BY <2>2, <3>2, <3>4, <3>5, <3>6
  <2>3. CASE ~(s = p /\ d \in peers)
    <3>1. net'[s][d] = net[s][d]
      BY <1>4, <1>6, <2>3
    <3> QED BY <2>1, <2>3, <3>1
  <2> QED BY <2>2, <2>3
<1>9. \A q \in Proc : /\ Completed(q)' = Completed(q)
                      /\ SentDone(q)' = SentDone(q)
  <2>1. \A q \in Proc : q # p => ld'[q] = ld[q] /\ round'[q] = round[q]
    BY <1>3, <1>5
  <2>2. ld'[p].active /\ ~ld'[p].doneSent /\ round'[p] = round[p] + 1
    BY <1>3, <1>5, <1>6
  <2>3. Completed(p)' = Completed(p) /\ SentDone(p)' = SentDone(p)
    <3>1. ~ld[p].active /\ round[p] \in Nat /\ (round[p] + 1) - 1 = round[p]
      BY <1>3, <1>6
    <3>2. Completed(p) = round[p] /\ SentDone(p) = Completed(p) + 0
      BY ONLY <3>1 DEF Completed, SentDone
    <3>3. Completed(p)' = round[p] /\ SentDone(p)' = Completed(p)' + 0
      BY ONLY <2>2, <3>1 DEF Completed, SentDone
    <3> QED BY <3>2, <3>3
  <2> QED BY <2>1, <2>3 DEF Completed, SentDone
<1>10. /\ \A q \in Proc : Outstanding(p, q)' <=> q \in peers
       /\ \A r, q \in Proc : r # p => (Outstanding(r, q)' <=> Outstanding(r, q))
  BY <1>2, <1>5, <1>6 DEF Outstanding
<1>11. \A q \in Proc : /\ ~Has(net[p][q], "FETCH_REQUEST")
                       /\ ~Has(net[q][p], "FETCH_REPLY")
  BY <1>3, NothingOutstanding DEF IInv, RequestInv, RemainingCount
<1>12. TypeOK'
  <2>1. ld' \in [Proc -> LoadState]
    BY <1>2, <1>5, <1>6, ProcFacts DEF LoadState
  <2>2. round' \in [Proc -> 0 .. MaxRounds]
    BY <1>3, <1>6
  <2>3. net' \in [Proc -> [Proc -> Seq(Message)]]
    <3>1. net' \in [Proc -> [Proc -> Seq(Message)]] <=>
            \A s, d \in Proc : net'[s][d] \in Seq(Message)
      BY <1>4, <1>6
    <3> QED BY <3>1, <1>8
  <2> QED BY <1>3, <1>6, <2>1, <2>2, <2>3 DEF TypeOK
<1>13. DoneInv'
  <2>1. ASSUME NEW r \in Proc PROVE DoneCount(r)'
    <3>1. heard'[r] = heard[r] /\ Completed(r)' = Completed(r) /\ DoneCount(r)
      BY <1>3, <1>9 DEF IInv, DoneInv
    <3>2. Counted(r)' = Counted(r) /\ (ld'[r].active => round'[r] > 0)
      BY <3>1, <1>3, <1>5, <1>6 DEF Counted, DoneCount
    <3> QED BY <3>1, <3>2 DEF DoneCount
  <2>2. ASSUME NEW r \in Proc, NEW q \in Proc PROVE DoneFrom(r, q)'
    <3>1. DoneFrom(r, q) /\ heard'[r] = heard[r] /\ SentDone(q)' = SentDone(q)
      BY <1>3, <1>9 DEF IInv, DoneInv
    <3>2. Bodies(net'[q][r], "DONE") = Bodies(net[q][r], "DONE")
      BY <1>8
    <3>3. DistinctTags(net'[q][r])
      BY <1>8, <3>1 DEF DoneFrom
    <3> QED BY <3>1, <3>2, <3>3 DEF DoneFrom
  <2> QED BY <2>1, <2>2 DEF DoneInv
<1>14. AllAnnounced'
  BY <1>9 DEF IInv, AllAnnounced
<1>15. RequestInv'
  <2>1. ASSUME NEW r \in Proc, NEW q \in Proc PROVE Exchange(r, q)'
    <3>1. Exchange(r, q)
      BY DEF IInv, RequestInv
    <3>2. /\ Has(net'[q][r], "FETCH_REPLY") <=> Has(net[q][r], "FETCH_REPLY")
          /\ AtMostOne(net'[q][r], "FETCH_REPLY")
      BY <1>8, <3>1 DEF Exchange
    <3>3. CASE r = p
      <4>1. ~Has(net[p][q], "FETCH_REQUEST") /\ ~Has(net[q][p], "FETCH_REPLY")
        BY <1>11
      <4>2. CASE q \in peers
        BY <4>1, <4>2, <3>1, <3>2, <3>3, <1>8, <1>10 DEF Exchange
      <4>3. CASE q \notin peers
        BY <4>1, <4>3, <3>1, <3>2, <3>3, <1>8, <1>10 DEF Exchange
      <4> QED BY <4>2, <4>3
    <3>4. CASE r # p
      BY <3>1, <3>2, <3>4, <1>8, <1>10 DEF Exchange
    <3> QED BY <3>3, <3>4
  <2>2. ASSUME NEW r \in Proc PROVE RemainingCount(r)'
    <3>1. CASE r = p
      <4>1. {q \in Proc : Outstanding(r, q)'} = peers
        BY <1>2, <1>10, <3>1
      <4> QED BY <4>1, <3>1, <1>5, <1>6 DEF RemainingCount
    <3>2. CASE r # p
      <4>1. {q \in Proc : Outstanding(r, q)'} = {q \in Proc : Outstanding(r, q)}
        BY <1>10, <3>2
      <4> QED BY <4>1, <3>2, <1>5, <1>6 DEF IInv, RequestInv, RemainingCount
    <3> QED BY <3>1, <3>2
  <2> QED BY <2>1, <2>2 DEF RequestInv
<1>16. AgeInv'
  <2>1. ASSUME NEW r \in Proc, NEW q \in Proc PROVE Age(r, q)'
    <3>1. Bodies(net'[q][r], "FETCH_REPLY") = Bodies(net[q][r], "FETCH_REPLY")
      BY <1>8
    <3>2. CASE r = p
      <4>1. Bodies(net'[q][r], "FETCH_REPLY") = {}
        BY <3>1, <3>2, <1>11, BodiesHas
      <4> QED BY <4>1, <3>2, <1>5, <1>6 DEF Age
    <3>3. CASE r # p
      BY <3>1, <3>3, <1>3, <1>5, <1>6 DEF IInv, AgeInv, Age
    <3> QED BY <3>2, <3>3
  <2> QED BY <2>1 DEF AgeInv
<1> QED BY <1>12, <1>13, <1>14, <1>15, <1>16 DEF IInv

\* Announcing DONE: the tag is the number of DONEs announced so far, plus one.
LEMMA AnnounceStep ==
  ASSUME IInv, NEW p \in Proc, Announce(p)
  PROVE  IInv'
<1> DEFINE m == Done(round[p])
<1>1. /\ ld[p].active /\ ld[p].remaining = 0 /\ ~ld[p].doneSent
      /\ net' = [net EXCEPT ![p] = [d \in DOMAIN net[p] |->
                                      IF d \in Proc \ {p} THEN Append(net[p][d], m)
                                      ELSE net[p][d]]]
      /\ ld' = [ld EXCEPT ![p].done = @ + 1, ![p].doneSent = TRUE]
      /\ round' = round /\ heard' = heard
  BY DEF Announce, AnnounceDone, MayAnnounce, Multicast
<1>2. /\ net \in [Proc -> [Proc -> Seq(Message)]] /\ ld \in [Proc -> LoadState]
      /\ round \in [Proc -> 0 .. MaxRounds] /\ MaxRounds \in Nat
      /\ heard \in [Proc -> SUBSET (Proc \X Tag)]
  BY RoundsAssumption DEF IInv, TypeOK
<1>3. round[p] > 0 /\ round[p] \in Tag
  BY <1>1, <1>2, RoundsAssumption DEF IInv, DoneInv, DoneCount
<1>4. m \in Message /\ m.kind = "DONE" /\ m.body = round[p]
  BY <1>3 DEF Done, Message
<1> HIDE DEF m
<1>5. /\ \A q \in Proc : Completed(q)' = Completed(q)
      /\ \A q \in Proc : q # p => SentDone(q)' = SentDone(q)
      /\ SentDone(p) = round[p] - 1 /\ SentDone(p)' = round[p]
  <2>1. \A q \in Proc : q # p => ld'[q] = ld[q]
    BY <1>1, <1>2
  <2>2. ld'[p].active /\ ld'[p].doneSent
    BY <1>1, <1>2 DEF LoadState
  <2> QED BY <2>1, <2>2, <1>1, <1>2 DEF Completed, SentDone
<1>6. \A r, q \in Proc : (Outstanding(r, q)' <=> Outstanding(r, q)) /\ ld'[r].sg = ld[r].sg
                         /\ ld'[r].remaining = ld[r].remaining
                         /\ ld'[r].active = ld[r].active
  BY <1>1, <1>2 DEF Outstanding, LoadState
\* The channels: p's DONE is new, with a tag that was not in use.
<1>7. ASSUME NEW s \in Proc, NEW d \in Proc
      PROVE  /\ net'[s][d] \in Seq(Message)
             /\ \A k : k # "DONE" =>
                  /\ Has(net'[s][d], k) <=> Has(net[s][d], k)
                  /\ AtMostOne(net[s][d], k) => AtMostOne(net'[s][d], k)
                  /\ Bodies(net'[s][d], k) = Bodies(net[s][d], k)
             /\ DistinctTags(net'[s][d])
             /\ Bodies(net'[s][d], "DONE") = Bodies(net[s][d], "DONE") \cup
                  (IF s = p /\ d # p THEN {round[p]} ELSE {})
             /\ s # p => net'[s][d] = net[s][d]
  <2>1. net[s][d] \in Seq(Message) /\ DOMAIN net[s] = Proc /\ DOMAIN net = Proc
    BY <1>2
  <2>2. DistinctTags(net[s][d])
    BY DEF IInv, DoneInv, DoneFrom
  <2>3. CASE s = p /\ d # p
    <3>1. net'[s][d] = Append(net[s][d], m)
      BY <1>1, <2>1, <2>3
    <3>2. round[p] \notin Bodies(net[s][d], "DONE")
      <4>1. \A t \in Bodies(net[p][d], "DONE") : t <= SentDone(p)
        BY DEF IInv, DoneInv, DoneFrom
      <4> QED BY <4>1, <2>3, <1>2, <1>5
    <3>3. /\ \A k : Has(net'[s][d], k) <=> Has(net[s][d], k) \/ m.kind = k
          /\ \A k : AtMostOne(net[s][d], k) /\ (m.kind = k => ~Has(net[s][d], k))
                    => AtMostOne(net'[s][d], k)
          /\ \A k : Bodies(net'[s][d], k)
                      = Bodies(net[s][d], k) \cup (IF m.kind = k THEN {m.body} ELSE {})
          /\ DistinctTags(net'[s][d])
          /\ net'[s][d] \in Seq(Message)
      BY <2>1, <2>2, <3>1, <3>2, <1>4, AppendFacts
    <3>4. ASSUME NEW k, k # "DONE"
          PROVE  /\ Has(net'[s][d], k) <=> Has(net[s][d], k)
                 /\ AtMostOne(net[s][d], k) => AtMostOne(net'[s][d], k)
                 /\ Bodies(net'[s][d], k) = Bodies(net[s][d], k)
      BY <3>3, <3>4, <1>4
    <3>5. Bodies(net'[s][d], "DONE") = Bodies(net[s][d], "DONE") \cup {round[p]}
      BY <3>3, <1>4
    <3> QED BY <2>3, <3>3, <3>4, <3>5
  <2>4. CASE ~(s = p /\ d # p)
    <3>1. net'[s][d] = net[s][d]
      BY <1>1, <2>1, <2>4
    <3> QED BY <2>1, <2>2, <2>4, <3>1
  <2> QED BY <2>3, <2>4
<1>8. TypeOK'
  <2>1. ld' \in [Proc -> LoadState]
    <3>1. ld[p].done + 1 \in Nat /\ ld[p] \in LoadState
      BY <1>2, LoadStateEdits
    <3>2. [ld[p] EXCEPT !.done = ld[p].done + 1] \in LoadState
      BY <3>1, LoadStateEdits
    <3>3. [ld[p] EXCEPT !.done = @ + 1, !.doneSent = TRUE] \in LoadState
      BY <3>1, <3>2, LoadStateEdits
    <3> QED BY <3>3, <1>1, <1>2
  <2>2. net' \in [Proc -> [Proc -> Seq(Message)]] <=>
          \A s, d \in Proc : net'[s][d] \in Seq(Message)
    BY <1>1, <1>2
  <2> QED BY <1>1, <1>2, <1>7, <2>1, <2>2 DEF TypeOK
<1>9. DoneInv'
  <2>1. ASSUME NEW r \in Proc PROVE DoneCount(r)'
    <3>1. /\ heard'[r] = heard[r] /\ Completed(r)' = Completed(r) /\ DoneCount(r)
          /\ ld'[r].active = ld[r].active
      BY <1>1, <1>5, <1>6 DEF IInv, DoneInv
    <3>2. Counted(r)' = Counted(r)
      BY <1>1, <1>2 DEF Counted, LoadState
    <3> QED BY <3>1, <3>2, <1>1 DEF DoneCount
  <2>2. ASSUME NEW r \in Proc, NEW q \in Proc PROVE DoneFrom(r, q)'
    <3>1. DoneFrom(r, q) /\ heard'[r] = heard[r]
      BY <1>1 DEF IInv, DoneInv
    <3>2. CASE q = p
      <4>1. \A t \in Bodies(net[q][r], "DONE") :
              t \in Tag /\ t <= round[p] - 1 /\ q # r /\ <<q, t>> \notin heard[r]
        <5>1. \A t \in Bodies(net[q][r], "DONE") : t \in Tag
          BY <1>2, DoneBodies
        <5> QED BY <5>1, <3>1, <3>2, <1>5 DEF DoneFrom
      <4>2. \A t \in Tag : <<q, t>> \in heard[r] => t <= round[p] - 1 /\ q # r
        BY <3>1, <3>2, <1>5 DEF DoneFrom
      <4>3. round[p] \in Nat /\ \A t \in Tag : t \in Nat
        BY <1>2, RoundsAssumption
      <4>4. <<q, round[p]>> \notin heard[r]
        BY <4>2, <4>3, <1>3
      <4>5. \A t \in Bodies(net'[q][r], "DONE") :
              t <= round[p] /\ q # r /\ <<q, t>> \notin heard[r]
        <5>1. Bodies(net'[q][r], "DONE") = Bodies(net[q][r], "DONE") \cup
                (IF r # p THEN {round[p]} ELSE {})
          BY <1>7, <3>2
        <5> QED BY <5>1, <4>1, <4>3, <4>4, <3>2
      <4>6. \A t \in Tag : <<q, t>> \in heard[r] => t <= round[p] /\ q # r
        BY <4>2, <4>3
      <4> QED BY <4>5, <4>6, <3>1, <3>2, <1>5, <1>7 DEF DoneFrom
    <3>3. CASE q # p
      <4>1. Bodies(net'[q][r], "DONE") = Bodies(net[q][r], "DONE")
        BY <1>7, <3>3
      <4>2. DistinctTags(net'[q][r]) /\ SentDone(q)' = SentDone(q)
        BY <1>5, <1>7, <3>3
      <4> QED BY <3>1, <4>1, <4>2 DEF DoneFrom
    <3> QED BY <3>2, <3>3
  <2> QED BY <2>1, <2>2 DEF DoneInv
<1>10. AllAnnounced'
  <2> SUFFICES ASSUME NEW r \in Proc, NEW q \in Proc
               PROVE  Completed(r)' <= SentDone(q)'
    BY DEF AllAnnounced
  <2>1. Completed(r) <= SentDone(q)
    BY DEF IInv, AllAnnounced
  <2>2. Completed(r) \in Nat /\ SentDone(q) \in Nat /\ round[p] \in Nat
    BY CounterFacts
  <2>3. q = p => Completed(r) <= round[p]
    BY <2>1, <2>2, <1>5
  <2> QED BY <2>1, <2>3, <1>5
<1>11. RequestInv'
  <2>1. ASSUME NEW r \in Proc, NEW q \in Proc PROVE Exchange(r, q)'
    <3>1. Exchange(r, q)
      BY DEF IInv, RequestInv
    <3>2. /\ Has(net'[r][q], "FETCH_REQUEST") <=> Has(net[r][q], "FETCH_REQUEST")
          /\ AtMostOne(net[r][q], "FETCH_REQUEST") => AtMostOne(net'[r][q], "FETCH_REQUEST")
      BY <1>7
    <3>3. /\ Has(net'[q][r], "FETCH_REPLY") <=> Has(net[q][r], "FETCH_REPLY")
          /\ AtMostOne(net[q][r], "FETCH_REPLY") => AtMostOne(net'[q][r], "FETCH_REPLY")
      BY <1>7
    <3>4. Outstanding(r, q)' <=> Outstanding(r, q)
      BY <1>6
    <3> QED BY <3>1, <3>2, <3>3, <3>4 DEF Exchange
  <2>2. ASSUME NEW r \in Proc PROVE RemainingCount(r)'
    <3>1. {q \in Proc : Outstanding(r, q)'} = {q \in Proc : Outstanding(r, q)}
      BY <1>6
    <3>2. r # p => ld'[r] = ld[r]
      BY <1>1, <1>2
    <3> QED BY <3>1, <3>2, <1>1, <1>6 DEF IInv, RequestInv, RemainingCount
  <2> QED BY <2>1, <2>2 DEF RequestInv
<1>12. AgeInv'
  <2>1. ASSUME NEW r \in Proc, NEW q \in Proc PROVE Age(r, q)'
    <3>1. Bodies(net'[q][r], "FETCH_REPLY") = Bodies(net[q][r], "FETCH_REPLY")
      BY <1>7
    <3> QED BY <3>1, <1>1, <1>6 DEF IInv, AgeInv, Age
  <2> QED BY <2>1 DEF AgeInv
<1> QED BY <1>8, <1>9, <1>10, <1>11, <1>12 DEF IInv

\* Counting a DONE: it is one that p has not heard before.
LEMMA CountDoneStep ==
  ASSUME IInv, NEW p \in Proc, NEW q \in Proc, CountDone(p, q)
  PROVE  IInv'
<1> DEFINE t == Oldest(net, q, p).body
<1>1. /\ Pending(net, q, p) /\ Oldest(net, q, p).kind = "DONE"
      /\ ld[p].active
      /\ net' = Drop(net, q, p)
      /\ ld' = [ld EXCEPT ![p].done = @ + 1]
      /\ round' = round
      /\ heard' = [heard EXCEPT ![p] = @ \cup {<<q, t>>}]
  BY DEF CountDone, RecvDone, Hears, Listening
<1>2. /\ net \in Nets /\ ld \in [Proc -> LoadState]
      /\ round \in [Proc -> 0 .. MaxRounds]
      /\ heard \in [Proc -> SUBSET (Proc \X Tag)]
      /\ Tag \subseteq Nat /\ IsFiniteSet(Proc \X Tag)
  <2>1. IsFiniteSet(Tag)
    BY FS_Interval, RoundsAssumption
  <2>2. IsFiniteSet(Proc \X Tag)
    BY <2>1, ProcFacts, FS_Product
  <2> QED BY <2>2, RoundsAssumption DEF IInv, TypeOK, Nets
<1>3. /\ net' \in Nets
      /\ net'[q][p] = Tail(net[q][p])
      /\ \A a, b \in Proc : a # q \/ b # p => net'[a][b] = net[a][b]
      /\ net[q][p] \in Seq(Message) /\ net[q][p] # << >>
      /\ Head(net[q][p]).kind = "DONE" /\ Head(net[q][p]).body = t
  BY <1>1, <1>2, DropFacts
\* The channels: a DONE is gone.
<1>4. ASSUME NEW a \in Proc, NEW b \in Proc
      PROVE  /\ \A k : Has(net'[a][b], k) => Has(net[a][b], k)
             /\ \A k : AtMostOne(net[a][b], k) => AtMostOne(net'[a][b], k)
             /\ \A k : Bodies(net'[a][b], k) \subseteq Bodies(net[a][b], k)
             /\ DistinctTags(net[a][b]) => DistinctTags(net'[a][b])
  BY <1>3, TailFacts
<1>5. /\ t \in Bodies(net[q][p], "DONE") /\ t \in Tag
      /\ DistinctTags(net[q][p]) => t \notin Bodies(net'[q][p], "DONE")
  BY <1>3, TailFacts, DoneBodies
<1>6. /\ \A r, s \in Proc : (Outstanding(r, s)' <=> Outstanding(r, s))
      /\ \A r \in Proc : /\ ld'[r].sg = ld[r].sg
                         /\ ld'[r].remaining = ld[r].remaining
                         /\ ld'[r].active = ld[r].active
                         /\ ld'[r].doneSent = ld[r].doneSent
  BY <1>1, <1>2 DEF Outstanding, LoadState
<1>7. \A r \in Proc : Completed(r)' = Completed(r) /\ SentDone(r)' = SentDone(r)
  BY <1>1, <1>6 DEF Completed, SentDone
<1>8. t <= SentDone(q) /\ q # p /\ <<q, t>> \notin heard[p] /\ DistinctTags(net[q][p])
  BY <1>5 DEF IInv, DoneInv, DoneFrom
<1>9. TypeOK'
  <2>1. ld' \in [Proc -> LoadState]
    <3>1. ld[p] \in LoadState /\ ld[p].done + 1 \in Nat
      BY <1>2, LoadStateEdits
    <3>2. [ld[p] EXCEPT !.done = @ + 1] \in LoadState
      BY <3>1, LoadStateEdits
    <3> QED BY <3>2, <1>1, <1>2
  <2>2. heard' \in [Proc -> SUBSET (Proc \X Tag)]
    BY <1>1, <1>2, <1>5
  <2> QED BY <1>1, <1>2, <1>3, <2>1, <2>2 DEF TypeOK, Nets
<1>10. DoneInv'
  <2>1. ASSUME NEW r \in Proc PROVE DoneCount(r)'
    <3>1. DoneCount(r) /\ Completed(r)' = Completed(r) /\ Completed(r) \in Nat
      BY <1>7, CounterFacts DEF IInv, DoneInv
    <3>2. CASE r = p
      <4>1. Cardinality(heard'[p]) = Cardinality(heard[p]) + 1
        <5>1. heard'[p] = heard[p] \cup {<<q, t>>} /\ IsFiniteSet(heard[p])
          BY <1>1, <1>2, FS_Subset
        <5> QED BY <5>1, <1>8, FS_AddElement
      <4>2. ld'[p].done = ld[p].done + 1 /\ ld[p].done \in Nat
        BY <1>1, <1>2, LoadStateEdits
      <4>3. Counted(p)' = Counted(p) + 1 /\ Counted(p) \in Int
        BY <4>2, <1>1, <1>6 DEF Counted
      <4>4. (NProcs - 1) * Completed(p) \in Int
        BY <3>1, <3>2, ProcFacts
      <4>5. Cardinality(heard[p]) = (NProcs - 1) * Completed(p) + Counted(p)
        BY <3>1, <3>2 DEF DoneCount
      <4>6. Cardinality(heard'[p]) = (NProcs - 1) * Completed(p) + Counted(p)'
        BY <4>1, <4>3, <4>4, <4>5
      <4> QED BY <4>6, <3>1, <3>2, <1>1, <1>6 DEF DoneCount
    <3>3. CASE r # p
      <4>1. heard'[r] = heard[r] /\ ld'[r] = ld[r] /\ round'[r] = round[r]
        BY <1>1, <1>2, <3>3
      <4> QED BY <3>1, <4>1 DEF DoneCount, Counted
    <3> QED BY <3>2, <3>3
  <2>2. ASSUME NEW r \in Proc, NEW s \in Proc PROVE DoneFrom(r, s)'
    <3>1. DoneFrom(r, s) /\ SentDone(s)' = SentDone(s)
      BY <1>7 DEF IInv, DoneInv
    <3>2. /\ DistinctTags(net'[s][r])
          /\ Bodies(net'[s][r], "DONE") \subseteq Bodies(net[s][r], "DONE")
      BY <1>4, <3>1 DEF DoneFrom
    <3>3. \A u : <<s, u>> \in heard'[r] =>
                   <<s, u>> \in heard[r] \/ (r = p /\ s = q /\ u = t)
      BY <1>1, <1>2
    <3>4. \A u \in Bodies(net'[s][r], "DONE") : ~(r = p /\ s = q /\ u = t)
      BY <1>5, <1>8
    <3>5. \A u \in Bodies(net'[s][r], "DONE") :
            u <= SentDone(s)' /\ s # r /\ <<s, u>> \notin heard'[r]
      BY <3>1, <3>2, <3>3, <3>4 DEF DoneFrom
    <3>6. \A u \in Tag : <<s, u>> \in heard'[r] => u <= SentDone(s)' /\ s # r
      BY <3>1, <3>3, <1>8 DEF DoneFrom
    <3> QED BY <3>2, <3>5, <3>6 DEF DoneFrom
  <2> QED BY <2>1, <2>2 DEF DoneInv
<1>11. AllAnnounced'
  BY <1>7 DEF IInv, AllAnnounced
<1>12. RequestInv'
  <2>1. ASSUME NEW r \in Proc, NEW s \in Proc PROVE Exchange(r, s)'
    BY <1>4, <1>6 DEF IInv, RequestInv, Exchange
  <2>2. ASSUME NEW r \in Proc PROVE RemainingCount(r)'
    <3>1. {s \in Proc : Outstanding(r, s)'} = {s \in Proc : Outstanding(r, s)}
      BY <1>6
    <3> QED BY <3>1, <1>6 DEF IInv, RequestInv, RemainingCount
  <2> QED BY <2>1, <2>2 DEF RequestInv
<1>13. AgeInv'
  BY <1>1, <1>4, <1>6 DEF IInv, AgeInv, Age
<1> QED BY <1>9, <1>10, <1>11, <1>12, <1>13 DEF IInv

\* Serving a request: the one request of q becomes the one reply to q.
LEMMA ServeStep ==
  ASSUME IInv, NEW p \in Proc, NEW q \in Proc, Serve(p, q)
  PROVE  IInv'
<1> DEFINE m  == Reply(Content(p))
           n1 == Drop(net, q, p)
           n2 == Reallocate(n1, p)
<1>1. /\ Pending(net, q, p) /\ Oldest(net, q, p).kind = "FETCH_REQUEST"
      /\ ld[p].active
      /\ net' = Put(n2, p, q, m)
      /\ ld' = ld /\ round' = round /\ heard' = heard
  BY DEF Serve, HandleFetchRequest, Hears, Listening
<1>2. net \in Nets /\ m \in Message /\ m.kind = "FETCH_REPLY" /\ m.body = round[p]
  <2>1. Content(p) \in Data /\ Content(p) = round[p]
    BY <1>1, ContentIsData DEF Content
  <2> QED BY <2>1 DEF IInv, TypeOK, Nets, Reply, Message
<1> HIDE DEF m
<1>3. /\ n1 \in Nets /\ n1[q][p] = Tail(net[q][p])
      /\ \A a, b \in Proc : a # q \/ b # p => n1[a][b] = net[a][b]
      /\ net[q][p] \in Seq(Message) /\ net[q][p] # << >>
      /\ Head(net[q][p]).kind = "FETCH_REQUEST"
  BY <1>1, <1>2, DropFacts
<1> HIDE DEF n1
<1>4. n2 \in Nets /\ \A a, b \in Proc : n2[a][b] \in {n1[a][b], Spoil(n1[a][b])}
  BY <1>3, ReallocateFacts
<1> HIDE DEF n2
<1>5. /\ net' \in Nets /\ net'[p][q] = Append(n2[p][q], m)
      /\ \A a, b \in Proc : a # p \/ b # q => net'[a][b] = n2[a][b]
  <2>1. /\ Put(n2, p, q, m) \in Nets /\ Put(n2, p, q, m)[p][q] = Append(n2[p][q], m)
        /\ \A a, b \in Proc : a # p \/ b # q => Put(n2, p, q, m)[a][b] = n2[a][b]
    BY <1>2, <1>4, PutFacts
  <2> QED BY <1>1, <2>1
<1>6. Has(net[q][p], "FETCH_REQUEST") /\ ~Has(n1[q][p], "FETCH_REQUEST")
  <2>1. AtMostOne(net[q][p], "FETCH_REQUEST")
    BY DEF IInv, RequestInv, Exchange
  <2> QED BY <2>1, <1>3, TailFacts
<1>7. Outstanding(q, p) /\ ~Has(net[p][q], "FETCH_REPLY")
  BY <1>6 DEF IInv, RequestInv, Exchange
\* The channels, step by step.
<1>8. ASSUME NEW a \in Proc, NEW b \in Proc
      PROVE  /\ n1[a][b] \in Seq(Message)
             /\ \A k : Has(n1[a][b], k) => Has(net[a][b], k)
             /\ \A k : AtMostOne(net[a][b], k) => AtMostOne(n1[a][b], k)
             /\ \A k : Bodies(n1[a][b], k) \subseteq Bodies(net[a][b], k)
             /\ DistinctTags(net[a][b]) => DistinctTags(n1[a][b])
  <2>1. n1[a][b] \in Seq(Message)
    BY <1>3 DEF Nets
  <2> QED BY <2>1, <1>3, TailFacts
<1>9. ASSUME NEW a \in Proc, NEW b \in Proc
      PROVE  /\ n2[a][b] \in Seq(Message)
             /\ \A k : Has(n2[a][b], k) <=> Has(n1[a][b], k)
             /\ \A k : AtMostOne(n1[a][b], k) => AtMostOne(n2[a][b], k)
             /\ Bodies(n2[a][b], "DONE") \subseteq Bodies(n1[a][b], "DONE")
             /\ Bodies(n2[a][b], "FETCH_REPLY") \subseteq
                  Bodies(n1[a][b], "FETCH_REPLY") \cup {Garbage}
             /\ DistinctTags(n1[a][b]) => DistinctTags(n2[a][b])
  <2>1. n1[a][b] \in Seq(Message) /\ n2[a][b] \in {n1[a][b], Spoil(n1[a][b])}
    BY <1>4, <1>8
  <2>2. Bodies(Spoil(n1[a][b]), "FETCH_REPLY") \subseteq {Garbage}
        /\ Bodies(Spoil(n1[a][b]), "DONE") \subseteq Bodies(n1[a][b], "DONE")
    BY <2>1, SpoilFacts
  <2>3. CASE n2[a][b] = n1[a][b]
    BY <2>1, <2>3
  <2>4. CASE n2[a][b] = Spoil(n1[a][b])
    BY <2>1, <2>2, <2>4, SpoilFacts
  <2> QED BY <2>1, <2>3, <2>4
<1>10. ASSUME NEW a \in Proc, NEW b \in Proc
       PROVE  /\ DistinctTags(net'[a][b])
              /\ Bodies(net'[a][b], "DONE") \subseteq Bodies(net[a][b], "DONE")
              /\ AtMostOne(net'[a][b], "FETCH_REQUEST")
              /\ AtMostOne(net'[a][b], "FETCH_REPLY")
              /\ Has(net'[a][b], "FETCH_REQUEST") =>
                   Has(net[a][b], "FETCH_REQUEST") /\ ~(a = q /\ b = p)
              /\ Has(net'[a][b], "FETCH_REPLY") =>
                   Has(net[a][b], "FETCH_REPLY") \/ (a = p /\ b = q)
              /\ Bodies(net'[a][b], "FETCH_REPLY") \subseteq
                   Bodies(net[a][b], "FETCH_REPLY") \cup {Garbage}
                     \cup {x \in {round[p]} : a = p /\ b = q}
  <2>1. /\ AtMostOne(net[a][b], "FETCH_REQUEST") /\ AtMostOne(net[a][b], "FETCH_REPLY")
        /\ DistinctTags(net[a][b])
    BY DEF IInv, RequestInv, Exchange, DoneInv, DoneFrom
  <2>2. /\ AtMostOne(n2[a][b], "FETCH_REQUEST") /\ AtMostOne(n2[a][b], "FETCH_REPLY")
        /\ DistinctTags(n2[a][b])
        /\ Bodies(n2[a][b], "DONE") \subseteq Bodies(net[a][b], "DONE")
        /\ Bodies(n2[a][b], "FETCH_REPLY") \subseteq
             Bodies(net[a][b], "FETCH_REPLY") \cup {Garbage}
        /\ \A k : Has(n2[a][b], k) => Has(net[a][b], k)
        /\ Has(n2[a][b], "FETCH_REQUEST") => ~(a = q /\ b = p)
    BY <2>1, <1>6, <1>8, <1>9
  <2>3. CASE a = p /\ b = q
    <3>1. net'[a][b] = Append(n2[a][b], m) /\ n2[a][b] \in Seq(Message)
      BY <1>5, <1>9, <2>3
    <3>2. /\ \A k : Has(net'[a][b], k) <=> Has(n2[a][b], k) \/ m.kind = k
          /\ \A k : AtMostOne(n2[a][b], k) /\ (m.kind = k => ~Has(n2[a][b], k))
                    => AtMostOne(net'[a][b], k)
          /\ \A k : Bodies(net'[a][b], k)
                      = Bodies(n2[a][b], k) \cup (IF m.kind = k THEN {m.body} ELSE {})
          /\ DistinctTags(n2[a][b]) /\ (m.kind = "DONE" => m.body \notin Bodies(n2[a][b], "DONE"))
               => DistinctTags(net'[a][b])
      BY <1>2, <3>1, AppendFacts
    <3>3. Bodies(net'[a][b], "DONE") = Bodies(n2[a][b], "DONE")
      BY <1>2, <3>2
    <3>4. Bodies(net'[a][b], "FETCH_REPLY") = Bodies(n2[a][b], "FETCH_REPLY") \cup {round[p]}
      BY <1>2, <3>2
    <3>5. ~Has(n2[a][b], "FETCH_REPLY")
      BY <1>7, <2>2, <2>3
    <3>6. /\ DistinctTags(net'[a][b])
          /\ AtMostOne(net'[a][b], "FETCH_REQUEST") /\ AtMostOne(net'[a][b], "FETCH_REPLY")
          /\ Has(net'[a][b], "FETCH_REQUEST") => Has(n2[a][b], "FETCH_REQUEST")
      BY <1>2, <2>2, <3>2, <3>5
    <3> QED BY <2>2, <2>3, <3>3, <3>4, <3>6
  <2>4. CASE ~(a = p /\ b = q)
    <3>1. net'[a][b] = n2[a][b]
      BY <1>5, <2>4
    <3> QED BY <2>2, <2>4, <3>1
  <2> QED BY <2>3, <2>4
<1>11. /\ \A r \in Proc : Completed(r)' = Completed(r) /\ SentDone(r)' = SentDone(r)
                          /\ Counted(r)' = Counted(r)
       /\ \A r, s \in Proc : Outstanding(r, s)' <=> Outstanding(r, s)
  BY <1>1 DEF Completed, SentDone, Counted, Outstanding
<1>12. TypeOK'
  BY <1>1, <1>5 DEF IInv, TypeOK, Nets
<1>13. DoneInv'
  <2>1. ASSUME NEW r \in Proc PROVE DoneCount(r)'
    BY <1>1, <1>11 DEF IInv, DoneInv, DoneCount
  <2>2. ASSUME NEW r \in Proc, NEW s \in Proc PROVE DoneFrom(r, s)'
    <3>1. DoneFrom(r, s) /\ heard' = heard /\ SentDone(s)' = SentDone(s)
      BY <1>1, <1>11 DEF IInv, DoneInv
    <3>2. /\ Bodies(net'[s][r], "DONE") \subseteq Bodies(net[s][r], "DONE")
          /\ DistinctTags(net[s][r]) => DistinctTags(net'[s][r])
      BY <1>10
    <3> QED BY <3>1, <3>2 DEF DoneFrom
  <2> QED BY <2>1, <2>2 DEF DoneInv
<1>14. AllAnnounced'
  BY <1>11 DEF IInv, AllAnnounced
<1>15. RequestInv'
  <2>1. ASSUME NEW r \in Proc, NEW s \in Proc PROVE Exchange(r, s)'
    BY <1>7, <1>10, <1>11 DEF IInv, RequestInv, Exchange
  <2>2. ASSUME NEW r \in Proc PROVE RemainingCount(r)'
    BY <1>1, <1>11 DEF IInv, RequestInv, RemainingCount
  <2> QED BY <2>1, <2>2 DEF RequestInv
\* Neither p nor q is more than a call ahead of the other.
<1>16. round[p] \in {round[q] - 1, round[q]}
  <2>1. ld[q].active /\ ~ld[q].doneSent
    BY <1>7, OutstandingFacts
  <2>2. Completed(q) = round[q] - 1 /\ SentDone(q) = Completed(q)
    BY <2>1, CounterFacts DEF Completed, SentDone
  <2>3. /\ Completed(p) = round[p] - 1 /\ SentDone(p) <= round[p]
        /\ round[p] \in Nat /\ round[q] \in Nat /\ SentDone(p) \in Nat
    BY <1>1, CounterFacts
  <2>4. Completed(p) <= SentDone(q) /\ Completed(q) <= SentDone(p)
    BY DEF IInv, AllAnnounced
  <2> QED BY <2>2, <2>3, <2>4
<1>17. AgeInv'
  <2>1. ASSUME NEW r \in Proc, NEW s \in Proc PROVE Age(r, s)'
    <3>1. Age(r, s)
      BY DEF IInv, AgeInv
    <3>2. \A x \in Bodies(net'[s][r], "FETCH_REPLY") :
            \/ x \in Bodies(net[s][r], "FETCH_REPLY") \cup {Garbage}
            \/ x = round[p] /\ s = p /\ r = q
      BY <1>10
    <3>3. \A x \in Bodies(net'[s][r], "FETCH_REPLY") :
            x \in {Garbage, round[r] - 1, round[r]}
      BY <1>16, <3>1, <3>2 DEF Age
    <3> QED BY <1>1, <3>1, <3>3 DEF Age
  <2> QED BY <2>1 DEF AgeInv
<1> QED BY <1>12, <1>13, <1>14, <1>15, <1>17 DEF IInv

\* Taking a reply: one part less is outstanding.
LEMMA TakeReplyStep ==
  ASSUME IInv, NEW p \in Proc, NEW q \in Proc, TakeReply(p, q)
  PROVE  IInv'
<1> DEFINE n1 == Reallocate(net, p)
           x  == Oldest(n1, q, p).body
<1>1. /\ Pending(net, q, p) /\ Oldest(net, q, p).kind = "FETCH_REPLY"
      /\ ld[p].active
      /\ net' = Drop(n1, q, p)
      /\ ld' = [ld EXCEPT ![p].sg[q] = x, ![p].remaining = @ - 1]
      /\ round' = round /\ heard' = heard
  BY DEF TakeReply, HandleFetchReply, Hears, Listening
<1>2. /\ net \in Nets /\ ld \in [Proc -> LoadState]
      /\ net[q][p] \in Seq(Message) /\ net[q][p] # << >>
      /\ Head(net[q][p]).kind = "FETCH_REPLY"
  <2>1. net \in Nets /\ ld \in [Proc -> LoadState]
    BY DEF IInv, TypeOK, Nets
  <2> QED BY <1>1, <2>1, DropFacts
<1>3. n1 \in Nets /\ \A a, b \in Proc : n1[a][b] \in {net[a][b], Spoil(net[a][b])}
  BY <1>2, ReallocateFacts
<1>4. /\ n1[q][p] \in Seq(Message) /\ n1[q][p] # << >>
      /\ Head(n1[q][p]).kind = "FETCH_REPLY"
  <2>1. n1[q][p] \in Seq(Message) /\ n1[q][p] \in {net[q][p], Spoil(net[q][p])}
    BY <1>3 DEF Nets
  <2>2. Spoil(net[q][p]) # << >> /\ Head(Spoil(net[q][p])).kind = Head(net[q][p]).kind
    BY <1>2, SpoilFacts
  <2> QED BY <1>2, <2>1, <2>2
<1>5. /\ net' \in Nets /\ net'[q][p] = Tail(n1[q][p])
      /\ \A a, b \in Proc : a # q \/ b # p => net'[a][b] = n1[a][b]
      /\ x = Head(n1[q][p]).body
  <2>1. Pending(n1, q, p)
    BY <1>4 DEF Pending
  <2> HIDE DEF n1
  <2> QED BY <1>1, <1>3, <2>1, DropFacts DEF Oldest
<1> HIDE DEF n1
\* The channels, step by step.
<1>6. ASSUME NEW a \in Proc, NEW b \in Proc
      PROVE  /\ n1[a][b] \in Seq(Message)
             /\ \A k : Has(n1[a][b], k) <=> Has(net[a][b], k)
             /\ \A k : AtMostOne(net[a][b], k) => AtMostOne(n1[a][b], k)
             /\ Bodies(n1[a][b], "DONE") \subseteq Bodies(net[a][b], "DONE")
             /\ Bodies(n1[a][b], "FETCH_REPLY") \subseteq
                  Bodies(net[a][b], "FETCH_REPLY") \cup {Garbage}
             /\ DistinctTags(net[a][b]) => DistinctTags(n1[a][b])
  <2>1. /\ net[a][b] \in Seq(Message) /\ n1[a][b] \in Seq(Message)
        /\ n1[a][b] \in {net[a][b], Spoil(net[a][b])}
    BY <1>2, <1>3 DEF Nets
  <2>2. Bodies(Spoil(net[a][b]), "FETCH_REPLY") \subseteq {Garbage}
        /\ Bodies(Spoil(net[a][b]), "DONE") \subseteq Bodies(net[a][b], "DONE")
    BY <2>1, SpoilFacts
  <2>3. CASE n1[a][b] = net[a][b]
    BY <2>1, <2>3
  <2>4. CASE n1[a][b] = Spoil(net[a][b])
    BY <2>1, <2>2, <2>4, SpoilFacts
  <2> QED BY <2>1, <2>3, <2>4
<1>7. ASSUME NEW a \in Proc, NEW b \in Proc
      PROVE  /\ \A k : Has(net'[a][b], k) => Has(net[a][b], k)
             /\ \A k : AtMostOne(net[a][b], k) => AtMostOne(net'[a][b], k)
             /\ Bodies(net'[a][b], "DONE") \subseteq Bodies(net[a][b], "DONE")
             /\ Bodies(net'[a][b], "FETCH_REPLY") \subseteq
                  Bodies(net[a][b], "FETCH_REPLY") \cup {Garbage}
             /\ DistinctTags(net[a][b]) => DistinctTags(net'[a][b])
             /\ a = q /\ b = p =>
                  (Has(net'[a][b], "FETCH_REPLY") =>
                     ~AtMostOne(net[a][b], "FETCH_REPLY"))
  <2>1. CASE a = q /\ b = p
    <3>1. /\ \A k : Has(net'[a][b], k) => Has(n1[a][b], k)
          /\ \A k : AtMostOne(n1[a][b], k) => AtMostOne(net'[a][b], k)
          /\ \A k : Bodies(net'[a][b], k) \subseteq Bodies(n1[a][b], k)
          /\ DistinctTags(n1[a][b]) => DistinctTags(net'[a][b])
          /\ AtMostOne(n1[a][b], "FETCH_REPLY") => ~Has(net'[a][b], "FETCH_REPLY")
      BY <2>1, <1>4, <1>5, TailFacts
    <3> QED BY <3>1, <1>6
  <2>2. CASE ~(a = q /\ b = p)
    BY <2>2, <1>5, <1>6
  <2> QED BY <2>1, <2>2
<1>8. /\ Has(net[q][p], "FETCH_REPLY")
      /\ Outstanding(p, q) /\ ~Has(net[p][q], "FETCH_REQUEST")
      /\ ~Has(net'[q][p], "FETCH_REPLY")
  <2>1. Has(net[q][p], "FETCH_REPLY") /\ AtMostOne(net[q][p], "FETCH_REPLY")
    BY <1>2, TailFacts DEF IInv, RequestInv, Exchange
  <2> QED BY <2>1, <1>7 DEF IInv, RequestInv, Exchange
<1>9. ~ld[p].doneSent /\ ld[p].remaining > 0 /\ ld[p].remaining \in Nat
  BY <1>2, <1>8, OutstandingFacts, LoadStateEdits
<1>10. /\ x \in Data \cup {Garbage} /\ x # Nothing
       /\ x \in {Garbage, round[p] - 1, round[p]}
  <2>1. x \in Bodies(n1[q][p], "FETCH_REPLY") /\ Head(n1[q][p]) \in Message
    BY <1>4, <1>5, TailFacts
  <2>2. x \in Data \cup {Garbage}
    BY <2>1, <1>4, <1>5 DEF Message
  <2>3. x \in {Garbage, round[p] - 1, round[p]}
    <3>1. x \in Bodies(net[q][p], "FETCH_REPLY") \cup {Garbage}
      BY <2>1, <1>6
    <3>2. Age(p, q)
      BY DEF IInv, AgeInv
    <3> QED BY <3>1, <3>2 DEF Age
  <2> QED BY <2>2, <2>3, BodyAssumption
<1> HIDE DEF x
<1>11. /\ \A r \in Proc : /\ ld'[r].active = ld[r].active /\ ld'[r].done = ld[r].done
                          /\ ld'[r].doneSent = ld[r].doneSent /\ ld'[r].want = ld[r].want
       /\ \A r \in Proc : r # p => ld'[r] = ld[r]
       /\ \A s \in Proc : s # q => ld'[p].sg[s] = ld[p].sg[s]
       /\ ld'[p].sg[q] = x /\ ld'[p].remaining = ld[p].remaining - 1
  BY <1>1, <1>2 DEF LoadState
<1>12. /\ \A r \in Proc : Completed(r)' = Completed(r) /\ SentDone(r)' = SentDone(r)
                          /\ Counted(r)' = Counted(r)
       /\ \A r, s \in Proc : Outstanding(r, s)' <=> Outstanding(r, s) /\ ~(r = p /\ s = q)
  <2>1. ASSUME NEW r \in Proc
        PROVE  Completed(r)' = Completed(r) /\ Counted(r)' = Counted(r)
    <3>1. /\ ld'[r].active = ld[r].active /\ ld'[r].done = ld[r].done
          /\ ld'[r].doneSent = ld[r].doneSent /\ round'[r] = round[r]
      BY <1>1, <1>11
    <3>2. Completed(r)' = Completed(r)
      BY <3>1 DEF Completed
    <3>3. Counted(r)' = Counted(r)
      BY <3>1 DEF Counted
    <3> QED BY <3>2, <3>3
  <2>2. \A r \in Proc : SentDone(r)' = SentDone(r)
    BY <2>1, <1>11, Zenon DEF SentDone
  <2>3. ASSUME NEW r \in Proc, NEW s \in Proc
        PROVE  Outstanding(r, s)' <=> Outstanding(r, s) /\ ~(r = p /\ s = q)
    <3>1. CASE r = p /\ s = q
      BY <3>1, <1>10, <1>11 DEF Outstanding
    <3>2. CASE ~(r = p /\ s = q)
      BY <3>2, <1>11 DEF Outstanding
    <3> QED BY <3>1, <3>2
  <2> QED BY <2>1, <2>2, <2>3
<1>13. TypeOK'
  <2>1. ld' \in [Proc -> LoadState]
    <3>1. [ld[p] EXCEPT !.sg[q] = x] \in LoadState /\ ld[p].remaining - 1 \in Nat
      <4>1. ld[p] \in LoadState /\ x \in Data \cup {Garbage, Nothing}
        BY <1>2, <1>10
      <4>2. [ld[p] EXCEPT !.sg[q] = x] \in LoadState
        BY <4>1, LoadStateEdits
      <4> QED BY <4>2, <1>9
    <3>2. [ld[p] EXCEPT !.sg[q] = x].remaining = ld[p].remaining
      BY <1>2 DEF LoadState
    <3>3. [ld[p] EXCEPT !.sg[q] = x, !.remaining = @ - 1] \in LoadState
      BY <3>1, <3>2, LoadStateEdits
    <3> QED BY <3>3, <1>1, <1>2
  <2> QED BY <2>1, <1>1, <1>5 DEF IInv, TypeOK, Nets
<1>14. DoneInv'
  <2>1. ASSUME NEW r \in Proc PROVE DoneCount(r)'
    BY <1>1, <1>11, <1>12 DEF IInv, DoneInv, DoneCount
  <2>2. ASSUME NEW r \in Proc, NEW s \in Proc PROVE DoneFrom(r, s)'
    BY <1>1, <1>7, <1>12, SMTT(30) DEF IInv, DoneInv, DoneFrom
  <2> QED BY <2>1, <2>2 DEF DoneInv
<1>15. AllAnnounced'
  BY <1>12 DEF IInv, AllAnnounced
<1>16. RequestInv'
  <2>1. ASSUME NEW r \in Proc, NEW s \in Proc PROVE Exchange(r, s)'
    BY <1>7, <1>8, <1>12 DEF IInv, RequestInv, Exchange
  <2>2. ASSUME NEW r \in Proc PROVE RemainingCount(r)'
    <3> DEFINE O == {s \in Proc : Outstanding(r, s)}
    <3>1. RemainingCount(r)
      BY DEF IInv, RequestInv
    <3>2. CASE r = p
      <4>1. {s \in Proc : Outstanding(r, s)'} = O \ {q}
        BY <1>12, <3>2
      <4>2. q \in O /\ IsFiniteSet(O)
        BY <1>8, <3>2, ProcFacts
      <4>3. Cardinality(O \ {q}) = Cardinality(O) - 1
        BY <4>2, FS_RemoveElement
      <4>4. /\ ld[r].remaining = Cardinality(O)
            /\ ~ld[r].active \/ ld[r].doneSent => ld[r].remaining = 0
        BY <3>1 DEF RemainingCount
      <4>5. ld'[r].remaining = Cardinality({s \in Proc : Outstanding(r, s)'})
        BY <3>2, <4>1, <4>3, <4>4, <1>11
      <4>6. ld[r].remaining # 0
        BY <3>2, <1>9
      <4>7. ld'[r].active /\ ~ld'[r].doneSent
        BY <4>4, <4>6, <1>11
      <4> QED BY <4>5, <4>7 DEF RemainingCount
    <3>3. CASE r # p
      <4>1. {s \in Proc : Outstanding(r, s)'} = O
        BY <1>12, <3>3
      <4> QED BY <3>1, <3>3, <4>1, <1>11 DEF RemainingCount
    <3> QED BY <3>2, <3>3
  <2> QED BY <2>1, <2>2 DEF RequestInv
<1>17. AgeInv'
  <2>1. ASSUME NEW r \in Proc, NEW s \in Proc PROVE Age(r, s)'
    <3>1. Age(r, s) /\ round'[r] = round[r]
      BY <1>1 DEF IInv, AgeInv
    <3>2. ld'[r].sg[s] \in {Nothing, Garbage, round[r] - 1, round[r]}
      BY <3>1, <1>10, <1>11 DEF Age
    <3>3. \A y \in Bodies(net'[s][r], "FETCH_REPLY") :
            y \in {Garbage, round[r] - 1, round[r]}
      BY <3>1, <1>7 DEF Age
    <3> QED BY <3>1, <3>2, <3>3 DEF Age
  <2> QED BY <2>1 DEF AgeInv
<1> QED BY <1>13, <1>14, <1>15, <1>16, <1>17 DEF IInv

\* A call that has counted NProcs DONEs has announced its own, and so has
\* everybody else: by counting the pairs <<q, r>> that it can have heard.
LEMMA CountedAll ==
  ASSUME IInv, NEW p \in Proc, ld[p].active, ld[p].done = NProcs
  PROVE  ld[p].doneSent /\ \A q \in Proc : round[p] <= SentDone(q)
<1> DEFINE r == round[p]
<1>1. /\ r \in Nat /\ r > 0 /\ Completed(p) = r - 1
      /\ \A q \in Proc : Completed(q) \in Nat /\ SentDone(q) \in Nat
                         /\ SentDone(q) <= Completed(q) + 1
      /\ NProcs \in Nat /\ NProcs > 0
  BY CounterFacts, ProcFacts DEF IInv, DoneInv, DoneCount
<1>2. SentDone(p) >= r => ld[p].doneSent
  BY <1>1 DEF SentDone
<1>3. CASE \E q \in Proc : Completed(q) >= r
  <2>1. PICK q \in Proc : Completed(q) >= r
    BY <1>3
  <2>2. \A s \in Proc : Completed(q) <= SentDone(s)
    BY DEF IInv, AllAnnounced
  <2>3. \A s \in Proc : r <= SentDone(s)
    BY <1>1, <2>1, <2>2
  <2> QED BY <1>1, <1>2, <2>3
<1>4. CASE \A q \in Proc : Completed(q) < r
  <2> DEFINE Pairs == (Proc \ {p}) \X (1 .. r)
             H     == heard[p]
  <2>1. \A q \in Proc : SentDone(q) <= r
    BY <1>1, <1>4
  <2>2. H \in SUBSET Pairs
    <3>1. H \in SUBSET (Proc \X Tag) /\ Tag \subseteq Nat /\ \A t \in Tag : t >= 1
      BY RoundsAssumption DEF IInv, TypeOK
    <3>2. \A q \in Proc, t \in Tag : <<q, t>> \in H => t <= SentDone(q) /\ q # p
      BY DEF IInv, DoneInv, DoneFrom
    <3>3. ASSUME NEW q \in Proc, NEW t \in Tag, <<q, t>> \in H
          PROVE  <<q, t>> \in Pairs
      <4>1. t <= SentDone(q) /\ q # p /\ t \in Nat /\ t >= 1
        BY <3>1, <3>2, <3>3
      <4>2. t \in 1 .. r
        BY <4>1, <2>1, <1>1
      <4> QED BY <4>1, <4>2
    <3>4. ASSUME NEW z \in H
          PROVE  z \in Pairs
      <4>1. PICK q \in Proc, t \in Tag : z = <<q, t>>
        BY <3>1, <3>4
      <4> QED BY <4>1, <3>3, <3>4
    <3> QED BY <3>4
  <2>3. /\ IsFiniteSet(Pairs)
        /\ Cardinality(Pairs) = (NProcs - 1) * r
    <3>1. IsFiniteSet(Proc \ {p}) /\ Cardinality(Proc \ {p}) = NProcs - 1
      BY ProcFacts, FS_RemoveElement
    <3>2. IsFiniteSet(1 .. r) /\ Cardinality(1 .. r) = r
      BY <1>1, UpTo
    <3>3. /\ IsFiniteSet((Proc \ {p}) \X (1 .. r))
          /\ Cardinality((Proc \ {p}) \X (1 .. r))
               = Cardinality(Proc \ {p}) * Cardinality(1 .. r)
      BY <3>1, <3>2, FS_Product
    <3> QED BY <3>1, <3>2, <3>3
  <2>4. Cardinality(H) <= (NProcs - 1) * r
    BY <2>2, <2>3, FS_Subset
  <2>5. /\ ld[p].doneSent \in BOOLEAN
        /\ Cardinality(H) = (NProcs - 1) * (r - 1)
                              + (IF ld[p].doneSent THEN NProcs - 1 ELSE NProcs)
    BY <1>1, CounterFacts DEF IInv, DoneInv, DoneCount, Counted, LoadState
  <2>6. (NProcs - 1) * (r - 1) + (NProcs - 1) = (NProcs - 1) * r
        /\ (NProcs - 1) * r \in Int /\ (NProcs - 1) * (r - 1) \in Int
    BY <1>1
  <2>7. ld[p].doneSent /\ Cardinality(H) = (NProcs - 1) * r
    <3> HIDE DEF H, Pairs
    <3> QED BY <1>1, <2>4, <2>5, <2>6
  <2>8. H = Pairs
    BY <2>2, <2>3, <2>7, FS_Subset
  <2>9. ASSUME NEW q \in Proc, q # p
        PROVE  r <= SentDone(q)
    <3>1. <<q, r>> \in H /\ r \in Tag
      <4>1. r \in 1 .. r
        BY <1>1
      <4>2. <<q, r>> \in Pairs
        BY <4>1, <2>9
      <4>3. H \subseteq Proc \X Tag
        BY DEF IInv, TypeOK
      <4> QED BY <4>2, <4>3, <2>8
    <3> QED BY <3>1 DEF IInv, DoneInv, DoneFrom
  <2>10. r <= SentDone(p)
    BY <1>1, <2>7, CounterFacts DEF SentDone
  <2> QED BY <2>7, <2>9, <2>10
<1> QED BY <1>1, <1>3, <1>4

\* Returning.
LEMMA ReturnStep ==
  ASSUME IInv, NEW p \in Proc, Return(p)
  PROVE  IInv'
<1>1. /\ ld[p].active /\ ld[p].done = NProcs
      /\ ld' = [ld EXCEPT ![p].active = FALSE]
      /\ net' = net /\ round' = round /\ heard' = heard
  BY DEF Return, EndLoad
<1>2. /\ ld \in [Proc -> LoadState] /\ \A q \in Proc : round[q] \in Nat
      /\ round[p] > 0 /\ NProcs \in Nat
  BY CounterFacts, ProcFacts, <1>1 DEF IInv, TypeOK, DoneInv, DoneCount
<1>3. ld[p].doneSent /\ \A q \in Proc : round[p] <= SentDone(q)
  BY <1>1, CountedAll
<1>4. ld[p].remaining = 0
  BY <1>3 DEF IInv, RequestInv, RemainingCount
<1>5. /\ \A q \in Proc : q # p => ld'[q] = ld[q]
      /\ ~ld'[p].active /\ ld'[p].want = ld[p].want /\ ld'[p].sg = ld[p].sg
      /\ ld'[p].remaining = ld[p].remaining
  BY <1>1, <1>2 DEF LoadState
<1>6. /\ \A q \in Proc : q # p => Completed(q)' = Completed(q) /\ SentDone(q)' = SentDone(q)
                                  /\ Counted(q)' = Counted(q)
      /\ Completed(p) = round[p] - 1 /\ Completed(p)' = round[p]
      /\ SentDone(p) = round[p] /\ SentDone(p)' = round[p]
      /\ Counted(p) = NProcs - 1 /\ Counted(p)' = 0
  BY <1>1, <1>2, <1>3, <1>5 DEF Completed, SentDone, Counted
<1>7. \A r, s \in Proc : Outstanding(r, s)' <=> Outstanding(r, s)
  BY <1>5 DEF Outstanding
<1>8. TypeOK'
  <2>1. [ld[p] EXCEPT !.active = FALSE] \in LoadState
    BY <1>2, LoadStateEdits
  <2>2. ld' \in [Proc -> LoadState]
    BY <2>1, <1>1, <1>2
  <2> QED BY <2>2, <1>1 DEF IInv, TypeOK
<1>9. DoneInv'
  <2>1. ASSUME NEW r \in Proc PROVE DoneCount(r)'
    <3>1. DoneCount(r)
      BY DEF IInv, DoneInv
    <3>2. CASE r = p
      <4>1. Cardinality(heard[p]) = (NProcs - 1) * (round[p] - 1) + (NProcs - 1)
        BY <3>1, <3>2, <1>6 DEF DoneCount
      <4>2. (NProcs - 1) * (round[p] - 1) + (NProcs - 1) = (NProcs - 1) * round[p] + 0
        BY <1>2
      <4> QED BY <4>1, <4>2, <3>2, <1>1, <1>5, <1>6 DEF DoneCount
    <3>3. CASE r # p
      BY <3>1, <3>3, <1>1, <1>5, <1>6 DEF DoneCount
    <3> QED BY <3>2, <3>3
  <2>2. ASSUME NEW r \in Proc, NEW s \in Proc PROVE DoneFrom(r, s)'
    <3>1. SentDone(s)' = SentDone(s)
      BY <1>6
    <3> QED BY <3>1, <1>1 DEF IInv, DoneInv, DoneFrom
  <2> QED BY <2>1, <2>2 DEF DoneInv
<1>10. AllAnnounced'
  <2> SUFFICES ASSUME NEW r \in Proc, NEW q \in Proc
               PROVE  Completed(r)' <= SentDone(q)'
    BY DEF AllAnnounced
  <2>1. SentDone(q)' = SentDone(q)
    BY <1>6
  <2> QED BY <2>1, <1>3, <1>6 DEF IInv, AllAnnounced
<1>11. RequestInv'
  <2>1. ASSUME NEW r \in Proc, NEW s \in Proc PROVE Exchange(r, s)'
    BY <1>1, <1>7 DEF IInv, RequestInv, Exchange
  <2>2. ASSUME NEW r \in Proc PROVE RemainingCount(r)'
    <3>1. {s \in Proc : Outstanding(r, s)'} = {s \in Proc : Outstanding(r, s)}
      BY <1>7
    <3> QED BY <3>1, <1>4, <1>5 DEF IInv, RequestInv, RemainingCount
  <2> QED BY <2>1, <2>2 DEF RequestInv
<1>12. AgeInv'
  BY <1>1, <1>5 DEF IInv, AgeInv, Age
<1> QED BY <1>8, <1>9, <1>10, <1>11, <1>12 DEF IInv

\* Stuttering.
LEMMA StutterStep == IInv /\ UNCHANGED vars => IInv'
<1> SUFFICES ASSUME IInv, UNCHANGED vars PROVE IInv'
  OBVIOUS
<1>1. net' = net /\ ld' = ld /\ round' = round /\ heard' = heard
  BY DEF vars
<1>2. TypeOK'
  BY <1>1 DEF IInv, TypeOK
<1>3. DoneInv' /\ AllAnnounced'
  BY <1>1 DEF IInv, DoneInv, DoneFrom, DoneCount, Counted, Completed, SentDone, AllAnnounced
<1>4. RequestInv'
  BY <1>1 DEF IInv, RequestInv, Exchange, RemainingCount, Outstanding
<1>5. AgeInv'
  BY <1>1 DEF IInv, AgeInv, Age
<1> QED BY <1>2, <1>3, <1>4, <1>5 DEF IInv

-----------------------------------------------------------------------------
(* The theorems.                                                           *)

\* The inductive invariant: whatever the number of processes, the number of
\* iterations and the regions asked for, the DONE counting of LoadSubgrid
\* keeps its requests, its replies and its calls in step.
THEOREM Invariance == Spec => []IInv
<1>1. Init => IInv
  BY InitIInv
<1>2. IInv /\ [Next]_vars => IInv'
  <2> SUFFICES ASSUME IInv, [Next]_vars PROVE IInv'
    OBVIOUS
  <2>1. ASSUME NEW p \in Proc, Step(p) PROVE IInv'
    BY <2>1, LoadStep, AnnounceStep, CountDoneStep, ServeStep, TakeReplyStep,
       ReturnStep DEF Step
  <2>2. CASE Finished
    BY <2>2, StutterStep DEF Finished
  <2>3. CASE UNCHANGED vars
    BY <2>3, StutterStep
  <2> QED BY <2>1, <2>2, <2>3 DEF Next
<1> QED BY <1>1, <1>2, PTL DEF Spec

\* Messages, load states and counters keep their types.
THEOREM TypeCorrect == Spec => []TypeOK
<1>1. IInv => TypeOK
  BY DEF IInv
<1> QED BY <1>1, Invariance, PTL

\* The assertion in HandleFetchReply holds, and the reply it accepts is one
\* that is still missing.
THEOREM RepliesAreExpected == Spec => []ReplyExpected
<1>1. IInv => ReplyExpected
  <2> SUFFICES ASSUME IInv, NEW p \in Proc, NEW q \in Proc, Hears(p, q, "FETCH_REPLY")
               PROVE  Outstanding(p, q) /\ ld[p].remaining > 0
    BY DEF ReplyExpected
  <2>1. net \in Nets
    BY DEF IInv, TypeOK, Nets
  <2>2. net[q][p] \in Seq(Message) /\ net[q][p] # << >> /\ Head(net[q][p]).kind = "FETCH_REPLY"
    BY <2>1, DropFacts DEF Hears
  <2>3. Has(net[q][p], "FETCH_REPLY")
    BY <2>2, TailFacts
  <2>4. Outstanding(p, q)
    BY <2>3 DEF IInv, RequestInv, Exchange
  <2> QED BY <2>4, OutstandingFacts
<1> QED BY <1>1, Invariance, PTL

\* A process that leaves LoadSubgrid has announced its DONE, has all it asked
\* for and leaves no request or reply of its own behind.
THEOREM LeavesNothingBehind == Spec => []LeavesComplete
<1>1. IInv => LeavesComplete
  <2> SUFFICES ASSUME IInv, NEW p \in Proc, ld[p].active, ld[p].done = NProcs
               PROVE  /\ ld[p].doneSent
                      /\ \A q \in Proc : /\ ~Outstanding(p, q)
                                         /\ ~Has(net[p][q], "FETCH_REQUEST")
                                         /\ ~Has(net[q][p], "FETCH_REPLY")
    BY DEF LeavesComplete
  <2>1. ld[p].doneSent
    BY CountedAll
  <2>2. ld[p].remaining = 0
    BY <2>1 DEF IInv, RequestInv, RemainingCount
  <2> QED BY <2>1, <2>2, NothingOutstanding
<1> QED BY <1>1, Invariance, PTL

\* The DONE count is a barrier in effect: no process is more than one call
\* ahead of another.
THEOREM StaysInStep == Spec => []OneCallAhead
<1>1. IInv => OneCallAhead
  <2> SUFFICES ASSUME IInv, NEW p \in Proc, NEW q \in Proc
               PROVE  Completed(p) <= Completed(q) + 1
    BY DEF OneCallAhead
  <2>1. Completed(p) <= SentDone(q)
    BY DEF IInv, AllAnnounced
  <2> QED BY <2>1, CounterFacts
<1> QED BY <1>1, Invariance, PTL

\* What has been fetched is at most one iteration old.
THEOREM AtMostOneIterationOld == Spec => []StaleByOneAtMost
<1>1. IInv => StaleByOneAtMost
  BY DEF IInv, AgeInv, Age, StaleByOneAtMost
<1> QED BY <1>1, Invariance, PTL
=============================================================================
