------------------------ MODULE MasterControl_proofs ------------------------
(***************************************************************************)
(* Proofs about MasterClient, for any number of ranks, grids, calls and      *)
(* points: what the variables hold, and which requests, answers and methods  *)
(* can go together.  MasterClient_proofs builds on it.                      *)
(***************************************************************************)
EXTENDS MasterClient, FiniteSetTheorems, SequenceTheorems, TLAPS

-----------------------------------------------------------------------------
(* What the variables hold.                                                 *)

PartFun == UNION {[T -> Data] : T \in SUBSET Point}
Table   == UNION {[S -> PartFun] : S \in SUBSET Nat}

RpcMessage ==
  Message \cup [kind: {"PART"}, body: SUBSET Point]
          \cup [kind: {"DATA"}, body: PartFun]
          \cup [kind: {"SET"}, body: [id: Nat, point: Point, value: Data]]

IdKinds == {"FUNC_DELETE", "FUNC_COPYIN", "FUNC_COPYOUT", "FUNC_GET", "FUNC_SET",
            "FUNC_RUN", "FUNC_GRID_REDUCE", "FUNC_FINALIZE"}
Requests == [kind: {"FUNC_NEW"}, opt: SUBSET Point] \cup [kind: IdKinds, opt: Nat]

MasterMethods == {"user", "GridCopyin", "GridCopyout", "GridGet", "GridReduce", "exit"}
ClientMethods == {"Listen", "GridCopyin", "GridGet", "GridSet", "exit"}

\* As LoadState, but for the sign of remaining.
LoadFields ==
  [active: BOOLEAN, want: [Proc -> Info \cup {Nothing}], remaining: Int, done: Nat,
   doneSent: BOOLEAN, sg: [Proc -> Data \cup {Garbage, Nothing}]]

Nets == [Proc -> [Proc -> Seq(RpcMessage)]]

Typed ==
  /\ net \in Nets
  /\ ld \in [Proc -> LoadFields]
  /\ bcast \in [Proc -> Seq(Requests)] /\ bcast[0] = << >>
  /\ partials \in [Proc -> Seq(PartFun)] /\ partials[0] = << >>
  /\ pc \in [Proc -> MasterMethods \cup ClientMethods]
  /\ pc[0] \in MasterMethods /\ \A p \in Client : pc[p] \in ClientMethods
  /\ cur \in [Proc -> Nat]
  /\ call \in [point: Point \cup {Nothing}, buf: PartFun, next: Nat]
  /\ grids \in [Proc -> Table]
  /\ counter \in [Proc -> Nat] /\ counter[0] <= MaxGrids
  /\ store \in Table /\ DOMAIN store = DOMAIN grids[0] /\ remote \subseteq DOMAIN store
  /\ \A p \in Proc : pc[p] = "GridGet" => cur[p] \in DOMAIN grids[p]
  /\ calls \in 0 .. MaxCalls /\ settled \in BOOLEAN

-----------------------------------------------------------------------------
(* Tables and parts.                                                        *)

LEMMA ProcFacts ==
  /\ 0 \in Proc /\ Proc \subseteq Nat /\ IsFiniteSet(Proc)
  /\ Cardinality(Proc) = NProcs /\ NProcs \in Nat
  /\ Client \subseteq Proc /\ \A p \in Proc : p = 0 \/ p \in Client
  /\ \A p \in Client : p # 0
<1>1. NProcs \in Nat /\ NProcs # 0
  BY NProcsAssumption
<1>2. IsFiniteSet(Proc) /\ Cardinality(Proc) = NProcs
  BY <1>1, FS_Interval DEF Proc
<1> QED BY <1>1, <1>2 DEF Proc, Client

LEMMA PartFunFacts ==
  \A f : f \in PartFun <=> f \in [DOMAIN f -> Data] /\ DOMAIN f \subseteq Point
  BY DEF PartFun

LEMMA TableFacts ==
  \A t : t \in Table <=> t \in [DOMAIN t -> PartFun] /\ DOMAIN t \subseteq Nat
  BY DEF Table

\* Adding, removing and replacing an entry of a table.
LEMMA TableEdits ==
  ASSUME NEW t \in Table, NEW id \in Nat, NEW f \in PartFun
  PROVE  /\ With(t, id, f) \in Table /\ DOMAIN With(t, id, f) = DOMAIN t \cup {id}
         /\ Without(t, id) \in Table /\ DOMAIN Without(t, id) = DOMAIN t \ {id}
         /\ [t EXCEPT ![id] = f] \in Table
         /\ DOMAIN [t EXCEPT ![id] = f] = DOMAIN t
<1>1. t \in [DOMAIN t -> PartFun] /\ DOMAIN t \subseteq Nat
  BY TableFacts
<1>2. /\ With(t, id, f) \in [DOMAIN t \cup {id} -> PartFun]
      /\ Without(t, id) \in [DOMAIN t \ {id} -> PartFun]
      /\ [t EXCEPT ![id] = f] \in [DOMAIN t -> PartFun]
  BY <1>1 DEF With, Without
<1>3. /\ DOMAIN With(t, id, f) = DOMAIN t \cup {id}
      /\ DOMAIN Without(t, id) = DOMAIN t \ {id}
  BY DEF With, Without
<1> QED BY <1>1, <1>2, <1>3, TableFacts

LEMMA TableWith ==
  \A t \in Table, id \in Nat, f \in PartFun :
    With(t, id, f) \in Table /\ DOMAIN With(t, id, f) = DOMAIN t \cup {id}
<1> SUFFICES ASSUME NEW t \in Table, NEW id \in Nat, NEW f \in PartFun
             PROVE  With(t, id, f) \in Table /\ DOMAIN With(t, id, f) = DOMAIN t \cup {id}
  OBVIOUS
<1> QED BY TableEdits

\* Parts of grids, and what the kernel makes of them.
LEMMA PartEdits ==
  ASSUME NEW f \in PartFun
  PROVE  /\ \A x \in Point, v \in Data : [f EXCEPT ![x] = v] \in PartFun
         /\ \A p : Restricted(f, p) \in PartFun /\ DOMAIN Restricted(f, p) = Part(DOMAIN f, p)
         /\ [x \in DOMAIN f |-> Kernel[f[x]]] \in PartFun
         /\ \A g \in PartFun : Merged(g, f) \in PartFun
         /\ DOMAIN f \subseteq Point /\ \A x \in DOMAIN f : f[x] \in Data
<1>1. f \in [DOMAIN f -> Data] /\ DOMAIN f \subseteq Point
  BY PartFunFacts
<1>2. \A x \in Point, v \in Data : [f EXCEPT ![x] = v] \in PartFun
  BY <1>1, PartFunFacts
<1>3. \A p : Restricted(f, p) \in PartFun /\ DOMAIN Restricted(f, p) = Part(DOMAIN f, p)
  <2> TAKE p
  <2>1. Restricted(f, p) \in [Part(DOMAIN f, p) -> Data] /\ Part(DOMAIN f, p) \subseteq Point
    BY <1>1 DEF Restricted, Part
  <2> QED BY <2>1, PartFunFacts
<1>4. [x \in DOMAIN f |-> Kernel[f[x]]] \in PartFun
  <2>1. [x \in DOMAIN f |-> Kernel[f[x]]] \in [DOMAIN f -> Data]
    BY <1>1, MasterClientAssumption
  <2> QED BY <2>1, <1>1, PartFunFacts
<1>5. \A g \in PartFun : Merged(g, f) \in PartFun
  <2> TAKE g \in PartFun
  <2>1. g \in [DOMAIN g -> Data] /\ DOMAIN g \subseteq Point
    BY PartFunFacts
  <2>2. Merged(g, f) \in [DOMAIN g \cup DOMAIN f -> Data]
    BY <1>1, <2>1 DEF Merged
  <2> QED BY <1>1, <2>1, <2>2, PartFunFacts
<1> QED BY <1>1, <1>2, <1>3, <1>4, <1>5

\* A new grid's part.
LEMMA NewPart ==
  ASSUME NEW s \in SUBSET Point
  PROVE  /\ \A p : [x \in Part(s, p) |-> Zero] \in PartFun
         /\ [x \in s |-> Zero] \in PartFun
<1>1. \A T \in SUBSET Point : [x \in T |-> Zero] \in PartFun
  BY MasterClientAssumption, PartFunFacts
<1> QED BY <1>1 DEF Part

-----------------------------------------------------------------------------
(* Channels and queues: what a send and a receive do to a sequence.         *)

Has(s, k)       == \E i \in DOMAIN s : s[i].kind = k
AtMostOne(s, k) == \A i, j \in DOMAIN s : s[i].kind = k /\ s[j].kind = k => i = j
Only(s, K)      == \A i \in DOMAIN s : s[i].kind \in K

LEMMA SentLast ==
  ASSUME NEW S, NEW s \in Seq(S), NEW m \in S
  PROVE  /\ Append(s, m) \in Seq(S) /\ Append(s, m) # << >>
         /\ Len(s) \in Nat /\ DOMAIN s = 1 .. Len(s)
         /\ Len(Append(s, m)) = Len(s) + 1
         /\ DOMAIN Append(s, m) = 1 .. Len(s) + 1
         /\ \A i \in 1 .. Len(s) : Append(s, m)[i] = s[i]
         /\ Append(s, m)[Len(s) + 1] = m
  BY AppendProperties, LenProperties

LEMMA TakenFirst ==
  ASSUME NEW S, NEW s \in Seq(S), s # << >>
  PROVE  /\ Tail(s) \in Seq(S) /\ Head(s) = s[1] /\ Head(s) \in S
         /\ Len(s) \in Nat /\ Len(s) > 0 /\ DOMAIN s = 1 .. Len(s)
         /\ Len(Tail(s)) = Len(s) - 1 /\ DOMAIN Tail(s) = 1 .. Len(s) - 1
         /\ \A i \in 1 .. Len(s) - 1 : Tail(s)[i] = s[i + 1]
         /\ Tail(s) = << >> <=> Len(s) = 1
<1>1. /\ Tail(s) \in Seq(S) /\ Head(s) = s[1] /\ Head(s) \in S
      /\ Len(Tail(s)) = Len(s) - 1 /\ \A i \in 1 .. Len(Tail(s)) : Tail(s)[i] = s[i + 1]
  BY HeadTailProperties
<1>2. /\ Len(s) \in Nat /\ DOMAIN s = 1 .. Len(s) /\ Len(s) # 0
      /\ DOMAIN Tail(s) = 1 .. Len(Tail(s)) /\ (Tail(s) = << >> <=> Len(Tail(s)) = 0)
  BY <1>1, LenProperties, EmptySeq
<1> QED BY <1>1, <1>2

\* A send adds a message of its kind.
LEMMA SentKinds ==
  ASSUME NEW S, NEW s \in Seq(S), NEW m \in S
  PROVE  /\ \A k : Has(Append(s, m), k) <=> Has(s, k) \/ m.kind = k
         /\ \A k : AtMostOne(s, k) /\ (m.kind = k => ~Has(s, k)) => AtMostOne(Append(s, m), k)
         /\ \A K : Only(Append(s, m), K) <=> Only(s, K) /\ m.kind \in K
<1> DEFINE t == Append(s, m)
<1>1. /\ Len(s) \in Nat /\ DOMAIN s = 1 .. Len(s) /\ DOMAIN t = 1 .. Len(s) + 1
      /\ \A i \in 1 .. Len(s) : t[i] = s[i]
      /\ t[Len(s) + 1] = m
  BY SentLast
<1> HIDE DEF t
<1>2. \A k : Has(t, k) <=> Has(s, k) \/ m.kind = k
  BY <1>1 DEF Has
<1>3. \A k : AtMostOne(s, k) /\ (m.kind = k => ~Has(s, k)) => AtMostOne(t, k)
  BY <1>1 DEF AtMostOne, Has
<1>4. \A K : Only(t, K) <=> Only(s, K) /\ m.kind \in K
  BY <1>1 DEF Only
<1> QED BY <1>2, <1>3, <1>4 DEF t

\* A receive takes one away.
LEMMA TakenKinds ==
  ASSUME NEW S, NEW s \in Seq(S), s # << >>
  PROVE  /\ Has(s, Head(s).kind)
         /\ \A k : Has(Tail(s), k) => Has(s, k)
         /\ \A k : k # Head(s).kind => (Has(Tail(s), k) <=> Has(s, k))
         /\ \A k : AtMostOne(s, k) => AtMostOne(Tail(s), k)
         /\ AtMostOne(s, Head(s).kind) => ~Has(Tail(s), Head(s).kind)
         /\ \A K : Only(s, K) => Only(Tail(s), K) /\ Head(s).kind \in K
<1> DEFINE t == Tail(s)
<1>1. /\ Len(s) \in Nat /\ Len(s) > 0 /\ DOMAIN s = 1 .. Len(s)
      /\ DOMAIN t = 1 .. Len(s) - 1 /\ Head(s) = s[1]
      /\ \A i \in 1 .. Len(s) - 1 : t[i] = s[i + 1]
  BY TakenFirst
<1> HIDE DEF t
<1>2. Has(s, Head(s).kind) /\ \A k : Has(t, k) => Has(s, k)
  BY <1>1 DEF Has
<1>3. ASSUME NEW k, k # Head(s).kind, Has(s, k) PROVE Has(t, k)
  <2>1. PICK i \in DOMAIN s : s[i].kind = k
    BY <1>3 DEF Has
  <2>2. i - 1 \in DOMAIN t /\ t[i - 1] = s[i]
    BY <1>1, <1>3, <2>1
  <2> QED BY <2>1, <2>2 DEF Has
<1>4. ASSUME NEW k, AtMostOne(s, k) PROVE AtMostOne(t, k)
  <2> SUFFICES ASSUME NEW i \in DOMAIN t, NEW j \in DOMAIN t,
                      t[i].kind = k, t[j].kind = k
               PROVE  i = j
    BY DEF AtMostOne
  <2>1. /\ i \in Nat /\ i + 1 \in DOMAIN s /\ s[i + 1].kind = k
        /\ j \in Nat /\ j + 1 \in DOMAIN s /\ s[j + 1].kind = k
    BY <1>1
  <2>2. i + 1 = j + 1
    BY <2>1, <1>4 DEF AtMostOne
  <2> QED BY <2>1, <2>2
<1>5. ASSUME AtMostOne(s, Head(s).kind), Has(t, Head(s).kind) PROVE FALSE
  <2>1. PICK i \in DOMAIN t : t[i].kind = Head(s).kind
    BY <1>5 DEF Has
  <2>2. i + 1 \in DOMAIN s /\ s[i + 1].kind = s[1].kind /\ 1 \in DOMAIN s /\ i + 1 # 1
    BY <1>1, <2>1
  <2> QED BY <2>2, <1>1, <1>5 DEF AtMostOne
<1>6. ASSUME NEW K, Only(s, K) PROVE Only(t, K) /\ Head(s).kind \in K
  <2>1. \A i \in DOMAIN t : i + 1 \in DOMAIN s /\ t[i] = s[i + 1]
    BY <1>1
  <2>2. 1 \in DOMAIN s
    BY <1>1
  <2> QED BY <1>1, <1>6, <2>1, <2>2 DEF Only
<1>7. /\ \A k : k # Head(s).kind => (Has(t, k) <=> Has(s, k))
      /\ \A k : AtMostOne(s, k) => AtMostOne(t, k)
      /\ AtMostOne(s, Head(s).kind) => ~Has(t, Head(s).kind)
  BY ONLY <1>2, <1>3, <1>4, <1>5
<1> QED BY ONLY <1>2, <1>6, <1>7 DEF t

LEMMA PutFacts ==
  ASSUME NEW n \in Nets, NEW s \in Proc, NEW d \in Proc, NEW m \in RpcMessage
  PROVE  /\ Put(n, s, d, m) \in Nets
         /\ Put(n, s, d, m)[s][d] = Append(n[s][d], m)
         /\ \A a, b \in Proc : a # s \/ b # d => Put(n, s, d, m)[a][b] = n[a][b]
<1>1. n[s][d] \in Seq(RpcMessage) /\ Append(n[s][d], m) \in Seq(RpcMessage)
  BY DEF Nets
<1> QED BY <1>1 DEF Put, Nets

LEMMA DropFacts ==
  ASSUME NEW n \in Nets, NEW s \in Proc, NEW d \in Proc, Pending(n, s, d)
  PROVE  /\ Drop(n, s, d) \in Nets
         /\ Drop(n, s, d)[s][d] = Tail(n[s][d])
         /\ \A a, b \in Proc : a # s \/ b # d => Drop(n, s, d)[a][b] = n[a][b]
         /\ n[s][d] \in Seq(RpcMessage) /\ n[s][d] # << >>
         /\ Oldest(n, s, d) \in RpcMessage /\ Oldest(n, s, d) = n[s][d][1]
<1>1. n[s][d] \in Seq(RpcMessage) /\ n[s][d] # << >>
  BY DEF Nets, Pending
<1>2. Tail(n[s][d]) \in Seq(RpcMessage) /\ Head(n[s][d]) \in RpcMessage
      /\ Head(n[s][d]) = n[s][d][1]
  BY <1>1, TakenFirst
<1> QED BY <1>1, <1>2 DEF Drop, Nets, Oldest

\* Freeing the buffer of p: the bodies of the replies of p may change.
SameButReplies(s, t) ==
  /\ t \in Seq(RpcMessage) /\ DOMAIN t = DOMAIN s /\ Len(t) = Len(s)
  /\ \A i \in DOMAIN s : /\ t[i].kind = s[i].kind
                         /\ s[i].kind # "FETCH_REPLY" => t[i] = s[i]

LEMMA SpoilFacts ==
  ASSUME NEW s \in Seq(RpcMessage) PROVE SameButReplies(s, Spoil(s))
<1>1. Len(s) \in Nat /\ DOMAIN s = 1 .. Len(s) /\ \A i \in 1 .. Len(s) : s[i] \in RpcMessage
  BY LenProperties, ElementOfSeq
<1>2. /\ DOMAIN Spoil(s) = 1 .. Len(s)
      /\ \A i \in 1 .. Len(s) :
           Spoil(s)[i] = IF s[i].kind = "FETCH_REPLY" THEN Reply(Garbage) ELSE s[i]
  BY <1>1 DEF Spoil
<1>3. Reply(Garbage) \in RpcMessage /\ Reply(Garbage).kind = "FETCH_REPLY"
  BY DEF Reply, RpcMessage, Message
<1>4. Spoil(s) \in [1 .. Len(s) -> RpcMessage]
  BY <1>1, <1>2, <1>3 DEF Spoil
<1>5. Spoil(s) \in Seq(RpcMessage) /\ Len(Spoil(s)) = Len(s)
  BY <1>1, <1>4, IsASeq, LenProperties
<1> QED BY <1>1, <1>2, <1>3, <1>5 DEF SameButReplies

LEMMA ReallocateFacts ==
  ASSUME NEW n \in Nets, NEW p \in Proc
  PROVE  /\ Reallocate(n, p) \in Nets
         /\ \A a, b \in Proc : /\ a # p => Reallocate(n, p)[a][b] = n[a][b]
                               /\ SameButReplies(n[a][b], Reallocate(n, p)[a][b])
<1>1. \A a, b \in Proc : /\ n[a][b] \in Seq(RpcMessage)
                         /\ SameButReplies(n[a][b], n[a][b])
                         /\ SameButReplies(n[a][b], Spoil(n[a][b]))
  BY SpoilFacts DEF Nets, SameButReplies
<1>2. \A a, b \in Proc : Spoil(n[a][b]) \in Seq(RpcMessage)
  BY <1>1 DEF SameButReplies
<1>3. Reallocate(n, p) \in Nets
  BY <1>2 DEF Reallocate, Nets
<1>4. \A a, b \in Proc : Reallocate(n, p)[a][b] = IF a = p /\ ~Eager
                                                  THEN Spoil(n[a][b]) ELSE n[a][b]
  BY BodyAssumption DEF Reallocate, Nets
<1> QED BY <1>1, <1>3, <1>4

\* The kinds of messages in flight do not change then.
LEMMA SameKinds ==
  ASSUME NEW s \in Seq(RpcMessage), NEW t, SameButReplies(s, t)
  PROVE  /\ \A k : (Has(t, k) <=> Has(s, k)) /\ (AtMostOne(t, k) <=> AtMostOne(s, k))
         /\ \A K : Only(t, K) <=> Only(s, K)
         /\ t = << >> <=> s = << >>
         /\ s # << >> => Head(t).kind = Head(s).kind
         /\ ~Has(s, "FETCH_REPLY") => t = s
<1>1. /\ DOMAIN t = DOMAIN s /\ \A i \in DOMAIN s : t[i].kind = s[i].kind
      /\ t \in Seq(RpcMessage) /\ Len(t) = Len(s) /\ DOMAIN s = 1 .. Len(s) /\ Len(s) \in Nat
  BY LenProperties DEF SameButReplies
<1>2. \A k : (Has(t, k) <=> Has(s, k)) /\ (AtMostOne(t, k) <=> AtMostOne(s, k))
  BY <1>1 DEF Has, AtMostOne
<1>3. \A K : Only(t, K) <=> Only(s, K)
  BY <1>1 DEF Only
<1>4. t = << >> <=> s = << >>
  BY <1>1, EmptySeq
<1>5. s # << >> => Head(t).kind = Head(s).kind
  BY <1>1, <1>4, TakenFirst
<1>6. ~Has(s, "FETCH_REPLY") => t = s
  <2>1. ~Has(s, "FETCH_REPLY") => \A i \in DOMAIN s : t[i] = s[i]
    BY DEF Has, SameButReplies
  <2> QED BY <1>1, <2>1, SeqEqual
<1> QED BY <1>2, <1>3, <1>4, <1>5, <1>6

\* A broadcast reaches every client, and p takes one from its queue.
LEMMA NotifyFacts ==
  ASSUME Typed, NEW m \in Requests, Notify(m)
  PROVE  /\ bcast' \in [Proc -> Seq(Requests)] /\ bcast'[0] = << >>
         /\ \A p \in Client : bcast'[p] = Append(bcast[p], m)
<1>1. \A p \in Proc : bcast[p] \in Seq(Requests) /\ Append(bcast[p], m) \in Seq(Requests)
  BY DEF Typed
<1>2. \A p \in Proc : bcast'[p] = IF p = 0 THEN << >> ELSE Append(bcast[p], m)
  BY DEF Notify
<1>3. bcast' \in [Proc -> Seq(Requests)]
  BY <1>1 DEF Notify
<1> QED BY <1>2, <1>3, ProcFacts

LEMMA TakesFacts ==
  ASSUME Typed, NEW p \in Client, NEW k, Takes(p, k)
  PROVE  /\ bcast' \in [Proc -> Seq(Requests)] /\ bcast'[0] = << >>
         /\ bcast'[p] = Tail(bcast[p])
         /\ \A q \in Proc : q # p => bcast'[q] = bcast[q]
         /\ bcast[p] \in Seq(Requests) /\ bcast[p] # << >>
         /\ Head(bcast[p]) \in Requests /\ bcast[p][1] = Head(bcast[p])
         /\ bcast[p][1].kind = k /\ bcast[p][1].opt = Opt(p)
         /\ pc[p] = "Listen"
<1>1. /\ bcast[p] \in Seq(Requests) /\ bcast[p] # << >> /\ Head(bcast[p]).kind = k
      /\ bcast' = [bcast EXCEPT ![p] = Tail(bcast[p])]
      /\ bcast \in [Proc -> Seq(Requests)] /\ bcast[0] = << >> /\ p # 0 /\ p \in Proc
      /\ 0 \in Proc
  BY ProcFacts DEF Typed, Takes
<1>2. Tail(bcast[p]) \in Seq(Requests) /\ Head(bcast[p]) = bcast[p][1]
      /\ Head(bcast[p]) \in Requests
  BY <1>1, TakenFirst
<1> QED BY <1>1, <1>2 DEF Opt, Takes

-----------------------------------------------------------------------------
(* What the variables hold stays so.                                        *)

LEMMA TypedInit == Init => Typed
<1> SUFFICES ASSUME Init PROVE Typed
  OBVIOUS
<1>1. /\ \A S : << >> \in Seq(S)
      /\ net = [s \in Proc |-> [d \in Proc |-> << >>]]
      /\ ld = [p \in Proc |-> NoLoad]
  BY DEF Init, FetchInit, EmptyNet
<1>2. NoLoad \in LoadFields
  BY DEF NoLoad, LoadFields
<1>3. << >> \in Table /\ << >> \in PartFun /\ DOMAIN << >> = {}
  <2>1. DOMAIN << >> = {} /\ << >> \in [DOMAIN << >> -> PartFun] /\ << >> \in [DOMAIN << >> -> Data]
    OBVIOUS
  <2> QED BY <2>1, TableFacts, PartFunFacts
<1>4. net \in Nets /\ ld \in [Proc -> LoadFields]
  BY <1>1, <1>2 DEF Nets
<1>5. call \in [point: Point \cup {Nothing}, buf: PartFun, next: Nat]
  BY <1>3 DEF Init, NoCall
<1> QED BY <1>1, <1>3, <1>4, <1>5, ProcFacts, MasterClientAssumption
        DEF Init, Typed, MasterMethods, ClientMethods

\* The messages, and the requests.
LEMMA MessageFacts ==
  /\ \A s \in SUBSET Point : PartMsg(s) \in RpcMessage
  /\ \A f \in PartFun : DataMsg(f) \in RpcMessage
  /\ \A id \in Nat, x \in Point, v \in Data : SetMsg(id, x, v) \in RpcMessage
  /\ \A x \in Point : Request(x) \in RpcMessage
  /\ \A v \in Data \cup {Garbage} : Reply(v) \in RpcMessage
  /\ Done(0) \in RpcMessage
  /\ \A m \in RpcMessage : /\ m.kind = "PART" => m.body \in SUBSET Point
                           /\ m.kind = "DATA" => m.body \in PartFun
                           /\ m.kind = "SET" => m.body \in [id: Nat, point: Point, value: Data]
                           /\ m.kind = "FETCH_REQUEST" => m.body \in Point
                           /\ m.kind = "FETCH_REPLY" => m.body \in Data \cup {Garbage}
  BY MasterClientAssumption DEF RpcMessage, Message, PartMsg, DataMsg, SetMsg, Request, Reply, Done

LEMMA RequestFacts ==
  /\ \A s \in SUBSET Point : Req("FUNC_NEW", s) \in Requests
  /\ \A k \in IdKinds, id \in Nat : Req(k, id) \in Requests
  /\ \A m \in Requests : /\ m.kind = "FUNC_NEW" => m.opt \in SUBSET Point
                         /\ m.kind \in IdKinds => m.opt \in Nat
                         /\ m.kind = "FUNC_NEW" \/ m.kind \in IdKinds
  BY DEF Requests, Req, IdKinds

\* What of the store and of the master's grids a call of the program uses.
LEMMA StoreFacts ==
  ASSUME Typed, NEW id \in DOMAIN store
  PROVE  /\ id \in Nat /\ id \in DOMAIN grids[0]
         /\ grids[0] \in Table /\ grids[0][id] \in PartFun /\ store[id] \in PartFun
         /\ DOMAIN store[id] \subseteq Point
  BY TableFacts, PartFunFacts, ProcFacts DEF Typed

\* One entry of the tables of one rank is replaced.
LEMMA GridEdits ==
  ASSUME NEW gr \in [Proc -> Table], NEW p \in Proc, NEW id \in Nat, NEW f \in PartFun
  PROVE  /\ [gr EXCEPT ![p][id] = f] \in [Proc -> Table]
         /\ \A q \in Proc : DOMAIN [gr EXCEPT ![p][id] = f][q] = DOMAIN gr[q]
<1>1. [gr[p] EXCEPT ![id] = f] \in Table /\ DOMAIN [gr[p] EXCEPT ![id] = f] = DOMAIN gr[p]
  BY TableEdits
<1> QED BY <1>1

\* The master asks the owner of the point, if that is another rank; a client
\* asks nobody.
Asks(x) == IF Owner[x] = 0 THEN {} ELSE {Owner[x]}

LEMMA MasterAsks ==
  ASSUME NEW x \in Point
  PROVE  /\ SendsTo(0, [q \in Proc |-> IF q = Owner[x] THEN x ELSE Nothing]) = Asks(x)
         /\ Owner[x] \in Proc
<1> DEFINE w == [q \in Proc |-> IF q = Owner[x] THEN x ELSE Nothing]
<1>1. Owner[x] \in Proc /\ x # Nothing
  BY MasterClientAssumption, BodyAssumption
<1>2. {q \in Proc : w[q] # Nothing} = {Owner[x]}
  BY <1>1
<1> QED BY <1>1, <1>2 DEF SendsTo, Asks

LEMMA MasterBegins ==
  ASSUME Typed, NEW id, NEW x \in Point, MasterGet(id, x)
  PROVE  /\ net' \in Nets /\ ld' \in [Proc -> LoadFields]
         /\ Owner[x] \in Proc
         /\ \A a, b \in Proc : net'[a][b] = IF a = 0 /\ b = Owner[x] /\ b # 0
                                            THEN Append(net[a][b], Request(x)) ELSE net[a][b]
         /\ \A p \in Client : ld'[p] = ld[p]
         /\ ld'[0].active /\ ~ld'[0].doneSent /\ ld'[0].done = 0
         /\ ld'[0].remaining = IF Owner[x] = 0 THEN 0 ELSE 1
<1> DEFINE w == [q \in Proc |-> IF q = Owner[x] THEN x ELSE Nothing]
           n == [d \in Proc |-> IF d \in Asks(x) THEN Append(net[0][d], Request(w[d])) ELSE net[0][d]]
           l == [active |-> TRUE, want |-> [q \in Proc |-> IF q \in Asks(x) THEN w[q] ELSE Nothing],
                 remaining |-> Cardinality(Asks(x)), done |-> 0, doneSent |-> FALSE,
                 sg |-> [q \in Proc |-> Nothing]]
<1>1. /\ net' = [net EXCEPT ![0] = n]
      /\ ld' = [ld EXCEPT ![0] = l]
  <2>1. BeginLoad(0, w)
    BY DEF MasterGet
  <2> HIDE DEF w
  <2>2. SendsTo(0, w) = Asks(x)
    BY MasterAsks DEF w
  <2> QED BY <2>1, <2>2 DEF BeginLoad
<1>2. \A d \in Proc : n[d] = IF d = Owner[x] /\ d # 0 THEN Append(net[0][d], Request(x)) ELSE net[0][d]
  BY DEF Asks
<1>3. Cardinality(Asks(x)) = IF Owner[x] = 0 THEN 0 ELSE 1
  BY FS_EmptySet, FS_Singleton DEF Asks
<1>4. n \in [Proc -> Seq(RpcMessage)]
  <2>1. \A d \in Proc : net[0][d] \in Seq(RpcMessage)
    BY ProcFacts DEF Typed, Nets
  <2>2. \A d \in Proc : Append(net[0][d], Request(x)) \in Seq(RpcMessage)
    BY <2>1, MessageFacts, SentLast
  <2>3. \A d \in Proc : n[d] \in Seq(RpcMessage)
    BY <2>1, <2>2, <1>2
  <2> HIDE DEF w
  <2> QED BY <2>3
<1>5. l \in LoadFields
  BY <1>3, MasterClientAssumption DEF LoadFields
<1> HIDE DEF n, l, w
<1>6. net' \in Nets /\ ld' \in [Proc -> LoadFields]
  BY <1>1, <1>4, <1>5, ProcFacts DEF Typed, Nets
<1>7. \A a, b \in Proc : net'[a][b] = IF a = 0 THEN n[b] ELSE net[a][b]
  BY <1>1 DEF Typed, Nets
<1>8. ld'[0] = l /\ \A p \in Client : ld'[p] = ld[p]
  BY <1>1, ProcFacts DEF Typed
<1>9. /\ l.active /\ ~l.doneSent /\ l.done = 0
      /\ l.remaining = IF Owner[x] = 0 THEN 0 ELSE 1
  BY <1>3 DEF l
<1>10. \A a, b \in Proc : net'[a][b] = IF a = 0 /\ b = Owner[x] /\ b # 0
                                       THEN Append(net[a][b], Request(x)) ELSE net[a][b]
  BY ONLY <1>2, <1>7
<1>11. Owner[x] \in Proc
  BY MasterAsks
<1> QED BY <1>6, <1>8, <1>9, <1>10, <1>11

LEMMA ClientBegins ==
  ASSUME Typed, NEW p \in Client, ClientGet(p)
  PROVE  /\ net' = net /\ ld' \in [Proc -> LoadFields]
         /\ \A q \in Proc : q # p => ld'[q] = ld[q]
         /\ ld'[p].active /\ ~ld'[p].doneSent /\ ld'[p].done = 0 /\ ld'[p].remaining = 0
<1> DEFINE w == [q \in Proc |-> Nothing]
           l == [active |-> TRUE, want |-> w, remaining |-> 0, done |-> 0, doneSent |-> FALSE,
                 sg |-> w]
<1>1. SendsTo(p, w) = {}
  BY DEF SendsTo
<1>2. [q \in Proc |-> IF q \in SendsTo(p, w) THEN w[q] ELSE Nothing] = w /\ Cardinality(SendsTo(p, w)) = 0
  BY <1>1, FS_EmptySet
<1>3. BeginLoad(p, w)
  BY DEF ClientGet
<1> HIDE DEF w
<1>4. ld' = [ld EXCEPT ![p] = l]
  BY <1>2, <1>3 DEF BeginLoad, w
<1>5. net' = net
  BY <1>1, <1>3, ProcFacts DEF BeginLoad, Typed, Nets
<1>6. l \in LoadFields
  BY DEF LoadFields, w
<1>7. p \in Proc /\ ld \in [Proc -> LoadFields]
  BY ProcFacts DEF Typed
<1>8. ld'[p] = l /\ ld' \in [Proc -> LoadFields] /\ \A q \in Proc : q # p => ld'[q] = ld[q]
  <2> HIDE DEF l
  <2> QED BY <1>4, <1>6, <1>7
<1> QED BY <1>5, <1>8

\* What a run makes of a part that the remote grid does not hide.
LEMMA KernelFacts ==
  ASSUME Typed, NEW p \in Proc, NEW id \in DOMAIN grids[p], p = 0 => id \notin remote
  PROVE  /\ RunKernel(grids, p, id) =
              [grids EXCEPT ![p][id] = [x \in DOMAIN grids[p][id] |-> Kernel[grids[p][id][x]]]]
         /\ [x \in DOMAIN grids[p][id] |-> Kernel[grids[p][id][x]]] \in PartFun
         /\ id \in Nat
<1>1. grids[p] \in Table /\ grids[p][id] \in PartFun /\ id \in Nat
  BY TableFacts DEF Typed
<1>2. \A x \in DOMAIN grids[p][id] : grids[p][id][x] # Garbage
  <2>1. \A f \in PartFun : \A x \in DOMAIN f : f[x] \in Data
    BY ONLY PartEdits
  <2>2. Garbage \notin Data
    BY ONLY MasterClientAssumption
  <2> QED BY ONLY <1>1, <2>1, <2>2
<1>3. [x \in DOMAIN grids[p][id] |->
         IF (p = 0 /\ id \in remote) \/ grids[p][id][x] = Garbage
         THEN Garbage ELSE Kernel[grids[p][id][x]]]
      = [x \in DOMAIN grids[p][id] |-> Kernel[grids[p][id][x]]]
  BY <1>2
<1>4. RunKernel(grids, p, id) =
        [grids EXCEPT ![p][id] = [x \in DOMAIN grids[p][id] |->
           IF (p = 0 /\ id \in remote) \/ grids[p][id][x] = Garbage
           THEN Garbage ELSE Kernel[grids[p][id][x]]]]
  BY DEF RunKernel
<1> QED BY <1>1, <1>3, <1>4, PartEdits

LEMMA TypedUser ==
  ASSUME Typed, AvoidRemote, UserStep PROVE Typed'
<1> USE ProcFacts
<1>1. ASSUME NEW s \in Shape, MasterNew(s) PROVE Typed'
  <2>1. s \in SUBSET Point
    BY MasterClientAssumption
  <2>2. bcast' \in [Proc -> Seq(Requests)] /\ bcast'[0] = << >>
    BY <1>1, <2>1, RequestFacts, NotifyFacts DEF MasterNew
  <2>3. counter[0] \in Nat /\ grids[0] \in Table /\ store \in Table
    BY DEF Typed
  <2>4. /\ With(grids[0], counter[0], [x \in Part(s, 0) |-> Zero]) \in Table
        /\ With(store, counter[0], [x \in s |-> Zero]) \in Table
        /\ DOMAIN With(grids[0], counter[0], [x \in Part(s, 0) |-> Zero]) = DOMAIN grids[0] \cup {counter[0]}
        /\ DOMAIN With(store, counter[0], [x \in s |-> Zero]) = DOMAIN store \cup {counter[0]}
    <3> DEFINE f == [x \in Part(s, 0) |-> Zero]
               g == [x \in s |-> Zero]
    <3>1. f \in PartFun /\ g \in PartFun
      BY <2>1, NewPart
    <3> HIDE DEF f, g
    <3>a. PICK a : a = grids[0]
      OBVIOUS
    <3>n. PICK n : n = counter[0]
      OBVIOUS
    <3>b. a \in Table /\ store \in Table /\ n \in Nat
      BY ONLY <2>3, <3>a, <3>n
    <3>2. With(a, n, f) \in Table /\ DOMAIN With(a, n, f) = DOMAIN a \cup {n}
      BY ONLY <3>1, <3>b, TableWith
    <3>3. With(store, n, g) \in Table /\ DOMAIN With(store, n, g) = DOMAIN store \cup {n}
      BY ONLY <3>1, <3>b, TableWith
    <3> QED BY ONLY <3>a, <3>n, <3>2, <3>3 DEF f, g
  <2>5. /\ grids' = [grids EXCEPT ![0] = With(grids[0], counter[0], [x \in Part(s, 0) |-> Zero])]
        /\ store' = With(store, counter[0], [x \in s |-> Zero])
    BY <1>1 DEF MasterNew, CreateGrid
  <2>6. /\ grids' \in [Proc -> Table] /\ store' \in Table /\ DOMAIN store' = DOMAIN grids'[0]
        /\ remote' \subseteq DOMAIN store'
        /\ \A p \in Proc : DOMAIN grids[p] \subseteq DOMAIN grids'[p]
    BY <1>1, <2>4, <2>5 DEF Typed, MasterNew
  <2>7. counter' \in [Proc -> Nat] /\ counter'[0] <= MaxGrids
    BY <1>1, <2>3, MasterClientAssumption DEF MasterNew, Typed
  <2>8. calls' \in 0 .. MaxCalls
    BY <1>1, MasterClientAssumption DEF MasterNew, UserCalls, Typed
  <2> QED BY <1>1, <2>2, <2>6, <2>7, <2>8 DEF MasterNew, Typed
<1>2. ASSUME NEW id \in DOMAIN store, MasterDelete(id) PROVE Typed'
  <2>1. id \in Nat /\ grids[0] \in Table /\ store \in Table
    BY StoreFacts DEF Typed
  <2>2. bcast' \in [Proc -> Seq(Requests)] /\ bcast'[0] = << >>
    BY <1>2, <2>1, RequestFacts, NotifyFacts DEF MasterDelete, IdKinds
  <2>3. /\ Without(grids[0], id) \in Table /\ DOMAIN Without(grids[0], id) = DOMAIN grids[0] \ {id}
        /\ Without(store, id) \in Table /\ DOMAIN Without(store, id) = DOMAIN store \ {id}
    BY <2>1, StoreFacts, TableEdits
  <2>4. grids' = [grids EXCEPT ![0] = Without(grids[0], id)] /\ store' = Without(store, id)
        /\ remote' = remote \ {id}
    BY <1>2 DEF MasterDelete, DeleteGrid
  <2>5. /\ grids' \in [Proc -> Table] /\ store' \in Table /\ DOMAIN store' = DOMAIN grids'[0]
        /\ remote' \subseteq DOMAIN store'
        /\ \A p \in Client : grids'[p] = grids[p]
    BY <2>3, <2>4 DEF Typed
  <2>6. calls' \in 0 .. MaxCalls
    BY <1>2, MasterClientAssumption DEF MasterDelete, UserCalls, Typed
  <2> QED BY <1>2, <2>2, <2>5, <2>6 DEF MasterDelete, Typed, UserCalls
<1>3. ASSUME NEW id \in DOMAIN store, NEW buf \in [DOMAIN store[id] -> Data], MasterCopyin(id, buf)
      PROVE Typed'
  <2>1. id \in Nat /\ buf \in PartFun /\ DOMAIN buf = DOMAIN store[id] /\ store \in Table
    BY StoreFacts, PartFunFacts DEF Typed
  <2>2. bcast' \in [Proc -> Seq(Requests)] /\ bcast'[0] = << >>
    BY <1>3, <2>1, RequestFacts, NotifyFacts DEF MasterCopyin, IdKinds
  <2>3. Restricted(buf, 0) \in PartFun
    BY <2>1, PartEdits
  <2>4. /\ grids' \in [Proc -> Table] /\ \A q \in Proc : DOMAIN grids'[q] = DOMAIN grids[q]
    <3>1. grids' = [grids EXCEPT ![0][id] = Restricted(buf, 0)] /\ grids \in [Proc -> Table]
      BY <1>3 DEF MasterCopyin, Typed
    <3> QED BY <3>1, <2>1, <2>3, GridEdits
  <2>5. store' \in Table /\ DOMAIN store' = DOMAIN store
    BY <1>3, <2>1, TableEdits DEF MasterCopyin
  <2>6. call' \in [point: Point \cup {Nothing}, buf: PartFun, next: Nat]
    BY <1>3, <2>1 DEF MasterCopyin, NoCall
  <2>7. calls' \in 0 .. MaxCalls
    BY <1>3, MasterClientAssumption DEF MasterCopyin, UserCalls, Typed
  <2>8. /\ pc' \in [Proc -> MasterMethods \cup ClientMethods]
        /\ pc'[0] = "GridCopyin" /\ pc'[0] \in MasterMethods /\ \A p \in Client : pc'[p] = pc[p]
    BY <1>3 DEF MasterCopyin, Typed, MasterMethods, ClientMethods
  <2> QED BY <1>3, <2>2, <2>4, <2>5, <2>6, <2>7, <2>8 DEF MasterCopyin, Typed
<1>4. ASSUME NEW id \in DOMAIN store, MasterCopyout(id) \/ MasterReduce(id) PROVE Typed'
  <2>1. id \in Nat /\ grids[0][id] \in PartFun
    BY StoreFacts
  <2>2. bcast' \in [Proc -> Seq(Requests)] /\ bcast'[0] = << >>
    BY <1>4, <2>1, RequestFacts, NotifyFacts DEF MasterCopyout, MasterReduce, IdKinds
  <2>6. call' \in [point: Point \cup {Nothing}, buf: PartFun, next: Nat]
    BY <1>4, <2>1 DEF MasterCopyout, MasterReduce, NoCall
  <2>7. calls' \in 0 .. MaxCalls
    BY <1>4, MasterClientAssumption DEF MasterCopyout, MasterReduce, UserCalls, Typed
  <2>8. /\ pc' \in [Proc -> MasterMethods \cup ClientMethods]
        /\ pc'[0] # "GridGet" /\ pc'[0] \in MasterMethods /\ \A p \in Client : pc'[p] = pc[p]
    BY <1>4 DEF MasterCopyout, MasterReduce, Typed, MasterMethods, ClientMethods
  <2> QED BY <1>4, <2>2, <2>6, <2>7, <2>8 DEF MasterCopyout, MasterReduce, Typed
<1>5. ASSUME NEW id \in DOMAIN store, NEW x \in DOMAIN store[id], NEW v \in Data,
             MasterSetRemote(id, x, v)
      PROVE Typed'
  <2>1. id \in Nat /\ x \in Point /\ Owner[x] \in Proc /\ Owner[x] \in Nat /\ store \in Table
        /\ store[id] \in PartFun
    BY StoreFacts, MasterClientAssumption DEF Typed
  <2>2. bcast' \in [Proc -> Seq(Requests)] /\ bcast'[0] = << >>
    BY <1>5, <2>1, RequestFacts, NotifyFacts DEF MasterSetRemote, IdKinds
  <2>3. net' \in Nets
    BY <1>5, <2>1, PutFacts, MessageFacts DEF MasterSetRemote, Typed
  <2>4. store' \in Table /\ DOMAIN store' = DOMAIN store
    BY <1>5, <2>1, PartEdits, TableEdits DEF MasterSetRemote
  <2>5. calls' \in 0 .. MaxCalls
    <3>1. calls' = calls + 1 /\ calls < MaxCalls
      BY <1>5 DEF MasterSetRemote, UserCalls
    <3>2. calls \in Nat /\ MaxCalls \in Nat
      BY MasterClientAssumption DEF Typed
    <3> QED BY ONLY <3>1, <3>2
  <2> QED BY <1>5, <2>2, <2>3, <2>4, <2>5 DEF MasterSetRemote, Typed
<1>6. ASSUME NEW id \in DOMAIN store, NEW x \in DOMAIN store[id], NEW v \in Data,
             MasterSetLocal(id, x, v)
      PROVE Typed'
  <2>1. id \in Nat /\ x \in Point /\ store \in Table
        /\ store[id] \in PartFun /\ grids[0][id] \in PartFun
    BY StoreFacts DEF Typed
  <2>2. /\ grids' \in [Proc -> Table] /\ \A q \in Proc : DOMAIN grids'[q] = DOMAIN grids[q]
    <3>1. [grids[0][id] EXCEPT ![x] = v] \in PartFun /\ grids \in [Proc -> Table]
      BY <2>1, PartEdits DEF Typed
    <3>2. grids' = grids \/ grids' = [grids EXCEPT ![0][id] = [grids[0][id] EXCEPT ![x] = v]]
      BY <1>6 DEF MasterSetLocal
    <3> QED BY <3>1, <3>2, <2>1, GridEdits
  <2>4. store' \in Table /\ DOMAIN store' = DOMAIN store
    BY <1>6, <2>1, PartEdits, TableEdits DEF MasterSetLocal
  <2>5. calls' \in 0 .. MaxCalls
    <3>1. calls' = calls + 1 /\ calls < MaxCalls
      BY <1>6 DEF MasterSetLocal, UserCalls
    <3>2. calls \in Nat /\ MaxCalls \in Nat
      BY MasterClientAssumption DEF Typed
    <3> QED BY ONLY <3>1, <3>2
  <2> QED BY <1>6, <2>2, <2>4, <2>5 DEF MasterSetLocal, Typed
<1>7. ASSUME NEW id \in DOMAIN store, NEW x \in DOMAIN store[id], MasterGet(id, x)
      PROVE Typed'
  <2>1. id \in Nat /\ id \in DOMAIN grids[0] /\ x \in Point /\ Owner[x] \in Proc /\ store[id] \in PartFun
    BY StoreFacts, MasterClientAssumption DEF Typed
  <2>2. bcast' \in [Proc -> Seq(Requests)] /\ bcast'[0] = << >>
    BY <1>7, <2>1, RequestFacts, NotifyFacts DEF MasterGet, IdKinds
  <2>3. net' \in Nets /\ ld' \in [Proc -> LoadFields]
    BY <1>7, <2>1, MasterBegins
  <2>4. /\ pc' \in [Proc -> MasterMethods \cup ClientMethods] /\ pc'[0] \in MasterMethods
        /\ \A p \in Client : pc'[p] = pc[p]
        /\ cur' \in [Proc -> Nat] /\ cur'[0] = id /\ \A p \in Client : cur'[p] = cur[p]
    BY <1>7, <2>1 DEF MasterGet, Typed, MasterMethods, ClientMethods
  <2>5. call' \in [point: Point \cup {Nothing}, buf: PartFun, next: Nat]
    <3>1. << >> \in [DOMAIN << >> -> Data] /\ DOMAIN << >> = {}
      OBVIOUS
    <3>2. << >> \in PartFun
      BY <3>1, PartFunFacts
    <3> QED BY <1>7, <2>1, <3>2 DEF MasterGet, NoCall
  <2>6. remote' \subseteq DOMAIN store
    BY <1>7 DEF MasterGet, Typed
  <2>7. calls' \in 0 .. MaxCalls
    BY <1>7, MasterClientAssumption DEF MasterGet, UserCalls, Typed
  <2> QED BY <1>7, <2>1, <2>2, <2>3, <2>4, <2>5, <2>6, <2>7 DEF MasterGet, Typed
<1>8. ASSUME NEW id \in DOMAIN store, MasterRun(id) PROVE Typed'
  <2>1. id \in Nat /\ id \in DOMAIN grids[0] /\ store \in Table
        /\ store[id] \in PartFun /\ id \notin remote
    BY <1>8, StoreFacts DEF Typed, MasterRun, MayTouch
  <2>2. bcast' \in [Proc -> Seq(Requests)] /\ bcast'[0] = << >>
    BY <1>8, <2>1, RequestFacts, NotifyFacts DEF MasterRun, IdKinds
  <2>3. /\ grids' \in [Proc -> Table] /\ \A q \in Proc : DOMAIN grids'[q] = DOMAIN grids[q]
    <3>1. /\ grids' = [grids EXCEPT ![0][id] = [x \in DOMAIN grids[0][id] |-> Kernel[grids[0][id][x]]]]
          /\ [x \in DOMAIN grids[0][id] |-> Kernel[grids[0][id][x]]] \in PartFun
          /\ grids \in [Proc -> Table]
      BY <1>8, <2>1, KernelFacts DEF MasterRun, Typed
    <3> QED BY <3>1, <2>1, GridEdits
  <2>4. store' \in Table /\ DOMAIN store' = DOMAIN store
    BY <1>8, <2>1, PartEdits, TableEdits DEF MasterRun
  <2>5. calls' \in 0 .. MaxCalls
    <3>1. calls' = calls + 1 /\ calls < MaxCalls
      BY <1>8 DEF MasterRun, UserCalls
    <3>2. calls \in Nat /\ MaxCalls \in Nat
      BY MasterClientAssumption DEF Typed
    <3> QED BY ONLY <3>1, <3>2
  <2> QED BY <1>8, <2>2, <2>3, <2>4, <2>5 DEF MasterRun, Typed
<1>9. ASSUME MasterFinalize PROVE Typed'
  <2>2. bcast' \in [Proc -> Seq(Requests)] /\ bcast'[0] = << >>
    BY <1>9, RequestFacts, NotifyFacts DEF MasterFinalize, IdKinds
  <2>4. /\ pc' \in [Proc -> MasterMethods \cup ClientMethods] /\ pc'[0] \in MasterMethods
        /\ pc'[0] # "GridGet" /\ \A p \in Client : pc'[p] = pc[p]
    BY <1>9 DEF MasterFinalize, Typed, MasterMethods, ClientMethods
  <2> QED BY <1>9, <2>2, <2>4 DEF MasterFinalize, Typed, userVars
<1> QED BY <1>1, <1>2, <1>3, <1>4, <1>5, <1>6, <1>7, <1>8, <1>9 DEF UserStep

\* The parts the clients report to GridCopyin are parts of the grid.
PartsFit ==
  \A i \in Client :
    pc[0] = "GridCopyin" /\ Pending(net, i, 0) /\ Oldest(net, i, 0).kind = "PART" =>
      Oldest(net, i, 0).body \subseteq DOMAIN call.buf

LEMMA CopyinPart ==
  ASSUME Typed, PartsFit, NEW i \in Client, MasterCopyinNext(i)
  PROVE  /\ Oldest(net, i, 0).body \in SUBSET Point
         /\ [x \in Oldest(net, i, 0).body |-> call.buf[x]] \in PartFun
<1> DEFINE m == Oldest(net, i, 0)
           d == [x \in m.body |-> call.buf[x]]
<1>1. /\ Pending(net, i, 0) /\ m.kind = "PART" /\ net \in Nets /\ pc[0] = "GridCopyin"
      /\ call.buf \in PartFun /\ i \in Proc /\ 0 \in Proc
  BY ProcFacts DEF MasterCopyinNext, Typed
<1>2. m \in RpcMessage
  BY <1>1, DropFacts
<1>3. m.body \subseteq DOMAIN call.buf /\ m.body \subseteq Point
  BY <1>1, <1>2, MessageFacts DEF PartsFit
<1> HIDE DEF m
<1>4. d \in [m.body -> Data]
  BY <1>1, <1>3, PartFunFacts
<1>5. d \in PartFun
  <2> HIDE DEF d
  <2> QED BY <1>3, <1>4, PartFunFacts
<1> QED BY <1>3, <1>5 DEF m

LEMMA TypedMaster ==
  ASSUME Typed, PartsFit, NEW i \in Client,
         MasterCopyinNext(i) \/ MasterCopyoutNext(i)
  PROVE  Typed'
<1> USE ProcFacts
<1>1. CASE MasterCopyinNext(i)
  <2> DEFINE m == Oldest(net, i, 0)
             d == [x \in m.body |-> call.buf[x]]
  <2>1. /\ Pending(net, i, 0) /\ m.kind = "PART" /\ net \in Nets /\ pc[0] = "GridCopyin"
        /\ net' = IF m.body = {} THEN Drop(net, i, 0) ELSE Put(Drop(net, i, 0), 0, i, DataMsg(d))
        /\ call' = [call EXCEPT !.next = @ + 1]
        /\ call.buf \in PartFun
    BY <1>1 DEF MasterCopyinNext, Typed
  <2>2. m \in RpcMessage /\ Drop(net, i, 0) \in Nets
    BY <2>1, DropFacts
  <2>5. d \in PartFun
    BY <1>1, CopyinPart
  <2> HIDE DEF d
  <2>6. net' \in Nets
    BY <2>1, <2>2, <2>5, PutFacts, MessageFacts
  <2>7. call' \in [point: Point \cup {Nothing}, buf: PartFun, next: Nat]
    <3>1. call \in [point: Point \cup {Nothing}, buf: PartFun, next: Nat]
      BY DEF Typed
    <3> QED BY <2>1, <3>1
  <2> QED BY <1>1, <2>6, <2>7 DEF MasterCopyinNext, Typed, userVars
<1>2. CASE MasterCopyoutNext(i)
  <2> DEFINE m == Oldest(net, i, 0)
  <2>1. /\ Pending(net, i, 0) /\ m.kind = "DATA" /\ net \in Nets
        /\ net' = Drop(net, i, 0)
        /\ call' = [call EXCEPT !.next = call.next + 1, !.buf = Merged(m.body, call.buf)]
        /\ call.buf \in PartFun
    BY <1>2 DEF MasterCopyoutNext, Typed
  <2>2. m \in RpcMessage /\ net' \in Nets
    BY <2>1, DropFacts
  <2> HIDE DEF m
  <2>3. Merged(m.body, call.buf) \in PartFun
    BY <2>1, <2>2, MessageFacts, PartEdits
  <2>4. call' \in [point: Point \cup {Nothing}, buf: PartFun, next: Nat]
    <3>1. call \in [point: Point \cup {Nothing}, buf: PartFun, next: Nat]
      BY DEF Typed
    <3>2. [call EXCEPT !.next = call.next + 1] \in [point: Point \cup {Nothing}, buf: PartFun, next: Nat]
      BY <3>1
    <3> QED BY <2>1, <2>3, <3>2
  <2> QED BY <1>2, <2>2, <2>4 DEF MasterCopyoutNext, Typed, userVars
<1> QED BY <1>1, <1>2

LEMMA TypedReturns ==
  ASSUME Typed, MasterCopyinReturn \/ MasterCopyoutReturn \/ MasterGetReturn \/ MasterReduceReturn
  PROVE  Typed'
<1> USE ProcFacts
<1>1. ASSUME MasterCopyinReturn \/ MasterCopyoutReturn \/ MasterReduceReturn \/ MasterGetReturn
      PROVE  /\ pc' \in [Proc -> MasterMethods \cup ClientMethods] /\ pc'[0] = "user"
             /\ pc'[0] \in MasterMethods /\ \A p \in Client : pc'[p] = pc[p]
             /\ call' \in [point: Point \cup {Nothing}, buf: PartFun, next: Nat]
             /\ settled' \in BOOLEAN
  <2>1. NoCall \in [point: Point \cup {Nothing}, buf: PartFun, next: Nat]
    <3>1. << >> \in [DOMAIN << >> -> Data] /\ DOMAIN << >> = {}
      OBVIOUS
    <3>2. << >> \in PartFun
      BY <3>1, PartFunFacts
    <3> QED BY <3>2 DEF NoCall
  <2> QED BY <1>1, <2>1 DEF MasterCopyinReturn, MasterCopyoutReturn, MasterReduceReturn, MasterGetReturn,
                            Typed, MasterMethods, ClientMethods
<1>2. CASE MasterCopyinReturn \/ MasterCopyoutReturn
  BY <1>1, <1>2 DEF MasterCopyinReturn, MasterCopyoutReturn, Typed
<1>3. CASE MasterReduceReturn
  <2>1. /\ \A p \in Client : partials[p] # << >> /\ partials[p] \in Seq(PartFun)
        /\ partials' = [p \in Proc |-> IF p = 0 THEN << >> ELSE Tail(partials[p])]
    BY <1>3 DEF MasterReduceReturn, Typed
  <2>2. \A p \in Client : Tail(partials[p]) \in Seq(PartFun)
    BY <2>1, TakenFirst
  <2>3. partials' \in [Proc -> Seq(PartFun)] /\ partials'[0] = << >>
    BY <2>1, <2>2
  <2> QED BY <1>1, <1>3, <2>3 DEF MasterReduceReturn, Typed
<1>4. CASE MasterGetReturn
  <2>1. ld' = [ld EXCEPT ![0].active = FALSE] /\ net' = net /\ ld \in [Proc -> LoadFields]
    BY <1>4 DEF MasterGetReturn, EndLoad, Typed
  <2>2. ld' \in [Proc -> LoadFields]
    BY <2>1 DEF LoadFields
  <2> QED BY <1>1, <1>4, <2>1, <2>2 DEF MasterGetReturn, Typed
<1> QED BY <1>2, <1>3, <1>4

\* What a client holds, and what it serves from it.
LEMMA GridFacts ==
  ASSUME Typed, NEW p \in Proc, NEW id \in DOMAIN grids[p]
  PROVE  /\ id \in Nat /\ grids[p][id] \in PartFun /\ DOMAIN grids[p][id] \subseteq Point
         /\ \A x : ContentAt(p, id, x) \in Data \cup {Garbage}
  BY TableFacts, PartFunFacts DEF Typed, ContentAt

\* The locals of LoadSubgrid, edited one by one.
LEMMA FieldEdits ==
  ASSUME NEW l \in LoadFields
  PROVE  /\ \A b \in BOOLEAN : [l EXCEPT !.active = b] \in LoadFields
         /\ \A b \in BOOLEAN : [l EXCEPT !.doneSent = b] \in LoadFields
         /\ \A n \in Nat : [l EXCEPT !.done = n] \in LoadFields
         /\ \A n \in Int : [l EXCEPT !.remaining = n] \in LoadFields
         /\ \A q \in Proc, x \in Data \cup {Garbage} : [l EXCEPT !.sg[q] = x] \in LoadFields
         /\ l.done \in Nat /\ l.remaining \in Int
  BY DEF LoadFields

LEMMA LoadEdits ==
  ASSUME NEW l \in [Proc -> LoadFields], NEW p \in Proc
  PROVE  /\ [l EXCEPT ![p].done = @ + 1, ![p].doneSent = TRUE] \in [Proc -> LoadFields]
         /\ [l EXCEPT ![p].done = @ + 1] \in [Proc -> LoadFields]
         /\ \A q \in Proc, v \in Data \cup {Garbage} :
              [l EXCEPT ![p].sg[q] = v, ![p].remaining = @ - 1] \in [Proc -> LoadFields]
<1>1. l[p] \in LoadFields /\ l[p].done + 1 \in Nat /\ l[p].remaining - 1 \in Int
  BY FieldEdits
<1> DEFINE e == [l[p] EXCEPT !.done = l[p].done + 1]
<1>2. e \in LoadFields
  BY <1>1, FieldEdits
<1>3. [e EXCEPT !.doneSent = TRUE] \in LoadFields
  <2> HIDE DEF e
  <2> QED BY <1>2, FieldEdits
<1>4. [l EXCEPT ![p].done = @ + 1] = [l EXCEPT ![p] = e]
  OBVIOUS
<1>5. [l EXCEPT ![p].done = @ + 1, ![p].doneSent = TRUE] = [l EXCEPT ![p] = [e EXCEPT !.doneSent = TRUE]]
  OBVIOUS
<1>6. ASSUME NEW q \in Proc, NEW v \in Data \cup {Garbage}
      PROVE  [l EXCEPT ![p].sg[q] = v, ![p].remaining = @ - 1] \in [Proc -> LoadFields]
  <2> DEFINE f == [l[p] EXCEPT !.sg[q] = v]
             g == [f EXCEPT !.remaining = l[p].remaining - 1]
  <2>1. f \in LoadFields
    BY <1>1, FieldEdits
  <2>2. g \in LoadFields
    <3> HIDE DEF f
    <3> QED BY <1>1, <2>1, FieldEdits
  <2>3. f.remaining = l[p].remaining
    BY <1>1 DEF LoadFields
  <2>4. [l EXCEPT ![p].sg[q] = v, ![p].remaining = @ - 1] = [l EXCEPT ![p] = g]
    BY <2>3
  <2> HIDE DEF f, g
  <2> QED BY <2>2, <2>4
<1> HIDE DEF e
<1> QED BY <1>2, <1>3, <1>4, <1>5, <1>6

LEMMA AnnounceFacts ==
  ASSUME Typed, NEW p \in Proc, Announce(p)
  PROVE  /\ net' \in Nets /\ ld' \in [Proc -> LoadFields]
         /\ \A a, b \in Proc : net'[a][b] = IF a = p /\ b # p THEN Append(net[a][b], Done(0))
                                                              ELSE net[a][b]
         /\ ld' = [ld EXCEPT ![p].done = @ + 1, ![p].doneSent = TRUE]
<1> DEFINE m == Done(0)
<1>1. /\ net' = Multicast(net, p, Proc \ {p}, m) /\ net \in Nets
      /\ ld' = [ld EXCEPT ![p].done = @ + 1, ![p].doneSent = TRUE]
      /\ ld \in [Proc -> LoadFields] /\ m \in RpcMessage
  BY MessageFacts DEF Announce, AnnounceDone, Typed
<1> HIDE DEF m
<1>2. \A a, b \in Proc : net[a][b] \in Seq(RpcMessage) /\ Append(net[a][b], m) \in Seq(RpcMessage)
  BY <1>1 DEF Nets
<1>3. /\ net' \in Nets
      /\ \A a, b \in Proc : net'[a][b] = IF a = p /\ b # p THEN Append(net[a][b], m) ELSE net[a][b]
  BY <1>1, <1>2 DEF Multicast, Nets
<1>4. ld' \in [Proc -> LoadFields]
  BY <1>1, LoadEdits
<1> QED BY <1>1, <1>3, <1>4 DEF m

LEMMA TypedFetch ==
  ASSUME Typed, NEW p \in Proc, pc[p] = "GridGet", Fetch(p) PROVE Typed'
<1>1. net \in Nets /\ ld \in [Proc -> LoadFields] /\ UNCHANGED <<rpcVars, remote, userVars>>
  BY DEF Fetch, Announce, CountDone, Serve, TakeReply, fetchFrame, Typed
<1>2. SUFFICES net' \in Nets /\ ld' \in [Proc -> LoadFields]
  BY <1>1 DEF Typed, rpcVars, userVars
<1>3. CASE Announce(p)
  BY <1>3, AnnounceFacts
<1>4. ASSUME NEW q \in Proc, CountDone(p, q)
      PROVE  net' \in Nets /\ ld' \in [Proc -> LoadFields]
  <2>1. Pending(net, q, p) /\ net' = Drop(net, q, p) /\ ld' = [ld EXCEPT ![p].done = @ + 1]
    BY <1>4 DEF CountDone, RecvDone, Hears
  <2>2. net' \in Nets
    BY <1>1, <2>1, DropFacts
  <2>3. ld' \in [Proc -> LoadFields]
    BY <1>1, <2>1, LoadEdits
  <2> QED BY <2>2, <2>3
<1>5. ASSUME NEW q \in Proc, Serve(p, q)
      PROVE  net' \in Nets /\ ld' \in [Proc -> LoadFields]
  <2> DEFINE v == ContentAt(p, cur[p], Oldest(net, q, p).body)
  <2>1. /\ Pending(net, q, p) /\ ld' = ld
        /\ net' = Put(Reallocate(Drop(net, q, p), p), p, q, Reply(v))
    BY <1>5 DEF Serve, HandleFetchRequest, Hears
  <2>2. v \in Data \cup {Garbage}
    BY GridFacts DEF Typed
  <2> HIDE DEF v
  <2>3. Drop(net, q, p) \in Nets
    BY <1>1, <2>1, DropFacts
  <2>4. Reallocate(Drop(net, q, p), p) \in Nets
    BY <2>3, ReallocateFacts
  <2>5. net' \in Nets
    BY <2>1, <2>2, <2>4, PutFacts, MessageFacts
  <2> QED BY <1>1, <2>1, <2>5
<1>6. ASSUME NEW q \in Proc, TakeReply(p, q)
      PROVE  net' \in Nets /\ ld' \in [Proc -> LoadFields]
  <2> DEFINE n == Reallocate(net, p)
             v == Oldest(n, q, p).body
  <2>1. /\ Pending(net, q, p) /\ Oldest(net, q, p).kind = "FETCH_REPLY"
        /\ net' = Drop(n, q, p)
        /\ ld' = [ld EXCEPT ![p].sg[q] = v, ![p].remaining = @ - 1]
    BY <1>6 DEF TakeReply, HandleFetchReply, Hears
  <2>2. n \in Nets /\ SameButReplies(net[q][p], n[q][p]) /\ net[q][p] \in Seq(RpcMessage)
    BY <1>1, ReallocateFacts DEF Nets
  <2>3. n[q][p] # << >> /\ Head(n[q][p]).kind = "FETCH_REPLY"
    BY <2>1, <2>2, SameKinds DEF Pending, Oldest
  <2>4. Pending(n, q, p) /\ Oldest(n, q, p).kind = "FETCH_REPLY"
    BY <2>3 DEF Pending, Oldest
  <2> HIDE DEF n
  <2>5. net' \in Nets /\ Oldest(n, q, p) \in RpcMessage
    BY <2>1, <2>2, <2>4, DropFacts
  <2>6. v \in Data \cup {Garbage}
    BY <2>4, <2>5, MessageFacts
  <2> HIDE DEF v
  <2>7. ld' \in [Proc -> LoadFields]
    BY <1>1, <2>1, <2>6, LoadEdits
  <2> QED BY <2>5, <2>7
<1> QED BY <1>3, <1>4, <1>5, <1>6 DEF Fetch

\* What a client step leaves alone.
LEMMA ClientFrame ==
  ASSUME Typed, NEW p \in Client, UNCHANGED <<call, remote, userVars>>,
         net' \in Nets, ld' \in [Proc -> LoadFields],
         bcast' \in [Proc -> Seq(Requests)] /\ bcast'[0] = << >>,
         partials' \in [Proc -> Seq(PartFun)] /\ partials'[0] = << >>,
         \E m \in ClientMethods : pc' = [pc EXCEPT ![p] = m],
         \E id \in Nat : cur' = [cur EXCEPT ![p] = id],
         grids' \in [Proc -> Table] /\ grids'[0] = grids[0],
         \A q \in Proc : q # p => DOMAIN grids'[q] = DOMAIN grids[q],
         pc'[p] = "GridGet" => cur'[p] \in DOMAIN grids'[p],
         counter' \in [Proc -> Nat] /\ counter'[0] = counter[0]
  PROVE  Typed'
<1> USE ProcFacts
<1>1. /\ pc' \in [Proc -> MasterMethods \cup ClientMethods] /\ pc'[0] = pc[0]
      /\ pc'[p] \in ClientMethods /\ \A q \in Proc : q # p => pc'[q] = pc[q]
  BY DEF Typed
<1>2. cur' \in [Proc -> Nat] /\ \A q \in Proc : q # p => cur'[q] = cur[q]
  BY DEF Typed
<1> QED BY <1>1, <1>2 DEF Typed, userVars

LEMMA SamePlace ==
  ASSUME Typed, NEW p \in Client
  PROVE  /\ pc = [pc EXCEPT ![p] = pc[p]] /\ pc[p] \in ClientMethods
         /\ cur = [cur EXCEPT ![p] = cur[p]] /\ cur[p] \in Nat
         /\ net \in Nets /\ ld \in [Proc -> LoadFields] /\ partials \in [Proc -> Seq(PartFun)]
         /\ partials[0] = << >> /\ bcast \in [Proc -> Seq(Requests)] /\ bcast[0] = << >>
         /\ grids \in [Proc -> Table] /\ counter \in [Proc -> Nat]
         /\ p \in Proc /\ p # 0 /\ 0 \in Proc
  BY ProcFacts DEF Typed

LEMMA TypedClient ==
  ASSUME Typed, NEW p \in Client,
         \/ ClientNew(p) \/ ClientDelete(p) \/ ClientCopyin(p) \/ ClientCopyinData(p)
         \/ ClientCopyout(p) \/ ClientGet(p) \/ ClientGetReturn(p) \/ ClientSet(p)
         \/ ClientSetData(p) \/ ClientRun(p) \/ ClientReduce(p) \/ ClientFinalize(p)
  PROVE  Typed'
<1> USE SamePlace
<1>0. /\ {"Listen", "GridCopyin", "GridGet", "GridSet", "exit"} \subseteq ClientMethods
      /\ {"FUNC_DELETE", "FUNC_COPYIN", "FUNC_COPYOUT", "FUNC_GET", "FUNC_SET",
          "FUNC_RUN", "FUNC_GRID_REDUCE", "FUNC_FINALIZE"} \subseteq IdKinds
  BY DEF ClientMethods, IdKinds
<1>1. CASE ClientNew(p)
  <2> DEFINE f == [x \in Part(Opt(p), p) |-> Zero]
  <2>1. bcast' \in [Proc -> Seq(Requests)] /\ bcast'[0] = << >> /\ Opt(p) \in SUBSET Point
        /\ pc[p] = "Listen"
    <3>1. /\ bcast' \in [Proc -> Seq(Requests)] /\ bcast'[0] = << >> /\ pc[p] = "Listen"
          /\ Head(bcast[p]) \in Requests /\ bcast[p][1] = Head(bcast[p])
          /\ bcast[p][1].kind = "FUNC_NEW" /\ bcast[p][1].opt = Opt(p)
      BY <1>1, TakesFacts DEF ClientNew
    <3> QED BY <3>1, RequestFacts
  <2>2. f \in PartFun /\ counter[p] \in Nat /\ grids[p] \in Table
    BY <2>1, NewPart
  <2>3. grids' = [grids EXCEPT ![p] = With(grids[p], counter[p], f)]
    BY <1>1 DEF ClientNew, CreateGrid
  <2> HIDE DEF f
  <2>4. With(grids[p], counter[p], f) \in Table
    BY <2>2, TableEdits
  <2>5. /\ grids' \in [Proc -> Table] /\ grids'[0] = grids[0]
        /\ \A q \in Proc : q # p => grids'[q] = grids[q]
    BY <2>3, <2>4
  <2>6. counter' \in [Proc -> Nat] /\ counter'[0] = counter[0]
    BY <1>1, <2>2 DEF ClientNew
  <2> QED BY <1>1, <2>1, <2>5, <2>6, ClientFrame DEF ClientNew, clientFrame
<1>2. CASE ClientDelete(p)
  <2>1. bcast' \in [Proc -> Seq(Requests)] /\ bcast'[0] = << >> /\ pc[p] = "Listen"
    BY <1>2, TakesFacts DEF ClientDelete
  <2>2. Opt(p) \in DOMAIN grids[p] /\ grids' = [grids EXCEPT ![p] = Without(grids[p], Opt(p))]
    BY <1>2 DEF ClientDelete, DeleteGrid, Knows
  <2>3. Without(grids[p], Opt(p)) \in Table
    BY <2>2, GridFacts, TableEdits
  <2>4. /\ grids' \in [Proc -> Table] /\ grids'[0] = grids[0]
        /\ \A q \in Proc : q # p => grids'[q] = grids[q]
    BY <2>2, <2>3
  <2> QED BY <1>2, <2>1, <2>4, ClientFrame DEF ClientDelete, clientFrame
<1>3. CASE ClientCopyin(p)
  <2>1. bcast' \in [Proc -> Seq(Requests)] /\ bcast'[0] = << >>
    BY <1>3, TakesFacts DEF ClientCopyin
  <2>2. Opt(p) \in DOMAIN grids[p] /\ net' = Put(net, p, 0, PartMsg(DOMAIN grids[p][Opt(p)]))
    BY <1>3 DEF ClientCopyin, Knows
  <2>3. Opt(p) \in Nat /\ net' \in Nets
    BY <2>2, GridFacts, MessageFacts, PutFacts
  <2>4. /\ \E m \in ClientMethods : pc' = [pc EXCEPT ![p] = m]
        /\ pc'[p] # "GridGet"
    BY <1>0, <1>3 DEF ClientCopyin, Typed
  <2> QED BY <1>3, <2>1, <2>3, <2>4, ClientFrame DEF ClientCopyin, clientFrame
<1>4. CASE ClientCopyinData(p)
  <2> DEFINE m == Oldest(net, 0, p)
  <2>1. /\ Pending(net, 0, p) /\ m.kind = "DATA" /\ net' = Drop(net, 0, p)
        /\ grids' = [grids EXCEPT ![p][cur[p]] = m.body] /\ cur[p] \in Nat
    BY <1>4 DEF ClientCopyinData
  <2>2. net' \in Nets /\ m \in RpcMessage
    BY <2>1, DropFacts
  <2> HIDE DEF m
  <2>3. m.body \in PartFun
    BY <2>1, <2>2, MessageFacts
  <2>4. grids' \in [Proc -> Table] /\ \A q \in Proc : DOMAIN grids'[q] = DOMAIN grids[q]
    BY <2>1, <2>3, GridEdits, ZenonT(30)
  <2>5. grids'[0] = grids[0]
    BY <2>1
  <2>6. /\ pc' = [pc EXCEPT ![p] = "Listen"] /\ pc'[p] # "GridGet"
    BY <1>4 DEF ClientCopyinData, Typed
  <2> QED BY <1>0, <1>4, <2>2, <2>4, <2>5, <2>6, ClientFrame DEF ClientCopyinData, clientFrame
<1>5. CASE ClientCopyout(p)
  <2>1. bcast' \in [Proc -> Seq(Requests)] /\ bcast'[0] = << >> /\ pc[p] = "Listen"
    BY <1>5, TakesFacts DEF ClientCopyout
  <2>2. Opt(p) \in DOMAIN grids[p] /\ net' = Put(net, p, 0, DataMsg(grids[p][Opt(p)]))
    BY <1>5 DEF ClientCopyout, Knows
  <2>3. net' \in Nets
    BY <2>2, GridFacts, MessageFacts, PutFacts
  <2> QED BY <1>5, <2>1, <2>3, ClientFrame DEF ClientCopyout, clientFrame
<1>6. CASE ClientGet(p)
  <2>1. bcast' \in [Proc -> Seq(Requests)] /\ bcast'[0] = << >>
    BY <1>6, TakesFacts DEF ClientGet
  <2>2. Opt(p) \in DOMAIN grids[p] /\ Opt(p) \in Nat
    BY <1>6, GridFacts DEF ClientGet, Knows
  <2>3. net' = net /\ ld' \in [Proc -> LoadFields]
    BY <1>6, ClientBegins
  <2>4. pc' = [pc EXCEPT ![p] = "GridGet"] /\ cur' = [cur EXCEPT ![p] = Opt(p)]
    BY <1>6 DEF ClientGet
  <2>5. cur'[p] = Opt(p)
    BY <2>4 DEF Typed
  <2>6. /\ UNCHANGED <<partials, grids, counter>> /\ UNCHANGED <<call, remote, userVars>>
    BY <1>6 DEF ClientGet, clientFrame
  <2>7. /\ \E m \in ClientMethods : pc' = [pc EXCEPT ![p] = m]
        /\ \E id \in Nat : cur' = [cur EXCEPT ![p] = id]
    BY <1>0, <2>2, <2>4
  <2> HIDE <1>6
  <2> QED BY <2>1, <2>2, <2>3, <2>5, <2>6, <2>7, ClientFrame
<1>7. CASE ClientGetReturn(p)
  <2>1. net' = net /\ ld' = [ld EXCEPT ![p].active = FALSE]
    BY <1>7 DEF ClientGetReturn, EndLoad
  <2>2. [ld[p] EXCEPT !.active = FALSE] \in LoadFields
    BY FieldEdits
  <2>3. ld' \in [Proc -> LoadFields]
    BY <2>1, <2>2
  <2>4. pc' = [pc EXCEPT ![p] = "Listen"] /\ pc'[p] # "GridGet"
    BY <1>7 DEF ClientGetReturn, Typed
  <2> QED BY <1>0, <1>7, <2>1, <2>3, <2>4, ClientFrame DEF ClientGetReturn, clientFrame
<1>8. CASE ClientSet(p)
  <2>1. bcast' \in [Proc -> Seq(Requests)] /\ bcast'[0] = << >>
    BY <1>8, TakesFacts DEF ClientSet
  <2>2. /\ \E m \in ClientMethods : pc' = [pc EXCEPT ![p] = m]
        /\ pc'[p] # "GridGet"
    BY <1>0, <1>8 DEF ClientSet, Typed
  <2> QED BY <1>8, <2>1, <2>2, ClientFrame DEF ClientSet, clientFrame
<1>9. CASE ClientSetData(p)
  <2> DEFINE m == Oldest(net, 0, p)
  <2>1. /\ Pending(net, 0, p) /\ m.kind = "SET" /\ net' = Drop(net, 0, p)
        /\ m.body.id \in DOMAIN grids[p]
        /\ grids' = [grids EXCEPT ![p][m.body.id][m.body.point] = m.body.value]
    BY <1>9 DEF ClientSetData, Knows
  <2>2. net' \in Nets /\ m \in RpcMessage
    BY <2>1, DropFacts
  <2> HIDE DEF m
  <2>3. m.body.id \in Nat /\ m.body.point \in Point /\ m.body.value \in Data
    BY <2>1, <2>2, MessageFacts
  <2> DEFINE f == [grids[p][m.body.id] EXCEPT ![m.body.point] = m.body.value]
  <2>4. f \in PartFun
    BY <2>1, <2>3, GridFacts, PartEdits
  <2>5. grids' = [grids EXCEPT ![p][m.body.id] = f]
    BY <2>1
  <2> HIDE DEF f
  <2>6. grids' \in [Proc -> Table] /\ \A q \in Proc : DOMAIN grids'[q] = DOMAIN grids[q]
    BY <2>3, <2>4, <2>5, GridEdits, ZenonT(30)
  <2>7. grids'[0] = grids[0]
    BY <2>1
  <2>8. /\ pc' = [pc EXCEPT ![p] = "Listen"] /\ pc'[p] # "GridGet"
    BY <1>9 DEF ClientSetData, Typed
  <2> QED BY <1>0, <1>9, <2>2, <2>6, <2>7, <2>8, ClientFrame DEF ClientSetData, clientFrame
<1>10. CASE ClientRun(p)
  <2>1. bcast' \in [Proc -> Seq(Requests)] /\ bcast'[0] = << >> /\ pc[p] = "Listen"
    BY <1>10, TakesFacts DEF ClientRun
  <2> DEFINE f == [x \in DOMAIN grids[p][Opt(p)] |-> Kernel[grids[p][Opt(p)][x]]]
  <2>2. Opt(p) \in DOMAIN grids[p] /\ grids' = RunKernel(grids, p, Opt(p))
    BY <1>10 DEF ClientRun, Knows
  <2>3. f \in PartFun /\ grids' = [grids EXCEPT ![p][Opt(p)] = f] /\ Opt(p) \in Nat
    BY <2>2, KernelFacts, ZenonT(30)
  <2> HIDE DEF f
  <2>4. grids' \in [Proc -> Table] /\ \A q \in Proc : DOMAIN grids'[q] = DOMAIN grids[q]
    BY <2>3, GridEdits
  <2>5. grids'[0] = grids[0]
    BY <2>3
  <2> QED BY <1>10, <2>1, <2>4, <2>5, ClientFrame DEF ClientRun, clientFrame
<1>11. CASE ClientReduce(p)
  <2>1. bcast' \in [Proc -> Seq(Requests)] /\ bcast'[0] = << >> /\ pc[p] = "Listen"
    BY <1>11, TakesFacts DEF ClientReduce
  <2>2. /\ Opt(p) \in DOMAIN grids[p]
        /\ partials' = [partials EXCEPT ![p] = Append(partials[p], grids[p][Opt(p)])]
    BY <1>11 DEF ClientReduce, Knows
  <2>3. Append(partials[p], grids[p][Opt(p)]) \in Seq(PartFun)
    BY <2>2, GridFacts
  <2>4. partials' \in [Proc -> Seq(PartFun)] /\ partials'[0] = << >>
    BY <2>2, <2>3
  <2> QED BY <1>11, <2>1, <2>4, ClientFrame DEF ClientReduce, clientFrame
<1>12. CASE ClientFinalize(p)
  <2>1. bcast' \in [Proc -> Seq(Requests)] /\ bcast'[0] = << >>
    BY <1>12, TakesFacts DEF ClientFinalize
  <2>2. pc' = [pc EXCEPT ![p] = "exit"] /\ pc'[p] # "GridGet"
    BY <1>12 DEF ClientFinalize, Typed
  <2> QED BY <1>0, <1>12, <2>1, <2>2, ClientFrame DEF ClientFinalize, clientFrame
<1> QED BY <1>1, <1>2, <1>3, <1>4, <1>5, <1>6, <1>7, <1>8, <1>9, <1>10, <1>11, <1>12

-----------------------------------------------------------------------------
(* Which requests, answers and methods go together.                         *)

Before(p) == Has(bcast[p], "FUNC_GET")
During(p) == pc[p] = "GridGet"
Last(p)   == bcast[p][Len(bcast[p])]

\* The calls in which the master waits for an answer of every client.
Answered  == {"FUNC_COPYIN", "FUNC_COPYOUT", "FUNC_GRID_REDUCE"}
CallOf(m) == CASE m = "GridCopyin"  -> "FUNC_COPYIN"
               [] m = "GridCopyout" -> "FUNC_COPYOUT"
               [] m = "GridReduce"  -> "FUNC_GRID_REDUCE"
               [] OTHER -> "none"
Asking == pc[0] \in {"GridCopyin", "GridCopyout", "GridReduce"}

\* What the queue of broadcasts of client p can look like.
Ordered(p) ==
  \A i \in DOMAIN bcast[p] :
    LET k == bcast[p][i].kind
    IN  /\ k \in Answered => i = Len(bcast[p]) /\ k = CallOf(pc[0])
        /\ k = "FUNC_FINALIZE" => i = Len(bcast[p]) /\ pc[0] = "exit"
        /\ k \in {"FUNC_GET", "FUNC_SET"} => ~During(p)
        /\ k = "FUNC_GET" => \A j \in DOMAIN bcast[p] :
             j > i => bcast[p][j].kind \notin {"FUNC_GET", "FUNC_SET"}

\* How far p is with a PSGridGet of the master.
GetCall(p) ==
  /\ ~During(0) /\ settled => ~Before(p) /\ ~During(p)
  /\ During(0) /\ Before(p) => Last(p) = Req("FUNC_GET", cur[0])
  /\ During(0) /\ ~Before(p) => bcast[p] = << >>
  /\ During(0) /\ During(p) => cur[p] = cur[0]

\* How far p is with a call that the master awaits an answer to.
Answers(p) ==
  /\ Asking /\ bcast[p] # << >> => Last(p).kind = CallOf(pc[0])
  /\ Asking /\ bcast[p] = << >> =>
       pc[p] = "Listen" \/ (pc[p] = "GridCopyin" /\ pc[0] = "GridCopyin")
  /\ pc[0] \in {"GridCopyin", "GridCopyout"} /\ p < call.next => bcast[p] = << >>
  /\ Has(net[p][0], "PART") => pc[0] = "GridCopyin"
  /\ Has(net[p][0], "DATA") => pc[0] = "GridCopyout"
  /\ Has(net[p][0], "PART") \/ Has(net[p][0], "DATA") => call.next <= p /\ bcast[p] = << >>
  /\ AtMostOne(net[p][0], "PART") /\ AtMostOne(net[p][0], "DATA")
  /\ partials[p] # << >> => pc[0] = "GridReduce" /\ bcast[p] = << >> /\ Len(partials[p]) = 1
  /\ pc[p] = "exit" => bcast[p] = << >> /\ pc[0] = "exit"

ActiveIsGet == \A p \in Proc : ld[p].active <=> During(p)

Control == /\ \A p \in Client : Ordered(p) /\ GetCall(p) /\ Answers(p)
           /\ ActiveIsGet

LEMMA ControlInit == Init => Control
<1> SUFFICES ASSUME Init PROVE Control
  OBVIOUS
<1>1. /\ \A p \in Proc : bcast[p] = << >> /\ partials[p] = << >> /\ net[p][0] = << >>
      /\ \A p \in Client : pc[p] = "Listen"
      /\ pc[0] = "user"
      /\ \A p \in Proc : ~ld[p].active
  BY ProcFacts DEF Init, FetchInit, EmptyNet, NoLoad
<1>2. DOMAIN << >> = {}
  OBVIOUS
<1> QED BY <1>1, <1>2, ProcFacts
        DEF Control, Ordered, GetCall, Answers, ActiveIsGet, Has, AtMostOne, Before, During, Asking

\* No answer to a call of the master is added to a channel.
Keeps(s, t) ==
  \A k \in {"PART", "DATA"} : /\ Has(t, k) => Has(s, k)
                              /\ AtMostOne(s, k) => AtMostOne(t, k)

LEMMA ControlSame ==
  ASSUME NEW p \in Client, Ordered(p), GetCall(p), Answers(p), Keeps(net[p][0], net'[p][0]),
         bcast'[p] = bcast[p], pc'[p] = pc[p], pc'[0] = pc[0], cur'[p] = cur[p],
         cur'[0] = cur[0], call'.next = call.next, partials'[p] = partials[p],
         settled' = settled
  PROVE  Ordered(p)' /\ GetCall(p)' /\ Answers(p)'
<1>1. Before(p)' <=> Before(p)
  BY DEF Before, Has
<1>2. Ordered(p)'
  BY DEF Ordered, During
<1>3. GetCall(p)'
  BY <1>1 DEF GetCall, During, Last
<1>4. Answers(p)'
  BY DEF Answers, Keeps, Asking, Last
<1> QED BY <1>2, <1>3, <1>4

\* p takes a broadcast.
LEMMA ControlTakes ==
  ASSUME Typed, NEW p \in Client, NEW k, Takes(p, k), Ordered(p), GetCall(p), Answers(p),
         pc'[0] = pc[0], cur'[0] = cur[0], call' = call, settled' = settled,
         pc'[p] = "GridGet" <=> k = "FUNC_GET",
         k = "FUNC_GET" => cur'[p] = Opt(p),
         pc'[p] = "GridCopyin" => k = "FUNC_COPYIN",
         pc'[p] = "exit" => k = "FUNC_FINALIZE",
         pc'[p] = "GridSet" => k = "FUNC_SET",
         pc'[p] \in ClientMethods,
         \/ net'[p][0] = net[p][0]
         \/ \E m \in RpcMessage : /\ net'[p][0] = Append(net[p][0], m)
                                  /\ \/ m.kind = "PART" /\ k = "FUNC_COPYIN"
                                     \/ m.kind = "DATA" /\ k = "FUNC_COPYOUT",
         \/ partials'[p] = partials[p]
         \/ \E f \in PartFun : partials'[p] = Append(partials[p], f) /\ k = "FUNC_GRID_REDUCE"
  PROVE  Ordered(p)' /\ GetCall(p)' /\ Answers(p)'
<1> DEFINE s == bcast[p]
           t == bcast'[p]
<1>1. /\ s \in Seq(Requests) /\ s # << >> /\ t = Tail(s) /\ pc[p] = "Listen"
      /\ s[1].kind = k /\ s[1].opt = Opt(p) /\ Head(s) = s[1]
  BY TakesFacts
<1>2. /\ Len(s) \in Nat /\ Len(s) > 0 /\ DOMAIN s = 1 .. Len(s)
      /\ Len(t) = Len(s) - 1 /\ DOMAIN t = 1 .. Len(s) - 1
      /\ \A i \in 1 .. Len(s) - 1 : t[i] = s[i + 1]
      /\ t = << >> <=> Len(s) = 1
  BY <1>1, TakenFirst
<1>3. ~During(p) /\ ~Has(net[p][0], "PART") /\ ~Has(net[p][0], "DATA") /\ partials[p] = << >>
  BY <1>1 DEF During, Answers
<1>4. /\ Len(t) > 0 => Last(p)' = Last(p)
      /\ k \in Answered => t = << >> /\ k = CallOf(pc[0])
      /\ k = "FUNC_FINALIZE" => t = << >> /\ pc[0] = "exit"
      /\ k = "FUNC_GET" => \A j \in DOMAIN t : t[j].kind \notin {"FUNC_GET", "FUNC_SET"}
  <2>1. Len(t) > 0 => Last(p)' = Last(p)
    <3>1. Len(t) > 0 => t[Len(t)] = s[Len(s)]
      BY <1>2
    <3> QED BY <3>1 DEF Last
  <2>2. 1 \in DOMAIN s
    BY <1>2
  <2>3. /\ k \in Answered => Len(s) = 1 /\ k = CallOf(pc[0])
        /\ k = "FUNC_FINALIZE" => Len(s) = 1 /\ pc[0] = "exit"
        /\ k = "FUNC_GET" => \A j \in DOMAIN s : j > 1 => s[j].kind \notin {"FUNC_GET", "FUNC_SET"}
    BY <1>1, <2>2 DEF Ordered
  <2>4. k = "FUNC_GET" => \A j \in DOMAIN t : t[j].kind \notin {"FUNC_GET", "FUNC_SET"}
    <3>1. \A j \in DOMAIN t : j + 1 \in DOMAIN s /\ j + 1 > 1 /\ t[j] = s[j + 1]
      BY <1>2
    <3> QED BY <2>3, <3>1
  <2> QED BY <1>2, <2>1, <2>3, <2>4
<1>5. /\ Before(p)' => Before(p) /\ k # "FUNC_GET"
      /\ Before(p) => Before(p)' \/ k = "FUNC_GET"
  <2>1. Before(p)' => Before(p)
    BY <1>1, TakenKinds DEF Before
  <2>2. Before(p)' => k # "FUNC_GET"
    BY <1>4 DEF Before, Has
  <2>3. Before(p) => Before(p)' \/ k = "FUNC_GET"
    BY <1>1, TakenKinds DEF Before
  <2> QED BY <2>1, <2>2, <2>3
<1>6. Ordered(p)'
  <2> SUFFICES ASSUME NEW i \in DOMAIN t
               PROVE  /\ t[i].kind \in Answered => i = Len(t) /\ t[i].kind = CallOf(pc[0])
                      /\ t[i].kind = "FUNC_FINALIZE" => i = Len(t) /\ pc[0] = "exit"
                      /\ t[i].kind \in {"FUNC_GET", "FUNC_SET"} => ~During(p)'
                      /\ t[i].kind = "FUNC_GET" => \A j \in DOMAIN t :
                           j > i => t[j].kind \notin {"FUNC_GET", "FUNC_SET"}
    BY DEF Ordered
  <2>1. i + 1 \in DOMAIN s /\ t[i] = s[i + 1] /\ i \in Nat
    BY <1>2
  <2>2. /\ t[i].kind \in Answered => i = Len(t) /\ t[i].kind = CallOf(pc[0])
        /\ t[i].kind = "FUNC_FINALIZE" => i = Len(t) /\ pc[0] = "exit"
    BY <1>2, <2>1 DEF Ordered
  <2>3. t[i].kind \in {"FUNC_GET", "FUNC_SET"} => ~During(p)'
    BY <1>4 DEF During
  <2>4. t[i].kind = "FUNC_GET" => \A j \in DOMAIN t :
          j > i => t[j].kind \notin {"FUNC_GET", "FUNC_SET"}
    <3> SUFFICES ASSUME s[i + 1].kind = "FUNC_GET", NEW j \in DOMAIN t, j > i
                 PROVE  t[j].kind \notin {"FUNC_GET", "FUNC_SET"}
      BY <2>1
    <3>1. j + 1 \in DOMAIN s /\ t[j] = s[j + 1] /\ j + 1 > i + 1
      BY <1>2, <2>1
    <3> QED BY <2>1, <3>1 DEF Ordered
  <2> QED BY <2>2, <2>3, <2>4
<1>7. GetCall(p)'
  <2>1. (~During(0) /\ settled => ~Before(p) /\ ~During(p))'
    <3>1. k = "FUNC_GET" => Before(p)
      BY <1>1, <1>2 DEF Before, Has
    <3> QED BY <1>5, <3>1 DEF GetCall, During
  <2>2. (During(0) /\ Before(p) => Last(p) = Req("FUNC_GET", cur[0]))'
    <3>1. Before(p)' => Len(t) > 0
      BY <1>2 DEF Before, Has
    <3> QED BY <1>4, <1>5, <3>1 DEF GetCall, During
  <2>3. (During(0) /\ ~Before(p) => bcast[p] = << >>)'
    <3> SUFFICES ASSUME During(0), ~Before(p)', t # << >> PROVE FALSE
      BY DEF During
    <3>1. Before(p)
      BY <1>1 DEF GetCall
    <3>2. k = "FUNC_GET" /\ Last(p) = Req("FUNC_GET", cur[0]) /\ Len(s) > 1
      BY <1>2, <1>5, <3>1 DEF GetCall
    <3>3. s[Len(s)].kind = "FUNC_GET"
      BY <3>2 DEF Last, Req
    <3>4. 1 \in DOMAIN s /\ s[1].kind = "FUNC_GET" /\ Len(s) \in DOMAIN s
      BY <1>1, <1>2, <3>2
    <3> QED BY <3>2, <3>3, <3>4 DEF Ordered
  <2>4. (During(0) /\ During(p) => cur[p] = cur[0])'
    <3> SUFFICES ASSUME During(0), During(p)' PROVE cur'[p] = cur[0]
      BY DEF During
    <3>1. k = "FUNC_GET" /\ Before(p)
      BY <1>1, <1>2 DEF During, Before, Has
    <3>2. Last(p) = Req("FUNC_GET", cur[0])
      BY <3>1 DEF GetCall
    <3>3. Len(s) = 1
      <4>1. s[Len(s)].kind = "FUNC_GET"
        BY <3>2 DEF Last, Req
      <4> QED BY <1>1, <1>2, <3>1, <4>1 DEF Ordered
    <3>4. s[1] = Req("FUNC_GET", cur[0])
      BY <3>2, <3>3 DEF Last
    <3> QED BY <1>1, <3>1, <3>4 DEF Req
  <2> QED BY <2>1, <2>2, <2>3, <2>4 DEF GetCall
<1>8. Answers(p)'
  <2>1. (Asking /\ bcast[p] # << >> => Last(p).kind = CallOf(pc[0]))'
    BY <1>1, <1>2, <1>4 DEF Answers, Asking
  <2>2. (Asking /\ bcast[p] = << >> =>
           pc[p] = "Listen" \/ (pc[p] = "GridCopyin" /\ pc[0] = "GridCopyin"))'
    <3> SUFFICES ASSUME Asking, t = << >>
                 PROVE  pc'[p] = "Listen" \/ (pc'[p] = "GridCopyin" /\ pc[0] = "GridCopyin")
      BY DEF Asking
    <3>1. k = CallOf(pc[0])
      BY <1>1, <1>2 DEF Answers, Last
    <3>2. /\ pc[0] = "GridCopyin" <=> k = "FUNC_COPYIN"
          /\ k \in Answered
      BY <3>1 DEF CallOf, Asking, Answered
    <3> QED BY <3>2 DEF Answered, ClientMethods
  <2>3. (pc[0] \in {"GridCopyin", "GridCopyout"} /\ p < call.next => bcast[p] = << >>)'
    BY <1>1 DEF Answers
  <2>4. /\ (Has(net[p][0], "PART") => pc[0] = "GridCopyin")'
        /\ (Has(net[p][0], "DATA") => pc[0] = "GridCopyout")'
        /\ (Has(net[p][0], "PART") \/ Has(net[p][0], "DATA") => call.next <= p /\ bcast[p] = << >>)'
        /\ (AtMostOne(net[p][0], "PART") /\ AtMostOne(net[p][0], "DATA"))'
    <3>1. CASE net'[p][0] = net[p][0]
      BY <3>1, <1>3 DEF Answers, Has, AtMostOne
    <3>2. ASSUME NEW m \in RpcMessage, net'[p][0] = Append(net[p][0], m),
                 \/ m.kind = "PART" /\ k = "FUNC_COPYIN"
                 \/ m.kind = "DATA" /\ k = "FUNC_COPYOUT"
          PROVE  /\ (Has(net[p][0], "PART") => pc[0] = "GridCopyin")'
                 /\ (Has(net[p][0], "DATA") => pc[0] = "GridCopyout")'
                 /\ (Has(net[p][0], "PART") \/ Has(net[p][0], "DATA") => call.next <= p /\ bcast[p] = << >>)'
                 /\ (AtMostOne(net[p][0], "PART") /\ AtMostOne(net[p][0], "DATA"))'
      <4>1. net[p][0] \in Seq(RpcMessage) /\ p \in Nat /\ call.next \in Nat
        BY ProcFacts DEF Typed, Nets
      <4>2. /\ \A l : Has(net'[p][0], l) <=> Has(net[p][0], l) \/ m.kind = l
            /\ AtMostOne(net'[p][0], "PART") /\ AtMostOne(net'[p][0], "DATA")
        BY <1>3, <3>2, <4>1, SentKinds DEF Answers
      <4>3. /\ k = "FUNC_COPYIN" => pc[0] = "GridCopyin" /\ t = << >>
            /\ k = "FUNC_COPYOUT" => pc[0] = "GridCopyout" /\ t = << >>
        BY <1>4 DEF CallOf, Answered
      <4>4. call.next <= p
        BY <1>1, <3>2, <4>1, <4>3 DEF Answers
      <4> QED BY <1>3, <3>2, <4>2, <4>3, <4>4
    <3> QED BY <3>1, <3>2
  <2>5. (partials[p] # << >> => pc[0] = "GridReduce" /\ bcast[p] = << >> /\ Len(partials[p]) = 1)'
    <3>1. k = "FUNC_GRID_REDUCE" => pc[0] = "GridReduce" /\ t = << >>
      BY <1>4 DEF CallOf, Answered
    <3>2. \A f \in PartFun : Len(Append(<< >>, f)) = 1
      BY SentLast, EmptySeq
    <3> QED BY <1>3, <3>1, <3>2
  <2>6. (pc[p] = "exit" => bcast[p] = << >> /\ pc[0] = "exit")'
    BY <1>4
  <2> QED BY <2>1, <2>2, <2>3, <2>4, <2>5, <2>6 DEF Answers
<1> QED BY <1>6, <1>7, <1>8

\* The master broadcasts m.
LEMMA ControlAsked ==
  ASSUME Typed, NEW p \in Client, NEW m \in Requests, Notify(m),
         Ordered(p), GetCall(p), Answers(p), pc[0] = "user",
         net'[p][0] = net[p][0], pc'[p] = pc[p], cur'[p] = cur[p], partials'[p] = partials[p],
         settled' = settled,
         m.kind \in Answered => m.kind = CallOf(pc'[0]),
         m.kind = "FUNC_FINALIZE" => pc'[0] = "exit",
         m.kind \in {"FUNC_GET", "FUNC_SET"} => settled,
         m.kind = "FUNC_GET" <=> pc'[0] = "GridGet",
         m.kind = "FUNC_GET" => m = Req("FUNC_GET", cur'[0]),
         Asking' => m.kind = CallOf(pc'[0]) /\ call'.next = 1
  PROVE  Ordered(p)' /\ GetCall(p)' /\ Answers(p)'
<1> DEFINE s == bcast[p]
           t == bcast'[p]
<1>1. /\ s \in Seq(Requests) /\ t = Append(s, m) /\ p \in Nat /\ p > 0
  <2>1. s \in Seq(Requests) /\ t = Append(s, m)
    BY NotifyFacts, ProcFacts DEF Typed
  <2> QED BY <2>1, ProcFacts
<1>2. /\ Len(s) \in Nat /\ DOMAIN s = 1 .. Len(s) /\ DOMAIN t = 1 .. Len(s) + 1
      /\ Len(t) = Len(s) + 1 /\ \A i \in 1 .. Len(s) : t[i] = s[i]
      /\ t[Len(s) + 1] = m /\ t # << >>
  BY <1>1, SentLast
<1>3. \A i \in 1 .. Len(s) :
        /\ s[i].kind \notin Answered /\ s[i].kind # "FUNC_FINALIZE"
        /\ s[i].kind \in {"FUNC_GET", "FUNC_SET"} => ~During(p)
        /\ s[i].kind = "FUNC_GET" => \A j \in 1 .. Len(s) :
             j > i => s[j].kind \notin {"FUNC_GET", "FUNC_SET"}
  BY <1>2 DEF Ordered, CallOf, Answered
<1>4. /\ During(p)' <=> During(p)
      /\ Before(p)' <=> Before(p) \/ m.kind = "FUNC_GET"
      /\ m.kind \in {"FUNC_GET", "FUNC_SET"} => ~Before(p) /\ ~During(p)
  <2>1. Before(p)' <=> Before(p) \/ m.kind = "FUNC_GET"
    BY <1>1, SentKinds DEF Before
  <2> QED BY <2>1 DEF During, GetCall
<1>5. Last(p)' = m
  BY <1>2 DEF Last
<1>6. Ordered(p)'
  <2> SUFFICES ASSUME NEW i \in DOMAIN t
               PROVE  /\ t[i].kind \in Answered => i = Len(t) /\ t[i].kind = CallOf(pc'[0])
                      /\ t[i].kind = "FUNC_FINALIZE" => i = Len(t) /\ pc'[0] = "exit"
                      /\ t[i].kind \in {"FUNC_GET", "FUNC_SET"} => ~During(p)'
                      /\ t[i].kind = "FUNC_GET" => \A j \in DOMAIN t :
                           j > i => t[j].kind \notin {"FUNC_GET", "FUNC_SET"}
    BY DEF Ordered
  <2>1. CASE i = Len(s) + 1
    BY <1>2, <1>4, <2>1
  <2>2. CASE i \in 1 .. Len(s)
    <3>1. t[i].kind = "FUNC_GET" => Before(p)
      BY <1>2, <2>2 DEF Before, Has
    <3> HIDE DEF t, s
    <3> QED BY <1>2, <1>3, <1>4, <2>2, <3>1
  <2> QED BY <1>2, <2>1, <2>2
<1>7. GetCall(p)'
  BY <1>2, <1>4, <1>5 DEF GetCall, During
<1>8. Answers(p)'
  <2>1. ~Has(net[p][0], "PART") /\ ~Has(net[p][0], "DATA") /\ partials[p] = << >> /\ pc[p] # "exit"
    BY DEF Answers
  <2> QED BY <1>1, <1>2, <1>5, <2>1 DEF Answers, Asking
<1> QED BY <1>6, <1>7, <1>8

\* The master's call returns.
LEMMA ControlReturns ==
  ASSUME Typed, NEW p \in Client, Ordered(p), GetCall(p), Answers(p),
         MasterCopyinReturn \/ MasterCopyoutReturn \/ MasterGetReturn \/ MasterReduceReturn
  PROVE  Ordered(p)' /\ GetCall(p)' /\ Answers(p)'
<1> USE ProcFacts
<1>1. /\ bcast' = bcast /\ pc'[0] = "user" /\ pc'[p] = pc[p] /\ net' = net
      /\ partials[p] \in Seq(PartFun) /\ p \in Nat /\ p < NProcs
  BY DEF MasterCopyinReturn, MasterCopyoutReturn, MasterGetReturn, MasterReduceReturn, EndLoad,
         Typed, Proc
<1>2. CASE MasterGetReturn
  <2>1. During(0) /\ ~settled' /\ partials' = partials
    BY <1>2 DEF MasterGetReturn, During
  <2>2. Ordered(p)'
    BY <1>1, <2>1 DEF Ordered, During, CallOf, Answered
  <2>3. GetCall(p)'
    BY <1>1, <2>1 DEF GetCall, During
  <2>4. Answers(p)'
    BY <1>1, <2>1 DEF Answers, Asking, During
  <2> QED BY <2>2, <2>3, <2>4
<1>3. CASE ~MasterGetReturn
  <2>1. /\ Asking /\ ~During(0) /\ bcast[p] = << >>
        /\ pc[0] # "GridReduce" => p < call.next /\ partials' = partials
        /\ pc[0] = "GridReduce" => partials[p] # << >> /\ partials'[p] = Tail(partials[p])
    <3>1. CASE MasterCopyinReturn \/ MasterCopyoutReturn
      BY <1>1, <3>1 DEF Asking, During, Answers, MasterCopyinReturn, MasterCopyoutReturn
    <3>2. CASE MasterReduceReturn
      BY <3>2 DEF Asking, During, Answers, MasterReduceReturn
    <3> QED BY <1>3, <3>1, <3>2
  <2>2. /\ ~Has(net[p][0], "PART") /\ ~Has(net[p][0], "DATA")
        /\ pc[p] # "exit" /\ partials'[p] = << >>
    <3>1. pc[0] = "GridReduce" => partials'[p] = << >>
      BY <1>1, <2>1, TakenFirst DEF Answers
    <3>2. p < call.next => ~(call.next <= p)
      BY <1>1 DEF Typed
    <3>3. ~Has(net[p][0], "PART") /\ ~Has(net[p][0], "DATA")
      BY <2>1, <3>2 DEF Answers
    <3> QED BY <2>1, <3>1, <3>3 DEF Answers, Asking
  <2>3. ~Before(p) /\ ~During(p) /\ DOMAIN bcast[p] = {}
    BY <2>1 DEF Answers, Before, Has, During
  <2>4. Ordered(p)'
    BY <1>1, <2>3 DEF Ordered
  <2>5. GetCall(p)'
    BY <1>1, <2>3 DEF GetCall, During, Before, Has
  <2>6. Answers(p)'
    BY <1>1, <2>2 DEF Answers, Asking
  <2> QED BY <2>4, <2>5, <2>6
<1> QED BY <1>2, <1>3

\* The master takes the answer of client i.
LEMMA ControlAnswered ==
  ASSUME Typed, NEW p \in Client, NEW i \in Client, Ordered(p), GetCall(p), Answers(p),
         Answers(i), MasterCopyinNext(i) \/ MasterCopyoutNext(i)
  PROVE  Ordered(p)' /\ GetCall(p)' /\ Answers(p)'
<1> USE ProcFacts
<1> DEFINE m == Oldest(net, i, 0)
<1>1. /\ bcast' = bcast /\ pc' = pc /\ cur' = cur /\ settled' = settled
      /\ partials' = partials
      /\ i = call.next /\ call'.next = i + 1 /\ net \in Nets /\ Pending(net, i, 0)
      /\ p \in Nat /\ i \in Nat /\ i # 0 /\ p # 0
  BY DEF MasterCopyinNext, MasterCopyoutNext, Typed, userVars
<1>2. /\ net[i][0] \in Seq(RpcMessage) /\ net[i][0] # << >> /\ m = Head(net[i][0])
      /\ Drop(net, i, 0) \in Nets /\ Drop(net, i, 0)[i][0] = Tail(net[i][0])
      /\ \A a, b \in Proc : a # i \/ b # 0 => Drop(net, i, 0)[a][b] = net[a][b]
  BY <1>1, DropFacts DEF Oldest
<1>3. /\ net'[i][0] = Tail(net[i][0])
      /\ p # i => net'[p][0] = net[p][0]
  <2>1. CASE MasterCopyoutNext(i)
    BY <1>2, <2>1 DEF MasterCopyoutNext
  <2>2. CASE MasterCopyinNext(i)
    <3>1. \/ net' = Drop(net, i, 0)
          \/ \E d : net' = Put(Drop(net, i, 0), 0, i, d)
      BY <2>2 DEF MasterCopyinNext
    <3>2. \A d : /\ Put(Drop(net, i, 0), 0, i, d)[i][0] = Drop(net, i, 0)[i][0]
                 /\ Put(Drop(net, i, 0), 0, i, d)[p][0] = Drop(net, i, 0)[p][0]
      BY <1>1, <1>2 DEF Put, Nets
    <3> QED BY <1>2, <3>1, <3>2
  <2> QED BY <2>1, <2>2
<1>4. /\ (pc[0] = "GridCopyin" /\ m.kind = "PART") \/ (pc[0] = "GridCopyout" /\ m.kind = "DATA")
      /\ ~Has(net'[i][0], "PART") /\ ~Has(net'[i][0], "DATA") /\ bcast[i] = << >>
  <2>1. (pc[0] = "GridCopyin" /\ m.kind = "PART") \/ (pc[0] = "GridCopyout" /\ m.kind = "DATA")
    BY DEF MasterCopyinNext, MasterCopyoutNext
  <2>2. Has(net[i][0], m.kind) /\ (AtMostOne(net[i][0], m.kind) => ~Has(Tail(net[i][0]), m.kind))
        /\ \A k : Has(Tail(net[i][0]), k) => Has(net[i][0], k)
    BY <1>2, TakenKinds
  <2>3. CASE pc[0] = "GridCopyin" /\ m.kind = "PART"
    <3> HIDE DEF m
    <3> QED BY <1>3, <2>2, <2>3 DEF Answers
  <2>4. CASE pc[0] = "GridCopyout" /\ m.kind = "DATA"
    <3> HIDE DEF m
    <3> QED BY <1>3, <2>2, <2>4 DEF Answers
  <2> QED BY <2>1, <2>3, <2>4
<1>5. Ordered(p)'
  BY <1>1 DEF Ordered, During
<1>6. GetCall(p)'
  BY <1>1 DEF GetCall, Before, During, Last
<1>7. Answers(p)'
  <2>1. (Asking /\ bcast[p] # << >> => Last(p).kind = CallOf(pc[0]))'
    BY <1>1 DEF Answers, Asking, Last
  <2>2. (pc[0] \in {"GridCopyin", "GridCopyout"} /\ p < call.next => bcast[p] = << >>)'
    <3> SUFFICES ASSUME pc[0] \in {"GridCopyin", "GridCopyout"}, p < i + 1, p # i
                 PROVE  bcast[p] = << >>
      BY <1>1, <1>4
    <3>1. p < call.next
      BY <1>1
    <3> QED BY <3>1 DEF Answers
  <2>3. /\ (Has(net[p][0], "PART") => pc[0] = "GridCopyin")'
        /\ (Has(net[p][0], "DATA") => pc[0] = "GridCopyout")'
        /\ (Has(net[p][0], "PART") \/ Has(net[p][0], "DATA") => call.next <= p /\ bcast[p] = << >>)'
        /\ (AtMostOne(net[p][0], "PART") /\ AtMostOne(net[p][0], "DATA"))'
    <3>1. CASE p = i
      BY <1>4, <3>1 DEF AtMostOne, Has
    <3>2. CASE p # i
      <4>1. net'[p][0] = net[p][0]
        BY <1>3, <3>2
      <4>2. call.next <= p => call'.next <= p
        BY <1>1, <3>2
      <4> QED BY <1>1, <4>1, <4>2 DEF Answers
    <3> QED BY <3>1, <3>2
  <2> QED BY <1>1, <2>1, <2>2, <2>3 DEF Answers, Asking
<1> QED BY <1>5, <1>6, <1>7

\* What sends and receives of LoadSubgrid do to the answers in flight.
LEMMA KeepsFacts ==
  ASSUME NEW n \in Nets, NEW a \in Proc, NEW b \in Proc
  PROVE  /\ Keeps(n[a][b], n[a][b])
         /\ \A s, d \in Proc, m \in RpcMessage :
              m.kind \notin {"PART", "DATA"} => Keeps(n[a][b], Put(n, s, d, m)[a][b])
         /\ \A m \in RpcMessage :
              m.kind \notin {"PART", "DATA"} => Keeps(n[a][b], Append(n[a][b], m))
         /\ \A s, d \in Proc : Pending(n, s, d) => Keeps(n[a][b], Drop(n, s, d)[a][b])
         /\ \A p \in Proc : Keeps(n[a][b], Reallocate(n, p)[a][b])
<1>1. Keeps(n[a][b], n[a][b]) /\ n[a][b] \in Seq(RpcMessage)
  BY DEF Keeps, Nets
<1>2. \A m \in RpcMessage : m.kind \notin {"PART", "DATA"} => Keeps(n[a][b], Append(n[a][b], m))
  BY <1>1, SentKinds DEF Keeps
<1>3. \A s, d \in Proc, m \in RpcMessage :
        m.kind \notin {"PART", "DATA"} => Keeps(n[a][b], Put(n, s, d, m)[a][b])
  <2> SUFFICES ASSUME NEW s \in Proc, NEW d \in Proc, NEW m \in RpcMessage,
                      m.kind \notin {"PART", "DATA"}
               PROVE  Keeps(n[a][b], Put(n, s, d, m)[a][b])
    OBVIOUS
  <2>1. \/ Put(n, s, d, m)[a][b] = n[a][b]
        \/ Put(n, s, d, m)[a][b] = Append(n[a][b], m)
    <3>1. CASE a = s /\ b = d
      BY <3>1, PutFacts
    <3>2. CASE a # s \/ b # d
      BY <3>2, PutFacts
    <3> QED BY <3>1, <3>2
  <2> QED BY <1>1, <1>2, <2>1
<1>5. \A s, d \in Proc : Pending(n, s, d) => Keeps(n[a][b], Drop(n, s, d)[a][b])
  <2> SUFFICES ASSUME NEW s \in Proc, NEW d \in Proc, Pending(n, s, d)
               PROVE  Keeps(n[a][b], Drop(n, s, d)[a][b])
    OBVIOUS
  <2>1. CASE a = s /\ b = d
    <3>1. Drop(n, s, d)[a][b] = Tail(n[a][b]) /\ n[a][b] # << >>
      BY <2>1, DropFacts
    <3> QED BY <1>1, <3>1, TakenKinds DEF Keeps
  <2>2. CASE ~(a = s /\ b = d)
    BY <1>1, <2>2, DropFacts
  <2> QED BY <2>1, <2>2
<1>6. \A p \in Proc : Keeps(n[a][b], Reallocate(n, p)[a][b])
  <2> TAKE p \in Proc
  <2>1. SameButReplies(n[a][b], Reallocate(n, p)[a][b])
    BY ReallocateFacts
  <2> QED BY <1>1, <2>1, SameKinds DEF Keeps
<1> QED BY <1>1, <1>2, <1>3, <1>5, <1>6

LEMMA FetchKeeps ==
  ASSUME Typed, NEW r \in Proc, Fetch(r), pc[r] = "GridGet", NEW a \in Proc, NEW b \in Proc
  PROVE  Keeps(net[a][b], net'[a][b])
<1>1. net \in Nets /\ r \in Proc
  BY DEF Typed
<1>2. \A s, t, u : Keeps(s, t) /\ Keeps(t, u) => Keeps(s, u)
  BY DEF Keeps
<1>3. CASE Announce(r)
  <2>1. net'[a][b] = net[a][b] \/ net'[a][b] = Append(net[a][b], Done(0))
    BY <1>3, AnnounceFacts, ZenonT(30)
  <2> QED BY <1>1, <2>1, MessageFacts, KeepsFacts, ZenonT(30) DEF Done
<1>4. ASSUME NEW q \in Proc, CountDone(r, q) PROVE Keeps(net[a][b], net'[a][b])
  BY <1>1, <1>4, KeepsFacts DEF CountDone, RecvDone, Hears
<1>5. ASSUME NEW q \in Proc, Serve(r, q) PROVE Keeps(net[a][b], net'[a][b])
  <2> DEFINE v == ContentAt(r, cur[r], Oldest(net, q, r).body)
             n1 == Drop(net, q, r)
             n2 == Reallocate(n1, r)
  <2>1. Pending(net, q, r) /\ net' = Put(n2, r, q, Reply(v)) /\ Reply(v).kind = "FETCH_REPLY"
    BY <1>5 DEF Serve, HandleFetchRequest, Hears, Reply
  <2>2. v \in Data \cup {Garbage}
    BY GridFacts DEF Typed
  <2> HIDE DEF v
  <2>3. n1 \in Nets /\ Keeps(net[a][b], n1[a][b])
    BY <1>1, <2>1, DropFacts, KeepsFacts
  <2> HIDE DEF n1
  <2>4. n2 \in Nets /\ Keeps(n1[a][b], n2[a][b])
    BY <2>3, ReallocateFacts, KeepsFacts
  <2> HIDE DEF n2
  <2>5. Keeps(n2[a][b], net'[a][b])
    BY <2>1, <2>2, <2>4, MessageFacts, KeepsFacts
  <2> QED BY <1>2, <2>3, <2>4, <2>5
<1>6. ASSUME NEW q \in Proc, TakeReply(r, q) PROVE Keeps(net[a][b], net'[a][b])
  <2> DEFINE n1 == Reallocate(net, r)
  <2>1. Pending(net, q, r) /\ net' = Drop(n1, q, r)
    BY <1>6 DEF TakeReply, HandleFetchReply, Hears
  <2>2. n1 \in Nets /\ Keeps(net[a][b], n1[a][b])
    BY <1>1, ReallocateFacts, KeepsFacts
  <2>3. Pending(n1, q, r)
    <3>1. net[q][r] \in Seq(RpcMessage) /\ SameButReplies(net[q][r], n1[q][r])
      BY <1>1, ReallocateFacts, ZenonT(30) DEF Nets
    <3> QED BY <2>1, <3>1, SameKinds DEF Pending
  <2> HIDE DEF n1
  <2>4. Keeps(n1[a][b], net'[a][b])
    BY <2>1, <2>2, <2>3, KeepsFacts
  <2> QED BY <1>2, <2>2, <2>4
<1> QED BY <1>3, <1>4, <1>5, <1>6 DEF Fetch

LEMMA ActiveStep ==
  ASSUME Typed, ActiveIsGet, Next PROVE ActiveIsGet'
<1> USE ProcFacts
<1>1. ld \in [Proc -> LoadFields] /\ pc \in [Proc -> MasterMethods \cup ClientMethods]
  BY DEF Typed
<1>2. ASSUME NEW r \in Proc, Fetch(r) PROVE ActiveIsGet'
  <2>1. pc' = pc
    BY <1>2 DEF Fetch, Announce, CountDone, Serve, TakeReply, fetchFrame, rpcVars
  <2>2. \A p \in Proc : ld'[p].active = ld[p].active
    <3>1. ASSUME NEW q \in Proc, Serve(r, q) PROVE ld' = ld
      BY <3>1 DEF Serve, HandleFetchRequest
    <3>2. CASE Announce(r)
      BY <1>1, <3>2 DEF Announce, AnnounceDone, LoadFields
    <3>3. ASSUME NEW q \in Proc, CountDone(r, q) PROVE \A p \in Proc : ld'[p].active = ld[p].active
      BY <1>1, <3>3 DEF CountDone, RecvDone, LoadFields
    <3>4. ASSUME NEW q \in Proc, TakeReply(r, q) PROVE \A p \in Proc : ld'[p].active = ld[p].active
      <4> DEFINE v == Oldest(Reallocate(net, r), q, r).body
      <4>1. ld' = [ld EXCEPT ![r].sg[q] = v, ![r].remaining = @ - 1]
        BY <3>4 DEF TakeReply, HandleFetchReply
      <4> HIDE DEF v
      <4> QED BY <1>1, <4>1 DEF LoadFields
    <3> QED BY <1>2, <3>1, <3>2, <3>3, <3>4 DEF Fetch
  <2> QED BY <2>1, <2>2 DEF ActiveIsGet, During
<1>3. CASE UserStep
  <2>1. ASSUME NEW id \in DOMAIN store, NEW x \in DOMAIN store[id], MasterGet(id, x) PROVE ActiveIsGet'
    <3>1. x \in Point
      BY StoreFacts
    <3>2. ld'[0].active /\ \A p \in Client : ld'[p] = ld[p]
      BY <2>1, <3>1, MasterBegins
    <3>3. pc'[0] = "GridGet" /\ \A p \in Client : pc'[p] = pc[p]
      BY <1>1, <2>1 DEF MasterGet
    <3> QED BY <3>2, <3>3 DEF ActiveIsGet, During
  <2>2. CASE ~\E id \in DOMAIN store : \E x \in DOMAIN store[id] : MasterGet(id, x)
    <3>1. ld' = ld /\ \A p \in Client : pc'[p] = pc[p]
      BY <1>1, <1>3, <2>2, ZenonT(30) DEF UserStep, MasterNew, MasterDelete, MasterCopyin, MasterCopyout,
           MasterSetRemote, MasterSetLocal, MasterRun, MasterReduce, MasterFinalize
    <3>2. pc[0] = "user" /\ pc'[0] # "GridGet"
      BY <1>1, <1>3, <2>2, ZenonT(30) DEF UserStep, MasterNew, MasterDelete, MasterCopyin, MasterCopyout,
           MasterSetRemote, MasterSetLocal, MasterRun, MasterReduce, MasterFinalize, UserCalls
    <3> QED BY <3>1, <3>2 DEF ActiveIsGet, During
  <2> QED BY <2>1, <2>2
<1>4. CASE MasterStep
  <2>1. CASE MasterGetReturn
    BY <1>1, <2>1 DEF MasterGetReturn, EndLoad, ActiveIsGet, During, LoadFields
  <2>2. ASSUME NEW i \in Client, MasterCopyinNext(i) \/ MasterCopyoutNext(i) PROVE ActiveIsGet'
    BY <2>2 DEF MasterCopyinNext, MasterCopyoutNext, ActiveIsGet, During
  <2>3. CASE MasterCopyinReturn \/ MasterCopyoutReturn \/ MasterReduceReturn
    BY <1>1, <2>3 DEF MasterCopyinReturn, MasterCopyoutReturn, MasterReduceReturn, ActiveIsGet, During
  <2> QED BY <1>2, <1>4, <2>1, <2>2, <2>3 DEF MasterStep
<1>5. ASSUME NEW p \in Client, ClientStep(p) PROVE ActiveIsGet'
  <2>1. CASE ClientGet(p)
    <3>1. ld'[p].active /\ \A q \in Proc : q # p => ld'[q] = ld[q]
      BY <2>1, ClientBegins
    <3>2. pc'[p] = "GridGet" /\ \A q \in Proc : q # p => pc'[q] = pc[q]
      BY <1>1, <2>1 DEF ClientGet
    <3> QED BY <3>1, <3>2 DEF ActiveIsGet, During
  <2>2. CASE ClientGetReturn(p)
    BY <1>1, <2>2 DEF ClientGetReturn, EndLoad, ActiveIsGet, During, LoadFields
  <2>3. CASE ClientNew(p) \/ ClientDelete(p) \/ ClientCopyout(p) \/ ClientRun(p) \/ ClientReduce(p)
    BY <2>3 DEF ClientNew, ClientDelete, ClientCopyout, ClientRun, ClientReduce, ActiveIsGet, During
  <2>4. CASE ClientCopyin(p) \/ ClientSet(p) \/ ClientFinalize(p)
    BY <1>1, <2>4 DEF ClientCopyin, ClientSet, ClientFinalize, Takes, ActiveIsGet, During
  <2>5. CASE ClientCopyinData(p) \/ ClientSetData(p)
    BY <1>1, <2>5 DEF ClientCopyinData, ClientSetData, ActiveIsGet, During
  <2> QED BY <1>2, <1>5, <2>1, <2>2, <2>3, <2>4, <2>5 DEF ClientStep
<1>6. CASE Stopped
  BY <1>6 DEF Stopped, vars, rpcVars, ActiveIsGet, During
<1> QED BY <1>3, <1>4, <1>5, <1>6 DEF Next

LEMMA ControlUser ==
  ASSUME Typed, Control, AwaitClients, UserStep, NEW p \in Client
  PROVE  Ordered(p)' /\ GetCall(p)' /\ Answers(p)'
<1> USE ProcFacts
<1>1. /\ Ordered(p) /\ GetCall(p) /\ Answers(p) /\ p # 0 /\ p \in Proc
      /\ pc \in [Proc -> MasterMethods \cup ClientMethods] /\ cur \in [Proc -> Nat]
      /\ net \in Nets
  BY DEF Control, Typed
<1>2. ASSUME NEW id \in DOMAIN store, NEW x \in DOMAIN store[id], NEW v \in Data,
             MasterSetLocal(id, x, v)
      PROVE  Ordered(p)' /\ GetCall(p)' /\ Answers(p)'
  <2>1. Keeps(net[p][0], net[p][0])
    BY DEF Keeps
  <2> QED BY <1>1, <1>2, <2>1, ControlSame DEF MasterSetLocal
<1>3. ASSUME NEW s \in Shape, MasterNew(s)
      PROVE  Ordered(p)' /\ GetCall(p)' /\ Answers(p)'
  <2> DEFINE m == Req("FUNC_NEW", s)
  <2>1. m \in Requests /\ m.kind = "FUNC_NEW"
    BY MasterClientAssumption, RequestFacts DEF Req
  <2>2. /\ Notify(m) /\ pc[0] = "user" /\ UNCHANGED <<net, pc, cur, call, partials, settled>>
    BY <1>3 DEF MasterNew, UserCalls
  <2> HIDE DEF m
  <2> QED BY <1>1, <2>1, <2>2, ControlAsked DEF Answered, Asking
<1>4. ASSUME NEW id \in DOMAIN store, MasterDelete(id)
      PROVE  Ordered(p)' /\ GetCall(p)' /\ Answers(p)'
  <2> DEFINE m == Req("FUNC_DELETE", id)
  <2>1. m \in Requests /\ m.kind = "FUNC_DELETE"
    BY StoreFacts, RequestFacts DEF Req, IdKinds
  <2>2. /\ Notify(m) /\ pc[0] = "user" /\ UNCHANGED <<net, pc, cur, call, partials, settled>>
    BY <1>4 DEF MasterDelete, UserCalls
  <2> HIDE DEF m
  <2> QED BY <1>1, <2>1, <2>2, ControlAsked DEF Answered, Asking
<1>5. ASSUME NEW id \in DOMAIN store, NEW buf, MasterCopyin(id, buf)
      PROVE  Ordered(p)' /\ GetCall(p)' /\ Answers(p)'
  <2> DEFINE m == Req("FUNC_COPYIN", id)
  <2>1. m \in Requests /\ m.kind = "FUNC_COPYIN"
    BY StoreFacts, RequestFacts DEF Req, IdKinds
  <2>2. /\ Notify(m) /\ pc[0] = "user" /\ UNCHANGED <<net, cur, partials, settled>>
        /\ pc' = [pc EXCEPT ![0] = "GridCopyin"] /\ call' = [NoCall EXCEPT !.buf = buf]
    BY <1>5 DEF MasterCopyin, UserCalls
  <2>3. pc'[0] = "GridCopyin" /\ pc'[p] = pc[p] /\ call'.next = 1
    BY <1>1, <2>2 DEF NoCall
  <2> HIDE DEF m
  <2> QED BY <1>1, <2>1, <2>2, <2>3, ControlAsked DEF CallOf
<1>6. ASSUME NEW id \in DOMAIN store, MasterCopyout(id) \/ MasterReduce(id)
      PROVE  Ordered(p)' /\ GetCall(p)' /\ Answers(p)'
  <2>1. /\ Req("FUNC_COPYOUT", id) \in Requests
        /\ Req("FUNC_GRID_REDUCE", id) \in Requests
        /\ Req("FUNC_COPYOUT", id).kind = "FUNC_COPYOUT"
        /\ Req("FUNC_GRID_REDUCE", id).kind = "FUNC_GRID_REDUCE"
    BY StoreFacts, RequestFacts DEF Req, IdKinds
  <2>2. /\ pc[0] = "user" /\ UNCHANGED <<net, cur, partials, settled>>
        /\ call' = [NoCall EXCEPT !.buf = grids[0][id]]
        /\ \/ Notify(Req("FUNC_COPYOUT", id)) /\ pc' = [pc EXCEPT ![0] = "GridCopyout"]
           \/ Notify(Req("FUNC_GRID_REDUCE", id)) /\ pc' = [pc EXCEPT ![0] = "GridReduce"]
    BY <1>6 DEF MasterCopyout, MasterReduce, UserCalls
  <2>3. call'.next = 1
    BY <2>2 DEF NoCall
  <2>4. PICK m \in Requests :
          /\ Notify(m) /\ pc'[p] = pc[p]
          /\ \/ m.kind = "FUNC_COPYOUT" /\ pc'[0] = "GridCopyout"
             \/ m.kind = "FUNC_GRID_REDUCE" /\ pc'[0] = "GridReduce"
    BY <1>1, <2>1, <2>2
  <2>5. m.kind = CallOf(pc'[0])
    BY <2>4 DEF CallOf
  <2> QED BY <1>1, <2>2, <2>3, <2>4, <2>5, ControlAsked
<1>7. ASSUME NEW id \in DOMAIN store, NEW x \in DOMAIN store[id], NEW v \in Data,
             MasterSetRemote(id, x, v)
      PROVE  Ordered(p)' /\ GetCall(p)' /\ Answers(p)'
  <2> DEFINE m == Req("FUNC_SET", Owner[x])
  <2>1. /\ Owner[x] \in Proc /\ m \in Requests /\ m.kind = "FUNC_SET"
        /\ SetMsg(id, x, v) \in RpcMessage
    BY StoreFacts, MasterClientAssumption, RequestFacts, MessageFacts DEF Req, IdKinds
  <2>2. /\ Notify(m) /\ pc[0] = "user" /\ UNCHANGED <<pc, cur, call, partials, settled>>
        /\ net' = Put(net, 0, Owner[x], SetMsg(id, x, v)) /\ settled
    BY <1>7 DEF MasterSetRemote, UserCalls, MayTalk
  <2>3. net'[p][0] = net[p][0]
    <3>1. 0 \in Proc /\ p \in Proc /\ p # 0 /\ net \in Nets
      BY <1>1
    <3> QED BY ONLY <2>1, <2>2, <3>1, PutFacts
  <2> HIDE DEF m
  <2> QED BY <1>1, <2>1, <2>2, <2>3, ControlAsked DEF Answered, Asking
<1>8. ASSUME NEW id \in DOMAIN store, NEW x \in DOMAIN store[id], MasterGet(id, x)
      PROVE  Ordered(p)' /\ GetCall(p)' /\ Answers(p)'
  <2> DEFINE m == Req("FUNC_GET", id)
  <2>1. x \in Point /\ m \in Requests /\ m.kind = "FUNC_GET"
    BY StoreFacts, RequestFacts DEF Req, IdKinds
  <2>2. /\ Notify(m) /\ pc[0] = "user" /\ UNCHANGED <<partials, settled>> /\ settled
        /\ pc' = [pc EXCEPT ![0] = "GridGet"] /\ cur' = [cur EXCEPT ![0] = id]
    BY <1>8 DEF MasterGet, UserCalls, MayTalk
  <2>3. net'[p][0] = net[p][0]
    BY <1>1, <1>8, <2>1, MasterBegins
  <2>4. pc'[0] = "GridGet" /\ pc'[p] = pc[p] /\ cur'[0] = id /\ cur'[p] = cur[p]
    BY <1>1, <2>2
  <2>5. m = Req("FUNC_GET", cur'[0]) /\ ~Asking'
    BY <2>4 DEF Asking
  <2> HIDE DEF m
  <2> QED BY <1>1, <2>1, <2>2, <2>3, <2>4, <2>5, ControlAsked DEF Answered
<1>9. ASSUME NEW id \in DOMAIN store, MasterRun(id)
      PROVE  Ordered(p)' /\ GetCall(p)' /\ Answers(p)'
  <2> DEFINE m == Req("FUNC_RUN", id)
  <2>1. m \in Requests /\ m.kind = "FUNC_RUN"
    BY StoreFacts, RequestFacts DEF Req, IdKinds
  <2>2. /\ Notify(m) /\ pc[0] = "user" /\ UNCHANGED <<net, pc, cur, call, partials, settled>>
    BY <1>9 DEF MasterRun, UserCalls
  <2> HIDE DEF m
  <2> QED BY <1>1, <2>1, <2>2, ControlAsked DEF Answered, Asking
<1>10. ASSUME MasterFinalize
       PROVE  Ordered(p)' /\ GetCall(p)' /\ Answers(p)'
  <2> DEFINE m == Req("FUNC_FINALIZE", 0)
  <2>1. m \in Requests /\ m.kind = "FUNC_FINALIZE"
    BY RequestFacts DEF Req, IdKinds
  <2>2. /\ Notify(m) /\ pc[0] = "user" /\ UNCHANGED <<net, cur, call, partials, settled>>
        /\ pc' = [pc EXCEPT ![0] = "exit"]
    BY <1>10 DEF MasterFinalize, userVars
  <2>3. pc'[0] = "exit" /\ pc'[p] = pc[p]
    BY <1>1, <2>2
  <2> HIDE DEF m
  <2> QED BY <1>1, <2>1, <2>2, <2>3, ControlAsked DEF Answered, Asking
<1> QED BY <1>2, <1>3, <1>4, <1>5, <1>6, <1>7, <1>8, <1>9, <1>10 DEF UserStep

\* What p sends the master when it takes a broadcast, and what it contributes.
LEMMA ControlClient ==
  ASSUME Typed, NEW p \in Client, Ordered(p), GetCall(p), Answers(p), ClientStep(p), ~Fetch(p)
  PROVE  Ordered(p)' /\ GetCall(p)' /\ Answers(p)'
<1> USE ProcFacts, SamePlace
<1>1. /\ pc \in [Proc -> MasterMethods \cup ClientMethods] /\ cur \in [Proc -> Nat]
      /\ pc[p] \in ClientMethods
      /\ {"Listen", "GridCopyin", "GridGet", "GridSet", "exit"} \subseteq ClientMethods
  BY DEF Typed, ClientMethods
<1>2. UNCHANGED <<call, settled>>
  BY DEF ClientStep, ClientNew, ClientDelete, ClientCopyin, ClientCopyinData, ClientCopyout, ClientGet,
         ClientGetReturn, ClientSet, ClientSetData, ClientRun, ClientReduce, ClientFinalize,
         clientFrame, userVars
<1>3. ASSUME NEW k \in {"FUNC_NEW", "FUNC_DELETE", "FUNC_RUN"}, Takes(p, k),
             UNCHANGED <<net, partials, pc, cur>>
      PROVE  Ordered(p)' /\ GetCall(p)' /\ Answers(p)'
  <2>1. pc[p] = "Listen"
    BY <1>3 DEF Takes
  <2> QED BY <1>1, <1>2, <1>3, <2>1, ControlTakes
<1>4. CASE ClientNew(p) \/ ClientDelete(p) \/ ClientRun(p)
  BY <1>3, <1>4 DEF ClientNew, ClientDelete, ClientRun
<1>5. CASE ClientCopyin(p)
  <2> DEFINE m == PartMsg(DOMAIN grids[p][Opt(p)])
  <2>1. Opt(p) \in DOMAIN grids[p] /\ net' = Put(net, p, 0, m) /\ Takes(p, "FUNC_COPYIN")
        /\ m.kind = "PART" /\ partials' = partials
    BY <1>5 DEF ClientCopyin, Knows, PartMsg
  <2>2. m \in RpcMessage
    BY <2>1, GridFacts, MessageFacts
  <2> HIDE DEF m
  <2>3. net'[p][0] = Append(net[p][0], m)
    <3>1. net \in Nets /\ p \in Proc /\ 0 \in Proc
      OBVIOUS
    <3> QED BY ONLY <2>1, <2>2, <3>1, PutFacts
  <2>4. pc'[p] \in {"Listen", "GridCopyin"} /\ pc'[0] = pc[0] /\ cur'[0] = cur[0]
    BY <1>1, <1>5 DEF ClientCopyin
  <2> QED BY <1>1, <1>2, <2>1, <2>2, <2>3, <2>4, ControlTakes
<1>6. CASE ClientCopyout(p)
  <2> DEFINE m == DataMsg(grids[p][Opt(p)])
  <2>1. Opt(p) \in DOMAIN grids[p] /\ net' = Put(net, p, 0, m) /\ Takes(p, "FUNC_COPYOUT")
        /\ m.kind = "DATA" /\ UNCHANGED <<partials, pc, cur>>
    BY <1>6 DEF ClientCopyout, Knows, DataMsg
  <2>2. m \in RpcMessage /\ pc[p] = "Listen"
    BY <2>1, GridFacts, MessageFacts DEF Takes
  <2> HIDE DEF m
  <2>3. net'[p][0] = Append(net[p][0], m)
    <3>1. net \in Nets /\ p \in Proc /\ 0 \in Proc
      OBVIOUS
    <3> QED BY ONLY <2>1, <2>2, <3>1, PutFacts
  <2> QED BY <1>1, <1>2, <2>1, <2>2, <2>3, ControlTakes
<1>7. CASE ClientGet(p)
  <2>1. net' = net
    BY <1>7, ClientBegins
  <2>2. Takes(p, "FUNC_GET") /\ partials' = partials /\ pc' = [pc EXCEPT ![p] = "GridGet"]
        /\ cur' = [cur EXCEPT ![p] = Opt(p)]
    BY <1>7 DEF ClientGet
  <2>3. pc'[p] = "GridGet" /\ pc'[0] = pc[0] /\ cur'[0] = cur[0] /\ cur'[p] = Opt(p)
    BY <1>1, <2>2
  <2> QED BY <1>1, <1>2, <2>1, <2>2, <2>3, ControlTakes
<1>8. CASE ClientSet(p)
  <2>1. Takes(p, "FUNC_SET") /\ UNCHANGED <<net, partials, cur>>
    BY <1>8 DEF ClientSet
  <2>2. pc'[p] \in {"Listen", "GridSet"} /\ pc'[0] = pc[0]
    BY <1>1, <1>8 DEF ClientSet
  <2> QED BY <1>1, <1>2, <2>1, <2>2, ControlTakes, ZenonT(30)
<1>9. CASE ClientReduce(p)
  <2>1. /\ Takes(p, "FUNC_GRID_REDUCE") /\ UNCHANGED <<net, pc, cur>> /\ Opt(p) \in DOMAIN grids[p]
        /\ partials' = [partials EXCEPT ![p] = Append(partials[p], grids[p][Opt(p)])]
        /\ pc[p] = "Listen"
    BY <1>9 DEF ClientReduce, Knows, Takes
  <2>2. grids[p][Opt(p)] \in PartFun /\ partials'[p] = Append(partials[p], grids[p][Opt(p)])
    BY <2>1, GridFacts
  <2> QED BY <1>1, <1>2, <2>1, <2>2, ControlTakes
<1>10. CASE ClientFinalize(p)
  <2>1. Takes(p, "FUNC_FINALIZE") /\ UNCHANGED <<net, partials, cur>>
    BY <1>10 DEF ClientFinalize
  <2>2. pc'[p] = "exit" /\ pc'[0] = pc[0]
    BY <1>1, <1>10 DEF ClientFinalize
  <2> QED BY <1>1, <1>2, <2>1, <2>2, ControlTakes, ZenonT(30)
<1>11. CASE ClientCopyinData(p) \/ ClientSetData(p) \/ ClientGetReturn(p)
  <2>1. /\ UNCHANGED <<bcast, partials, cur>> /\ pc' = [pc EXCEPT ![p] = "Listen"]
        /\ pc[p] \in {"GridCopyin", "GridSet", "GridGet"}
        /\ net' = net \/ (Pending(net, 0, p) /\ net' = Drop(net, 0, p))
    BY <1>11 DEF ClientCopyinData, ClientSetData, ClientGetReturn, EndLoad
  <2>2. pc'[p] = "Listen" /\ pc'[0] = pc[0] /\ net'[p][0] = net[p][0]
    BY <1>1, <2>1, DropFacts
  <2>3. Ordered(p)'
    BY <2>1, <2>2 DEF Ordered, During
  <2>4. GetCall(p)'
    BY <1>2, <2>1, <2>2 DEF GetCall, During, Before, Last
  <2>5. Answers(p)'
    BY <1>2, <2>1, <2>2 DEF Answers, Asking, Last
  <2> QED BY <2>3, <2>4, <2>5
<1> QED BY <1>4, <1>5, <1>6, <1>7, <1>8, <1>9, <1>10, <1>11 DEF ClientStep

\* The step of another rank, or of LoadSubgrid.
LEMMA ControlOthers ==
  ASSUME Typed, Control, NEW p \in Client,
         \/ \E r \in Proc : Fetch(r)
         \/ \E r \in Client : r # p /\ ClientStep(r)
  PROVE  Ordered(p)' /\ GetCall(p)' /\ Answers(p)'
<1> USE ProcFacts
<1>1. /\ Ordered(p) /\ GetCall(p) /\ Answers(p) /\ p # 0 /\ p \in Proc
      /\ pc \in [Proc -> MasterMethods \cup ClientMethods] /\ cur \in [Proc -> Nat]
      /\ net \in Nets /\ partials \in [Proc -> Seq(PartFun)]
  BY DEF Control, Typed
<1>2. ASSUME NEW r \in Proc, Fetch(r) PROVE  Ordered(p)' /\ GetCall(p)' /\ Answers(p)'
  <2>1. UNCHANGED <<rpcVars, remote, userVars>>
    BY <1>2 DEF Fetch, Announce, CountDone, Serve, TakeReply, fetchFrame
  <2>2. pc[r] = "GridGet"
    <3>1. ld[r].active
      BY <1>2 DEF Fetch, Announce, CountDone, Serve, TakeReply, AnnounceDone, RecvDone,
           HandleFetchRequest, HandleFetchReply, Hears, Listening
    <3> QED BY <3>1 DEF Control, ActiveIsGet, During
  <2>3. Keeps(net[p][0], net'[p][0])
    BY <1>1, <1>2, <2>2, FetchKeeps
  <2> QED BY <1>1, <2>1, <2>3, ControlSame DEF rpcVars, userVars
<1>3. ASSUME NEW r \in Client, r # p, ClientStep(r), ~Fetch(r)
      PROVE  Ordered(p)' /\ GetCall(p)' /\ Answers(p)'
  <2>1. UNCHANGED <<call, settled>>
    BY <1>3, ZenonT(30) DEF ClientStep, ClientNew, ClientDelete, ClientCopyin, ClientCopyinData, ClientCopyout,
       ClientGet, ClientGetReturn, ClientSet, ClientSetData, ClientRun, ClientReduce, ClientFinalize,
       clientFrame, userVars
  <2>2. bcast'[p] = bcast[p]
    <3>1. bcast' = bcast \/ bcast' = [bcast EXCEPT ![r] = Tail(@)]
      BY <1>3 DEF Takes, ClientStep, ClientNew, ClientDelete, ClientCopyin, ClientCopyinData, ClientCopyout,
       ClientGet, ClientGetReturn, ClientSet, ClientSetData, ClientRun, ClientReduce, ClientFinalize
    <3>2. bcast \in [Proc -> Seq(Requests)] /\ r \in Proc
      BY DEF Typed
    <3> QED BY <1>1, <1>3, <3>1, <3>2, ZenonT(30)
  <2>3. partials'[p] = partials[p]
    BY <1>1, <1>3 DEF ClientStep, ClientNew, ClientDelete, ClientCopyin, ClientCopyinData, ClientCopyout,
       ClientGet, ClientGetReturn, ClientSet, ClientSetData, ClientRun, ClientReduce, ClientFinalize
  <2>4. pc'[p] = pc[p] /\ pc'[0] = pc[0]
    BY <1>1, <1>3 DEF ClientStep, ClientNew, ClientDelete, ClientCopyin, ClientCopyinData, ClientCopyout,
       ClientGet, ClientGetReturn, ClientSet, ClientSetData, ClientRun, ClientReduce, ClientFinalize
  <2>5. cur'[p] = cur[p] /\ cur'[0] = cur[0]
    BY <1>1, <1>3 DEF ClientStep, ClientNew, ClientDelete, ClientCopyin, ClientCopyinData, ClientCopyout,
       ClientGet, ClientGetReturn, ClientSet, ClientSetData, ClientRun, ClientReduce, ClientFinalize
  <2>6. net'[p][0] = net[p][0]
    <3>1. CASE ClientGet(r)
      BY <3>1, ClientBegins
    <3>2. CASE ~ClientGet(r)
      <4>1. \/ net' = net \/ (\E m : net' = Put(net, r, 0, m)) \/ net' = Drop(net, 0, r)
        BY <1>3, <3>2 DEF ClientStep, ClientNew, ClientDelete, ClientCopyin, ClientCopyinData,
           ClientCopyout, ClientGetReturn, ClientSet, ClientSetData, ClientRun, ClientReduce,
           ClientFinalize, EndLoad
      <4> QED BY <1>1, <1>3, <4>1 DEF Put, Drop, Nets
    <3> QED BY <3>1, <3>2
  <2>7. Keeps(net[p][0], net'[p][0])
    BY <2>6 DEF Keeps
  <2> QED BY <1>1, <2>1, <2>2, <2>3, <2>4, <2>5, <2>7, ControlSame
<1> QED BY <1>2, <1>3

LEMMA ControlStep ==
  ASSUME Typed, Control, AwaitClients, [Next]_vars PROVE Control'
<1> USE ProcFacts
<1>1. CASE UNCHANGED vars
  BY <1>1 DEF vars, rpcVars, userVars, Control, Ordered, GetCall, Answers, ActiveIsGet, Before, During,
              Last, Asking
<1>2. ASSUME Next, ~Stopped, NEW p \in Client PROVE Ordered(p)' /\ GetCall(p)' /\ Answers(p)'
  <2>1. Ordered(p) /\ GetCall(p) /\ Answers(p)
    BY DEF Control
  <2>2. CASE UserStep
    BY <2>2, ControlUser
  <2>3. CASE MasterStep
    <3>1. CASE MasterCopyinReturn \/ MasterCopyoutReturn \/ MasterGetReturn \/ MasterReduceReturn
      BY <2>1, <3>1, ControlReturns
    <3>2. ASSUME NEW i \in Client, MasterCopyinNext(i) \/ MasterCopyoutNext(i)
          PROVE  Ordered(p)' /\ GetCall(p)' /\ Answers(p)'
      BY <2>1, <3>2, ControlAnswered DEF Control
    <3>3. CASE Fetch(0)
      BY <3>3, ControlOthers
    <3> QED BY <2>3, <3>1, <3>2, <3>3 DEF MasterStep
  <2>4. ASSUME NEW r \in Client, ClientStep(r)
        PROVE  Ordered(p)' /\ GetCall(p)' /\ Answers(p)'
    <3>1. CASE r = p /\ ~Fetch(p)
      BY <2>1, <2>4, <3>1, ControlClient
    <3>2. CASE r # p \/ Fetch(p)
      BY <2>4, <3>2, ControlOthers
    <3> QED BY <3>1, <3>2
  <2> QED BY <1>2, <2>2, <2>3, <2>4 DEF Next
<1>3. ASSUME Next, ~Stopped PROVE ActiveIsGet'
  BY <1>3, ActiveStep DEF Control
<1> QED BY <1>1, <1>2, <1>3 DEF Control, Stopped

LEMMA TypedStep ==
  ASSUME Typed, Control, PartsFit, AvoidRemote, [Next]_vars PROVE Typed'
<1> USE ProcFacts
<1>1. CASE UNCHANGED vars
  BY <1>1 DEF vars, rpcVars, userVars, Typed
<1>2. ASSUME NEW r \in Proc, Fetch(r) PROVE Typed'
  <2>1. ld[r].active
    BY <1>2 DEF Fetch, Announce, CountDone, Serve, TakeReply, AnnounceDone, RecvDone,
         HandleFetchRequest, HandleFetchReply, Hears, Listening
  <2> QED BY <1>2, <2>1, TypedFetch DEF Control, ActiveIsGet, During
<1>3. CASE UserStep
  BY <1>3, TypedUser
<1>4. CASE MasterStep
  <2>1. ASSUME NEW i \in Client, MasterCopyinNext(i) \/ MasterCopyoutNext(i) PROVE Typed'
    BY <2>1, TypedMaster
  <2>2. CASE MasterCopyinReturn \/ MasterCopyoutReturn \/ MasterGetReturn \/ MasterReduceReturn
    BY <2>2, TypedReturns
  <2> QED BY <1>2, <1>4, <2>1, <2>2 DEF MasterStep
<1>5. ASSUME NEW p \in Client, ClientStep(p) PROVE Typed'
  BY <1>2, <1>5, TypedClient DEF ClientStep
<1> QED BY <1>1, <1>3, <1>4, <1>5 DEF Next, Stopped

-----------------------------------------------------------------------------
(* What is in flight while ranks are inside LoadSubgrid, and that the count *)
(* of DONEs tells each of them when all are through, although ranks enter    *)
(* and leave at different times.                                            *)

\* p has sent its DONEs of the PSGridGet it was asked for last, if it was.
Announced(p) == IF During(p) THEN ld[p].doneSent ELSE ~Before(p)

\* The kinds of messages on a channel.
Allowed(a, b) ==
  IF a = b THEN {}
  ELSE IF a = 0 THEN {"SET", "DATA", "FETCH_REQUEST", "DONE"}
  ELSE IF b = 0 THEN {"PART", "DATA", "FETCH_REPLY", "DONE"} ELSE {"DONE"}

Channels(n) == \A a, b \in Proc : Only(n[a][b], Allowed(a, b))

\* A DONE of q is in flight to p, from when q sent it to when p counts it, and
\* p is in the same call of LoadSubgrid or yet to enter it.
DoneFrom(q, p) ==
  /\ AtMostOne(net[q][p], "DONE")
  /\ Has(net[q][p], "DONE") => Announced(q) /\ (Before(p) \/ During(p))
  /\ Before(p) /\ Announced(q) /\ q # p => Has(net[q][p], "DONE")
  /\ ~Announced(q) => Before(p) \/ During(p)

Heard(p)     == {q \in Proc : Announced(q) /\ ~Has(net[q][p], "DONE")}
DoneCount(p) == During(p) => ld[p].done = Cardinality(Heard(p))

DoneInv == /\ \A p, q \in Proc : DoneFrom(q, p)
           /\ \A p \in Proc : DoneCount(p)

\* The one request of a PSGridGet, or its reply, is in flight.
Asked(p) ==
  /\ AtMostOne(net[0][p], "FETCH_REQUEST") /\ AtMostOne(net[p][0], "FETCH_REPLY")
  /\ Has(net[0][p], "FETCH_REQUEST") \/ Has(net[p][0], "FETCH_REPLY") =>
       During(0) /\ p = Owner[call.point] /\ ld[0].remaining = 1
  /\ ~(Has(net[0][p], "FETCH_REQUEST") /\ Has(net[p][0], "FETCH_REPLY"))
  /\ Has(net[0][p], "FETCH_REQUEST") => Before(p) \/ During(p)

RequestInv ==
  /\ Channels(net)
  /\ \A p \in Client : Asked(p)
  /\ During(0) => ld[0].remaining \in {0, 1} /\ (ld[0].doneSent => ld[0].remaining = 0)

Fetching == DoneInv /\ RequestInv

-----------------------------------------------------------------------------
LEMMA HeardCount ==
  /\ \A p : IsFiniteSet(Heard(p)) /\ Cardinality(Heard(p)) \in Nat
  /\ \A p : Cardinality(Heard(p)) = NProcs => Heard(p) = Proc
<1> SUFFICES ASSUME NEW p
             PROVE  /\ IsFiniteSet(Heard(p)) /\ Cardinality(Heard(p)) \in Nat
                    /\ Cardinality(Heard(p)) = NProcs => Heard(p) = Proc
  OBVIOUS
<1>1. Heard(p) \subseteq Proc /\ IsFiniteSet(Proc) /\ Cardinality(Proc) = NProcs
  BY ProcFacts DEF Heard
<1> HIDE DEF Heard
<1>2. IsFiniteSet(Heard(p))
  BY <1>1, FS_Subset
<1>3. Cardinality(Heard(p)) \in Nat
  BY <1>2, FS_CardinalityType
<1>4. Cardinality(Heard(p)) = NProcs => Heard(p) = Proc
  BY <1>1, FS_Subset
<1> QED BY <1>2, <1>3, <1>4

\* No rank has a request for a PSGridGet left while it is in one.
LEMMA DuringNotBefore ==
  ASSUME Typed, Control, NEW p \in Proc, During(p) PROVE ~Before(p)
<1>1. CASE p = 0
  <2>1. bcast[p] = << >>
    BY <1>1 DEF Typed
  <2> QED BY <2>1 DEF Before, Has
<1>2. CASE p \in Client
  BY <1>2 DEF Control, Ordered, Before, Has
<1> QED BY <1>1, <1>2, ProcFacts

LEMMA FetchingInit == Init => Fetching
<1> SUFFICES ASSUME Init PROVE Fetching
  OBVIOUS
<1>1. /\ \A a, b \in Proc : net[a][b] = << >>
      /\ \A p \in Proc : bcast[p] = << >> /\ ~During(p)
  BY ProcFacts DEF Init, FetchInit, EmptyNet, During
<1>2. \A k : ~Has(<< >>, k) /\ AtMostOne(<< >>, k) /\ Only(<< >>, k)
  BY DEF Has, AtMostOne, Only
<1>3. \A p \in Proc : Announced(p) /\ ~Before(p)
  BY <1>1, <1>2 DEF Announced, Before
<1>4. DoneInv
  BY <1>1, <1>2, <1>3 DEF DoneInv, DoneFrom, DoneCount
<1>5. RequestInv
  BY <1>1, <1>2, ProcFacts DEF RequestInv, Channels, Asked
<1> QED BY <1>4, <1>5 DEF Fetching

-----------------------------------------------------------------------------
(* Steps that have nothing to do with LoadSubgrid.                           *)

SameFetch(s, t) ==
  \A k \in FetchKinds : /\ Has(t, k) <=> Has(s, k)
                        /\ AtMostOne(s, k) => AtMostOne(t, k)

LEMMA ChannelFacts ==
  ASSUME NEW n \in Nets, Channels(n)
  PROVE  /\ \A a \in Proc : n[a][a] = << >>
         /\ \A s, d \in Proc, m \in RpcMessage :
              m.kind \in Allowed(s, d) => Channels(Put(n, s, d, m))
         /\ \A s, d \in Proc : Pending(n, s, d) => /\ Channels(Drop(n, s, d))
                                                   /\ Oldest(n, s, d).kind \in Allowed(s, d)
                                                   /\ s # d
         /\ \A p \in Proc : Channels(Reallocate(n, p))
<1>1. \A a, b \in Proc : n[a][b] \in Seq(RpcMessage) /\ Only(n[a][b], Allowed(a, b))
  BY DEF Channels, Nets
<1>2. \A a \in Proc : n[a][a] = << >>
  <2> TAKE a \in Proc
  <2>1. Only(n[a][a], {}) /\ n[a][a] \in Seq(RpcMessage)
    BY <1>1 DEF Allowed
  <2> QED BY <2>1, TakenKinds
<1>3. ASSUME NEW s \in Proc, NEW d \in Proc, NEW m \in RpcMessage, m.kind \in Allowed(s, d)
      PROVE  Channels(Put(n, s, d, m))
  <2> DEFINE t == Put(n, s, d, m)
  <2>1. n[s][d] \in Seq(RpcMessage) /\ Only(n[s][d], Allowed(s, d))
    BY <1>1
  <2>2. Only(Append(n[s][d], m), Allowed(s, d))
    BY <1>3, <2>1, SentKinds
  <2>3. t[s][d] = Append(n[s][d], m) /\ \A a, b \in Proc : a # s \/ b # d => t[a][b] = n[a][b]
    BY PutFacts
  <2> HIDE DEF t
  <2>4. \A a, b \in Proc : Only(t[a][b], Allowed(a, b))
    BY <1>1, <2>2, <2>3
  <2> QED BY <2>4 DEF Channels, t
<1>4. ASSUME NEW s \in Proc, NEW d \in Proc, Pending(n, s, d)
      PROVE  /\ Channels(Drop(n, s, d)) /\ Oldest(n, s, d).kind \in Allowed(s, d) /\ s # d
  <2>1. n[s][d] # << >> /\ Oldest(n, s, d) = Head(n[s][d])
    BY <1>4 DEF Pending, Oldest
  <2>2. Only(Tail(n[s][d]), Allowed(s, d)) /\ Head(n[s][d]).kind \in Allowed(s, d)
    BY <1>1, <2>1, TakenKinds
  <2>3. Channels(Drop(n, s, d))
    BY <1>1, <1>4, <2>2, DropFacts DEF Channels
  <2> QED BY <1>2, <2>1, <2>2, <2>3
<1>5. ASSUME NEW p \in Proc PROVE Channels(Reallocate(n, p))
  <2> SUFFICES ASSUME NEW a \in Proc, NEW b \in Proc
               PROVE  Only(Reallocate(n, p)[a][b], Allowed(a, b))
    BY DEF Channels
  <2>1. SameButReplies(n[a][b], Reallocate(n, p)[a][b])
    BY ReallocateFacts
  <2> QED BY <1>1, <2>1, SameKinds
<1> QED BY <1>2, <1>3, <1>4, <1>5

LEMMA SameFetchFacts ==
  ASSUME NEW n \in Nets, NEW a \in Proc, NEW b \in Proc
  PROVE  /\ SameFetch(n[a][b], n[a][b])
         /\ \A s, d \in Proc, m \in RpcMessage :
              m.kind \notin FetchKinds => SameFetch(n[a][b], Put(n, s, d, m)[a][b])
         /\ \A s, d \in Proc : Pending(n, s, d) /\ Oldest(n, s, d).kind \notin FetchKinds
              => SameFetch(n[a][b], Drop(n, s, d)[a][b])
<1>1. n[a][b] \in Seq(RpcMessage) /\ SameFetch(n[a][b], n[a][b])
  BY DEF Nets, SameFetch
<1>2. ASSUME NEW s \in Proc, NEW d \in Proc, NEW m \in RpcMessage, m.kind \notin FetchKinds
      PROVE  SameFetch(n[a][b], Put(n, s, d, m)[a][b])
  <2>1. SameFetch(n[a][b], Append(n[a][b], m))
    BY <1>1, <1>2, SentKinds DEF SameFetch
  <2>2. Put(n, s, d, m)[a][b] = n[a][b] \/ Put(n, s, d, m)[a][b] = Append(n[a][b], m)
    <3>1. CASE a = s /\ b = d
      BY <3>1, PutFacts
    <3>2. CASE a # s \/ b # d
      BY <3>2, PutFacts
    <3> QED BY <3>1, <3>2
  <2> QED BY <1>1, <2>1, <2>2
<1>3. ASSUME NEW s \in Proc, NEW d \in Proc, Pending(n, s, d), Oldest(n, s, d).kind \notin FetchKinds
      PROVE  SameFetch(n[a][b], Drop(n, s, d)[a][b])
  <2>1. CASE a = s /\ b = d
    <3>1. /\ Drop(n, s, d)[a][b] = Tail(n[a][b]) /\ n[a][b] # << >>
          /\ Head(n[a][b]).kind \notin FetchKinds
      BY <1>3, <2>1, DropFacts DEF Oldest
    <3> QED BY <1>1, <3>1, TakenKinds DEF SameFetch
  <2>2. CASE ~(a = s /\ b = d)
    BY <1>1, <1>3, <2>2, DropFacts
  <2> QED BY <2>1, <2>2
<1> QED BY <1>1, <1>2, <1>3

LEMMA FetchingSame ==
  ASSUME Fetching, Channels(net'),
         \A p \in Proc : (Before(p)' <=> Before(p)) /\ (During(p)' <=> During(p)),
         \A a, b \in Proc : SameFetch(net[a][b], net'[a][b]),
         \A p \in Proc : During(p) => ld'[p] = ld[p],
         During(0) => call'.point = call.point
  PROVE  Fetching'
<1> USE ProcFacts
<1>0. "DONE" \in FetchKinds /\ "FETCH_REQUEST" \in FetchKinds /\ "FETCH_REPLY" \in FetchKinds
  BY DEF FetchKinds
<1>1. \A p \in Proc : Announced(p)' <=> Announced(p)
  BY DEF Announced
<1>2. \A a, b \in Proc : /\ (Has(net[a][b], "DONE"))' <=> Has(net[a][b], "DONE")
                         /\ AtMostOne(net[a][b], "DONE") => (AtMostOne(net[a][b], "DONE"))'
  BY <1>0 DEF SameFetch
<1>3. \A p, q \in Proc : DoneFrom(q, p)'
  BY <1>1, <1>2 DEF Fetching, DoneInv, DoneFrom
<1>4. \A p \in Proc : Heard(p)' = Heard(p)
  BY <1>1, <1>2 DEF Heard
<1>5. \A p \in Proc : DoneCount(p)'
  BY <1>4 DEF Fetching, DoneInv, DoneCount
<1>6. \A p \in Client : Asked(p)'
  <2> TAKE p \in Client
  <2>1. /\ (Has(net[0][p], "FETCH_REQUEST"))' <=> Has(net[0][p], "FETCH_REQUEST")
        /\ (Has(net[p][0], "FETCH_REPLY"))' <=> Has(net[p][0], "FETCH_REPLY")
        /\ AtMostOne(net[0][p], "FETCH_REQUEST") => (AtMostOne(net[0][p], "FETCH_REQUEST"))'
        /\ AtMostOne(net[p][0], "FETCH_REPLY") => (AtMostOne(net[p][0], "FETCH_REPLY"))'
    BY <1>0 DEF SameFetch
  <2>2. Asked(p)
    BY DEF Fetching, RequestInv
  <2> QED BY <2>1, <2>2 DEF Asked
<1>7. (During(0) => ld[0].remaining \in {0, 1} /\ (ld[0].doneSent => ld[0].remaining = 0))'
  BY DEF Fetching, RequestInv
<1> QED BY <1>3, <1>5, <1>6, <1>7 DEF Fetching, DoneInv, RequestInv

LEMMA FetchingUser ==
  ASSUME Typed, Fetching, UserStep,
         ~\E id \in DOMAIN store : \E x \in DOMAIN store[id] : MasterGet(id, x)
  PROVE  Fetching'
<1> USE ProcFacts
<1>1. /\ pc \in [Proc -> MasterMethods \cup ClientMethods] /\ net \in Nets /\ Channels(net)
      /\ bcast[0] = << >>
  BY DEF Typed, Fetching, RequestInv
<1>2. pc[0] = "user" /\ ld' = ld /\ pc'[0] # "GridGet" /\ \A p \in Client : pc'[p] = pc[p]
  BY <1>1, ZenonT(30) DEF UserStep, UserCalls, MasterNew, MasterDelete, MasterCopyin, MasterCopyout,
       MasterSetRemote, MasterSetLocal, MasterRun, MasterReduce, MasterFinalize
<1>3. \/ bcast' = bcast
      \/ \E m \in Requests : Notify(m) /\ m.kind # "FUNC_GET"
  <2>1. /\ \A s \in Shape : Req("FUNC_NEW", s) \in Requests
        /\ \A k \in IdKinds, id \in Nat : Req(k, id) \in Requests
        /\ \A k, o : Req(k, o).kind = k
    BY RequestFacts, MasterClientAssumption DEF Req
  <2>2. /\ \A id \in DOMAIN store : id \in Nat /\ \A x \in DOMAIN store[id] : Owner[x] \in Nat
        /\ 0 \in Nat
    <3> SUFFICES ASSUME NEW id \in DOMAIN store
                 PROVE  id \in Nat /\ \A x \in DOMAIN store[id] : Owner[x] \in Nat
      OBVIOUS
    <3>1. id \in Nat /\ DOMAIN store[id] \subseteq Point
      BY StoreFacts
    <3>2. \A x \in Point : Owner[x] \in Nat
      <4> TAKE x \in Point
      <4>1. Owner[x] \in Proc
        BY ONLY x \in Point, MasterClientAssumption
      <4> QED BY ONLY <4>1, ProcFacts
    <3> QED BY <3>1, <3>2
  <2>3. ASSUME NEW k \in IdKinds, NEW id \in Nat, Notify(Req(k, id)), k # "FUNC_GET"
        PROVE  \E m \in Requests : Notify(m) /\ m.kind # "FUNC_GET"
    BY <2>1, <2>3
  <2>4. ASSUME NEW s \in Shape, Notify(Req("FUNC_NEW", s))
        PROVE  \E m \in Requests : Notify(m) /\ m.kind # "FUNC_GET"
    BY <2>1, <2>4
  <2>5. \/ bcast' = bcast
        \/ \E s \in Shape : Notify(Req("FUNC_NEW", s))
        \/ \E id \in DOMAIN store :
             \/ Notify(Req("FUNC_DELETE", id)) \/ Notify(Req("FUNC_COPYIN", id))
             \/ Notify(Req("FUNC_COPYOUT", id)) \/ Notify(Req("FUNC_RUN", id))
             \/ Notify(Req("FUNC_GRID_REDUCE", id))
             \/ \E x \in DOMAIN store[id] : Notify(Req("FUNC_SET", Owner[x]))
        \/ Notify(Req("FUNC_FINALIZE", 0))
    BY ZenonT(30) DEF UserStep, MasterNew, MasterDelete, MasterCopyin, MasterCopyout,
       MasterSetRemote, MasterSetLocal, MasterRun, MasterReduce, MasterFinalize
  <2>6. {"FUNC_DELETE", "FUNC_COPYIN", "FUNC_COPYOUT", "FUNC_SET", "FUNC_RUN",
         "FUNC_GRID_REDUCE", "FUNC_FINALIZE"} \subseteq IdKinds
    BY DEF IdKinds
  <2> QED BY <2>2, <2>3, <2>4, <2>5, <2>6
<1>4. \A p \in Proc : Before(p)' <=> Before(p)
  <2>1. CASE bcast' = bcast
    BY <2>1 DEF Before
  <2>2. ASSUME NEW m \in Requests, Notify(m), m.kind # "FUNC_GET"
        PROVE  \A p \in Proc : Before(p)' <=> Before(p)
    <3>1. bcast'[0] = << >> /\ \A p \in Client : bcast'[p] = Append(bcast[p], m)
      BY <2>2, NotifyFacts
    <3>2. \A p \in Client : bcast[p] \in Seq(Requests)
      BY DEF Typed
    <3>3. ASSUME NEW p \in Client PROVE Before(p)' <=> Before(p)
      <4>1. /\ bcast'[p] = Append(bcast[p], m) /\ bcast[p] \in Seq(Requests)
            /\ m \in Requests /\ m.kind # "FUNC_GET"
        BY <2>2, <3>1, <3>2
      <4>2. Has(Append(bcast[p], m), "FUNC_GET") <=> Has(bcast[p], "FUNC_GET")
        BY ONLY <4>1, SentKinds
      <4> QED BY <4>1, <4>2 DEF Before
    <3>4. Before(0)' <=> Before(0)
      BY <1>1, <3>1 DEF Before
    <3> QED BY <3>3, <3>4
  <2> QED BY <1>3, <2>1, <2>2
<1>5. \/ net' = net
      \/ \E d \in Client, m \in RpcMessage : m.kind = "SET" /\ net' = Put(net, 0, d, m)
  <2>1. ASSUME NEW id \in DOMAIN store, NEW x \in DOMAIN store[id], NEW v \in Data,
               MasterSetRemote(id, x, v)
        PROVE  \E d \in Client, m \in RpcMessage : m.kind = "SET" /\ net' = Put(net, 0, d, m)
    <3>1. Owner[x] \in Client
      BY <2>1, StoreFacts, MasterClientAssumption DEF MasterSetRemote
    <3>2. SetMsg(id, x, v) \in RpcMessage /\ SetMsg(id, x, v).kind = "SET"
      BY StoreFacts, MessageFacts DEF SetMsg
    <3> QED BY <2>1, <3>1, <3>2 DEF MasterSetRemote
  <2> QED BY <2>1 DEF UserStep, MasterNew, MasterDelete, MasterCopyin, MasterCopyout,
          MasterSetLocal, MasterRun, MasterReduce, MasterFinalize
<1>6. Channels(net') /\ \A a, b \in Proc : SameFetch(net[a][b], net'[a][b])
  <2>1. CASE net' = net
    BY <1>1, <2>1, SameFetchFacts
  <2>2. ASSUME NEW d \in Client, NEW m \in RpcMessage, m.kind = "SET", net' = Put(net, 0, d, m)
        PROVE  Channels(net') /\ \A a, b \in Proc : SameFetch(net[a][b], net'[a][b])
    <3>1. m.kind \in Allowed(0, d) /\ m.kind \notin FetchKinds
      BY <2>2 DEF Allowed, FetchKinds
    <3> QED BY <1>1, <2>2, <3>1, ChannelFacts, SameFetchFacts
  <2> QED BY <1>5, <2>1, <2>2
<1>7. \A p \in Proc : During(p)' <=> During(p)
  BY <1>2 DEF During
<1>8. ~During(0)
  BY <1>2 DEF During
<1> QED BY <1>2, <1>4, <1>6, <1>7, <1>8, FetchingSame

LEMMA FetchingMaster ==
  ASSUME Typed, PartsFit, Fetching,
         \/ \E i \in Client : MasterCopyinNext(i) \/ MasterCopyoutNext(i)
         \/ MasterCopyinReturn \/ MasterCopyoutReturn \/ MasterReduceReturn
  PROVE  Fetching'
<1> USE ProcFacts
<1>1. /\ pc \in [Proc -> MasterMethods \cup ClientMethods] /\ net \in Nets /\ Channels(net)
  BY DEF Typed, Fetching, RequestInv
<1>2. /\ pc[0] # "GridGet" /\ pc'[0] # "GridGet" /\ \A p \in Client : pc'[p] = pc[p]
      /\ ld' = ld /\ bcast' = bcast
  BY <1>1 DEF MasterCopyinNext, MasterCopyoutNext, MasterCopyinReturn, MasterCopyoutReturn,
              MasterReduceReturn
<1>3. Channels(net') /\ \A a, b \in Proc : SameFetch(net[a][b], net'[a][b])
  <2>1. CASE net' = net
    BY <1>1, <2>1, SameFetchFacts
  <2>2. ASSUME NEW i \in Client, MasterCopyinNext(i) \/ MasterCopyoutNext(i)
        PROVE  Channels(net') /\ \A a, b \in Proc : SameFetch(net[a][b], net'[a][b])
    <3> DEFINE n == Drop(net, i, 0)
               m == DataMsg([x \in Oldest(net, i, 0).body |-> call.buf[x]])
    <3>1. Pending(net, i, 0) /\ Oldest(net, i, 0).kind \notin FetchKinds
      BY <2>2 DEF MasterCopyinNext, MasterCopyoutNext, FetchKinds
    <3>2. net' = n \/ (MasterCopyinNext(i) /\ net' = Put(n, 0, i, m))
      BY <2>2 DEF MasterCopyinNext, MasterCopyoutNext
    <3>3. m.kind = "DATA" /\ (MasterCopyinNext(i) => m \in RpcMessage)
      BY CopyinPart, MessageFacts DEF DataMsg
    <3> HIDE DEF m
    <3>4. Channels(n) /\ n \in Nets /\ \A a, b \in Proc : SameFetch(net[a][b], n[a][b])
      BY <1>1, <3>1, ChannelFacts, SameFetchFacts, DropFacts
    <3> HIDE DEF n
    <3>5. CASE net' = n
      BY <3>4, <3>5
    <3>6. CASE MasterCopyinNext(i) /\ net' = Put(n, 0, i, m)
      <4>1. m.kind \in Allowed(0, i) /\ m.kind \notin FetchKinds
        BY <3>3 DEF Allowed, FetchKinds
      <4>2. Channels(net') /\ \A a, b \in Proc : SameFetch(n[a][b], net'[a][b])
        BY <3>3, <3>4, <3>6, <4>1, ChannelFacts, SameFetchFacts
      <4>3. \A s, t, u : SameFetch(s, t) /\ SameFetch(t, u) => SameFetch(s, u)
        BY DEF SameFetch
      <4> QED BY <3>4, <4>2, <4>3
    <3> QED BY <3>2, <3>5, <3>6
  <2> QED BY <2>1, <2>2 DEF MasterCopyinReturn, MasterCopyoutReturn, MasterReduceReturn
<1>4. \A p \in Proc : (During(p)' <=> During(p)) /\ (Before(p)' <=> Before(p))
  BY <1>2 DEF During, Before
<1>5. ~During(0)
  BY <1>2 DEF During
<1> QED BY <1>2, <1>3, <1>4, <1>5, FetchingSame

LEMMA FetchingClient ==
  ASSUME Typed, Fetching, NEW p \in Client,
         \/ ClientNew(p) \/ ClientDelete(p) \/ ClientCopyin(p) \/ ClientCopyinData(p)
         \/ ClientCopyout(p) \/ ClientSet(p) \/ ClientSetData(p) \/ ClientRun(p)
         \/ ClientReduce(p) \/ ClientFinalize(p)
  PROVE  Fetching'
<1> USE ProcFacts, SamePlace
<1>1. /\ pc \in [Proc -> MasterMethods \cup ClientMethods] /\ net \in Nets /\ Channels(net)
  BY DEF Typed, Fetching, RequestInv
<1>2. /\ ld' = ld /\ call' = call
      /\ \/ \E k : Takes(p, k) /\ k # "FUNC_GET"
         \/ bcast' = bcast /\ pc[p] \in {"GridCopyin", "GridSet"}
  BY DEF ClientNew, ClientDelete, ClientCopyin, ClientCopyinData, ClientCopyout, ClientSet,
         ClientSetData, ClientRun, ClientReduce, ClientFinalize, clientFrame
<1>3. pc[p] # "GridGet"
  BY <1>2 DEF Takes
<1>4. \E m \in {"Listen", "GridCopyin", "GridSet", "exit"} : pc' = [pc EXCEPT ![p] = m]
  BY <1>2 DEF ClientNew, ClientDelete, ClientCopyin, ClientCopyinData, ClientCopyout, ClientSet,
         ClientSetData, ClientRun, ClientReduce, ClientFinalize, Takes
<1>5. \A q \in Proc : During(q)' <=> During(q)
  <2>1. pc'[p] # "GridGet" /\ \A q \in Proc : q # p => pc'[q] = pc[q]
    BY <1>1, <1>4
  <2> QED BY <1>3, <2>1 DEF During
<1>6. \A q \in Proc : Before(q)' <=> Before(q)
  <2>1. CASE bcast' = bcast
    BY <2>1 DEF Before
  <2>2. ASSUME NEW k, Takes(p, k), k # "FUNC_GET" PROVE \A q \in Proc : Before(q)' <=> Before(q)
    <3>1. /\ bcast[p] \in Seq(Requests) /\ bcast[p] # << >> /\ bcast'[p] = Tail(bcast[p])
          /\ Head(bcast[p]).kind = k /\ \A q \in Proc : q # p => bcast'[q] = bcast[q]
      BY <2>2, TakesFacts
    <3>2. Before(p)' <=> Before(p)
      BY <2>2, <3>1, TakenKinds DEF Before
    <3> QED BY <3>1, <3>2 DEF Before
  <2> QED BY <1>2, <2>1, <2>2
<1>7. \/ net' = net
      \/ \E m \in RpcMessage : m.kind \in {"PART", "DATA"} /\ net' = Put(net, p, 0, m)
      \/ /\ Pending(net, 0, p) /\ Oldest(net, 0, p).kind \in {"DATA", "SET"}
         /\ net' = Drop(net, 0, p)
  <2>1. CASE ClientCopyin(p)
    <3>1. Opt(p) \in DOMAIN grids[p] /\ net' = Put(net, p, 0, PartMsg(DOMAIN grids[p][Opt(p)]))
      BY <2>1 DEF ClientCopyin, Knows
    <3>2. PartMsg(DOMAIN grids[p][Opt(p)]) \in RpcMessage
      BY <3>1, GridFacts, MessageFacts
    <3> QED BY <3>1, <3>2 DEF PartMsg
  <2>2. CASE ClientCopyout(p)
    <3>1. Opt(p) \in DOMAIN grids[p] /\ net' = Put(net, p, 0, DataMsg(grids[p][Opt(p)]))
      BY <2>2 DEF ClientCopyout, Knows
    <3>2. DataMsg(grids[p][Opt(p)]) \in RpcMessage
      BY <3>1, GridFacts, MessageFacts
    <3> QED BY <3>1, <3>2 DEF DataMsg
  <2>3. CASE ClientCopyinData(p) \/ ClientSetData(p)
    BY <2>3 DEF ClientCopyinData, ClientSetData
  <2>4. CASE \/ ClientNew(p) \/ ClientDelete(p) \/ ClientSet(p) \/ ClientRun(p)
             \/ ClientReduce(p) \/ ClientFinalize(p)
    BY <2>4 DEF ClientNew, ClientDelete, ClientSet, ClientRun, ClientReduce, ClientFinalize
  <2> QED BY <2>1, <2>2, <2>3, <2>4
<1>8. Channels(net') /\ \A a, b \in Proc : SameFetch(net[a][b], net'[a][b])
  <2>1. CASE net' = net
    BY <1>1, <2>1, SameFetchFacts
  <2>2. ASSUME NEW m \in RpcMessage, m.kind \in {"PART", "DATA"}, net' = Put(net, p, 0, m)
        PROVE  Channels(net') /\ \A a, b \in Proc : SameFetch(net[a][b], net'[a][b])
    <3>1. m.kind \in Allowed(p, 0) /\ m.kind \notin FetchKinds
      BY <2>2 DEF Allowed, FetchKinds
    <3> QED BY <1>1, <2>2, <3>1, ChannelFacts, SameFetchFacts
  <2>3. CASE /\ Pending(net, 0, p) /\ Oldest(net, 0, p).kind \in {"DATA", "SET"}
             /\ net' = Drop(net, 0, p)
    <3>1. Oldest(net, 0, p).kind \notin FetchKinds
      BY <2>3 DEF FetchKinds
    <3> QED BY <1>1, <2>3, <3>1, ChannelFacts, SameFetchFacts
  <2> QED BY <1>7, <2>1, <2>2, <2>3
<1> QED BY <1>2, <1>5, <1>6, <1>8, FetchingSame

-----------------------------------------------------------------------------
(* Entering LoadSubgrid.                                                     *)

LEMMA NoneIsAtMostOne == \A s, k : ~Has(s, k) => AtMostOne(s, k)
  BY DEF Has, AtMostOne

LEMMA FetchingMasterGet ==
  ASSUME Typed, Control, AwaitClients, Fetching,
         NEW id \in DOMAIN store, NEW x \in DOMAIN store[id], MasterGet(id, x)
  PROVE  Fetching'
<1> USE ProcFacts
<1>1. /\ x \in Point /\ id \in Nat /\ pc[0] = "user" /\ settled /\ bcast[0] = << >>
      /\ net \in Nets /\ Channels(net) /\ call'.point = x
      /\ pc \in [Proc -> MasterMethods \cup ClientMethods] /\ pc' = [pc EXCEPT ![0] = "GridGet"]
  BY StoreFacts DEF MasterGet, UserCalls, MayTalk, Typed, Fetching, RequestInv, NoCall
<1>2. \A p \in Proc : ~Before(p) /\ ~During(p)
  <2>1. ~Before(0) /\ ~During(0)
    BY <1>1 DEF Before, During, Has
  <2>2. \A p \in Client : ~Before(p) /\ ~During(p)
    BY <1>1, <2>1 DEF Control, GetCall
  <2> QED BY <2>1, <2>2
<1>3. /\ \A a, b \in Proc : ~Has(net[a][b], "DONE")
      /\ \A p \in Client : ~Has(net[0][p], "FETCH_REQUEST") /\ ~Has(net[p][0], "FETCH_REPLY")
  BY <1>2 DEF Fetching, DoneInv, DoneFrom, RequestInv, Asked
<1>4. /\ Owner[x] \in Proc
      /\ \A a, b \in Proc : net'[a][b] = IF a = 0 /\ b = Owner[x] /\ b # 0
                                         THEN Append(net[a][b], Request(x)) ELSE net[a][b]
      /\ ~ld'[0].doneSent /\ ld'[0].done = 0
      /\ ld'[0].remaining = IF Owner[x] = 0 THEN 0 ELSE 1
  BY <1>1, MasterBegins
<1>5. During(0)' /\ ~Before(0)' /\ \A p \in Client : Before(p)' /\ ~During(p)'
  <2>1. Req("FUNC_GET", id) \in Requests /\ Notify(Req("FUNC_GET", id))
    BY <1>1, RequestFacts DEF IdKinds, MasterGet
  <2>2. bcast'[0] = << >> /\ \A p \in Client : bcast'[p] = Append(bcast[p], Req("FUNC_GET", id))
    BY <2>1, NotifyFacts
  <2>3. ASSUME NEW p \in Client PROVE Before(p)' /\ ~During(p)'
    <3>1. bcast[p] \in Seq(Requests) /\ Req("FUNC_GET", id).kind = "FUNC_GET"
      BY DEF Typed, Req
    <3>2. Has(Append(bcast[p], Req("FUNC_GET", id)), "FUNC_GET")
      BY <2>1, <3>1, SentKinds
    <3>3. pc'[p] = pc[p]
      BY <1>1
    <3> QED BY <1>2, <2>2, <3>2, <3>3 DEF Before, During
  <2> QED BY <1>1, <2>2, <2>3 DEF Before, During, Has
<1>6. \A p \in Proc : ~Announced(p)' /\ (Before(p)' \/ During(p)')
  BY <1>4, <1>5 DEF Announced, During
<1>7. \A a, b \in Proc : /\ net[a][b] \in Seq(RpcMessage) /\ Request(x) \in RpcMessage
                         /\ Request(x).kind = "FETCH_REQUEST"
  BY <1>1, MessageFacts DEF Nets, Request
<1>8. ASSUME NEW a \in Proc, NEW b \in Proc
      PROVE  /\ ~Has(net'[a][b], "DONE") /\ AtMostOne(net'[a][b], "DONE")
             /\ Only(net'[a][b], Allowed(a, b))
  <2>1. CASE a = 0 /\ b = Owner[x] /\ b # 0
    <3>1. net'[a][b] = Append(net[a][b], Request(x)) /\ "FETCH_REQUEST" \in Allowed(a, b)
      BY <1>4, <2>1 DEF Allowed
    <3>2. Only(net[a][b], Allowed(a, b)) /\ ~Has(net[a][b], "DONE")
      BY <1>1, <1>3 DEF Channels
    <3>3. net[a][b] \in Seq(RpcMessage) /\ Request(x) \in RpcMessage
          /\ Request(x).kind = "FETCH_REQUEST"
      BY <1>7
    <3>4. ~Has(Append(net[a][b], Request(x)), "DONE")
      BY ONLY <3>2, <3>3, SentKinds
    <3>5. Only(Append(net[a][b], Request(x)), Allowed(a, b))
      BY ONLY <3>1, <3>2, <3>3, SentKinds
    <3> QED BY <3>1, <3>4, <3>5, NoneIsAtMostOne
  <2>2. CASE ~(a = 0 /\ b = Owner[x] /\ b # 0)
    BY <1>1, <1>3, <1>4, <2>2, NoneIsAtMostOne DEF Channels
  <2> QED BY <2>1, <2>2
<1>9. \A p, q \in Proc : DoneFrom(q, p)'
  BY <1>6, <1>8 DEF DoneFrom
<1>10. \A p \in Proc : DoneCount(p)'
  <2>1. \A p \in Proc : Heard(p)' = {}
    BY <1>6 DEF Heard
  <2>2. \A p \in Client : DoneCount(p)'
    BY <1>5 DEF DoneCount
  <2>3. DoneCount(0)'
    BY <1>4, <2>1, FS_EmptySet DEF DoneCount
  <2> QED BY <2>2, <2>3
<1>11. ASSUME NEW p \in Client PROVE Asked(p)'
  <2>1. /\ net'[p][0] = net[p][0] /\ ~Has(net'[p][0], "FETCH_REPLY")
        /\ AtMostOne(net'[p][0], "FETCH_REPLY")
    BY <1>3, <1>4, NoneIsAtMostOne
  <2>2. /\ AtMostOne(net'[0][p], "FETCH_REQUEST")
        /\ Has(net'[0][p], "FETCH_REQUEST") => p = Owner[x]
    <3>1. CASE p = Owner[x]
      <4>1. net'[0][p] = Append(net[0][p], Request(x)) /\ ~Has(net[0][p], "FETCH_REQUEST")
        BY <1>3, <1>4, <3>1
      <4>2. AtMostOne(net[0][p], "FETCH_REQUEST")
        BY <4>1, NoneIsAtMostOne
      <4>3. net[0][p] \in Seq(RpcMessage) /\ Request(x) \in RpcMessage
        BY <1>7
      <4>4. AtMostOne(Append(net[0][p], Request(x)), "FETCH_REQUEST")
        BY ONLY <4>1, <4>2, <4>3, SentKinds
      <4> QED BY <3>1, <4>1, <4>4
    <3>2. CASE p # Owner[x]
      BY <1>3, <1>4, <3>2, NoneIsAtMostOne
    <3> QED BY <3>1, <3>2
  <2>3. p = Owner[x] => ld'[0].remaining = 1
    BY <1>4
  <2> QED BY <1>1, <1>5, <2>1, <2>2, <2>3 DEF Asked
<1>12. RequestInv'
  <2>1. Channels(net')
    BY <1>8 DEF Channels
  <2>2. ld'[0].remaining \in {0, 1} /\ ~ld'[0].doneSent
    BY <1>4
  <2> QED BY <1>11, <2>1, <2>2 DEF RequestInv
<1> QED BY <1>9, <1>10, <1>12 DEF Fetching, DoneInv

LEMMA FetchingClientGet ==
  ASSUME Typed, Control, Control', Fetching, NEW p \in Client, ClientGet(p)
  PROVE  Fetching'
<1> USE ProcFacts
<1>1. /\ net' = net /\ call' = call /\ net \in Nets
      /\ \A q \in Proc : q # p => ld'[q] = ld[q]
      /\ ~ld'[p].doneSent /\ ld'[p].done = 0
      /\ pc \in [Proc -> MasterMethods \cup ClientMethods] /\ pc' = [pc EXCEPT ![p] = "GridGet"]
      /\ Takes(p, "FUNC_GET")
  BY ClientBegins DEF ClientGet, clientFrame, Typed
<1>2. /\ bcast[p] \in Seq(Requests) /\ bcast[p] # << >> /\ bcast'[p] = Tail(bcast[p])
      /\ Head(bcast[p]).kind = "FUNC_GET" /\ pc[p] = "Listen"
      /\ \A q \in Proc : q # p => bcast'[q] = bcast[q]
  BY <1>1, TakesFacts, TakenFirst
<1>3. Before(p) /\ ~During(p) /\ During(p)'
  BY <1>1, <1>2, TakenKinds DEF Before, During
<1>4. ~Before(p)'
  BY <1>3 DEF Control, Ordered, Before, Has
<1>5. ~Announced(p) /\ ~Announced(p)'
  BY <1>1, <1>3 DEF Announced
<1>6. ASSUME NEW q \in Proc, q # p
      PROVE  /\ (Before(q)' <=> Before(q)) /\ (During(q)' <=> During(q))
             /\ (Announced(q)' <=> Announced(q))
  BY <1>1, <1>2, <1>6 DEF Before, During, Announced
<1>7. \A q, r \in Proc : DoneFrom(q, r)'
  <2>1. \A q \in Proc : Announced(q)' <=> Announced(q)
    BY <1>5, <1>6
  <2>2. \A q \in Proc : /\ Before(q)' \/ During(q)' <=> Before(q) \/ During(q)
                        /\ Before(q)' => Before(q)
    BY <1>3, <1>4, <1>6
  <2> QED BY <1>1, <2>1, <2>2 DEF Fetching, DoneInv, DoneFrom
<1>8. \A r \in Proc : DoneCount(r)'
  <2>1. \A r \in Proc : Heard(r)' = Heard(r)
    BY <1>1, <1>5, <1>6 DEF Heard
  <2>2. Heard(p) = {}
    BY <1>3, <1>5 DEF Heard, Fetching, DoneInv, DoneFrom
  <2>3. DoneCount(p)'
    BY <1>1, <2>1, <2>2, FS_EmptySet DEF DoneCount
  <2>4. \A r \in Proc : r # p => DoneCount(r)'
    BY <1>1, <1>6, <2>1 DEF DoneCount, Fetching, DoneInv
  <2> QED BY <2>3, <2>4
<1>9. RequestInv'
  <2>1. During(0)' <=> During(0)
    BY <1>6
  <2>2. ld'[0] = ld[0]
    BY <1>1
  <2>3. \A q \in Client : Before(q)' \/ During(q)' <=> Before(q) \/ During(q)
    BY <1>3, <1>4, <1>6
  <2>4. RequestInv
    BY DEF Fetching
  <2>5. \A q \in Client : Asked(q)'
    BY <1>1, <2>1, <2>2, <2>3, <2>4 DEF RequestInv, Asked
  <2> QED BY <1>1, <2>1, <2>2, <2>4, <2>5 DEF RequestInv
<1> QED BY <1>7, <1>8, <1>9 DEF Fetching, DoneInv

-----------------------------------------------------------------------------
(* The steps of LoadSubgrid.                                                 *)

\* Nothing but the network and the locals of LoadSubgrid changes.
LEMMA FetchFrame ==
  ASSUME NEW p \in Proc, Fetch(p), Control
  PROVE  /\ UNCHANGED <<bcast, pc, cur, call, grids, remote, store>>
         /\ During(p)
         /\ \A q \in Proc : (Before(q)' <=> Before(q)) /\ (During(q)' <=> During(q))
<1>1. ld[p].active /\ UNCHANGED <<rpcVars, remote, userVars>>
  BY DEF Fetch, Announce, CountDone, Serve, TakeReply, AnnounceDone, RecvDone,
         HandleFetchRequest, HandleFetchReply, Hears, Listening, fetchFrame
<1> QED BY <1>1 DEF Control, ActiveIsGet, rpcVars, userVars, Before, During

LEMMA FetchingAnnounce ==
  ASSUME Typed, Control, Fetching, NEW p \in Proc, Announce(p) PROVE Fetching'
<1> USE ProcFacts
<1>1. /\ UNCHANGED <<bcast, pc, cur, call, grids, remote, store>> /\ During(p) /\ ~Before(p)
      /\ \A q \in Proc : (Before(q)' <=> Before(q)) /\ (During(q)' <=> During(q))
  BY FetchFrame, DuringNotBefore DEF Fetch
<1>2. /\ \A a, b \in Proc : net'[a][b] = IF a = p /\ b # p THEN Append(net[a][b], Done(0))
                                                            ELSE net[a][b]
      /\ ld' = [ld EXCEPT ![p].done = @ + 1, ![p].doneSent = TRUE]
      /\ ~ld[p].doneSent /\ ld[p].remaining = 0
  BY AnnounceFacts DEF Announce, AnnounceDone, MayAnnounce
<1>3. /\ \A q \in Proc : q # p => ld'[q] = ld[q]
      /\ ld'[p].doneSent /\ ld'[p].done = ld[p].done + 1 /\ ld'[p].remaining = ld[p].remaining
  <2>1. ld[p] \in LoadFields /\ ld \in [Proc -> LoadFields]
    BY DEF Typed
  <2> QED BY <1>2, <2>1 DEF LoadFields
<1>4. ~Announced(p) /\ Announced(p)' /\ \A q \in Proc : q # p => (Announced(q)' <=> Announced(q))
  BY <1>1, <1>2, <1>3 DEF Announced
<1>5. /\ \A r \in Proc : Before(r) \/ During(r)
      /\ \A r \in Proc : ~Has(net[p][r], "DONE")
  BY <1>4 DEF Fetching, DoneInv, DoneFrom
<1>6. ASSUME NEW b \in Proc, b # p
      PROVE  /\ Has(net'[p][b], "DONE") /\ AtMostOne(net'[p][b], "DONE")
             /\ \A k : k # "DONE" => /\ Has(net'[p][b], k) <=> Has(net[p][b], k)
                                     /\ AtMostOne(net[p][b], k) => AtMostOne(net'[p][b], k)
             /\ Only(net'[p][b], Allowed(p, b))
  <2>1. /\ net[p][b] \in Seq(RpcMessage) /\ Done(0) \in RpcMessage /\ Done(0).kind = "DONE"
        /\ net'[p][b] = Append(net[p][b], Done(0)) /\ ~Has(net[p][b], "DONE")
    <3>1. net[p][b] \in Seq(RpcMessage)
      BY DEF Typed, Nets
    <3>2. Done(0) \in RpcMessage /\ Done(0).kind = "DONE"
      BY MessageFacts DEF Done
    <3>3. net'[p][b] = Append(net[p][b], Done(0)) /\ ~Has(net[p][b], "DONE")
      BY <1>2, <1>5, <1>6
    <3> QED BY ONLY <3>1, <3>2, <3>3
  <2>2. AtMostOne(net[p][b], "DONE")
    BY <2>1, NoneIsAtMostOne
  <2>3. Only(net[p][b], Allowed(p, b)) /\ "DONE" \in Allowed(p, b)
    BY <1>6 DEF Fetching, RequestInv, Channels, Allowed
  <2>4. Has(net'[p][b], "DONE") /\ AtMostOne(net'[p][b], "DONE")
    BY ONLY <2>1, <2>2, SentKinds
  <2>5. \A k : k # "DONE" => /\ Has(net'[p][b], k) <=> Has(net[p][b], k)
                             /\ AtMostOne(net[p][b], k) => AtMostOne(net'[p][b], k)
    BY ONLY <2>1, SentKinds
  <2>6. Only(net'[p][b], Allowed(p, b))
    BY ONLY <2>1, <2>3, SentKinds
  <2> QED BY <2>4, <2>5, <2>6
<1>7. \A a, b \in Proc : a # p \/ b = p => net'[a][b] = net[a][b]
  BY <1>2
<1>8. \A q, r \in Proc : DoneFrom(q, r)'
  <2>1. \A q, r \in Proc : DoneFrom(q, r)
    BY DEF Fetching, DoneInv
  <2>2. ASSUME NEW q \in Proc, NEW r \in Proc, q # p PROVE DoneFrom(q, r)'
    <3>1. net'[q][r] = net[q][r] /\ (Announced(q)' <=> Announced(q))
      BY <1>4, <1>7, <2>2
    <3> QED BY <1>1, <2>1, <3>1 DEF DoneFrom
  <2>3. ASSUME NEW r \in Proc PROVE DoneFrom(p, r)'
    <3>1. CASE r = p
      <4>1. net'[p][r] = net[p][r]
        BY <1>7, <3>1
      <4> QED BY <1>1, <1>4, <1>5, <2>1, <3>1, <4>1 DEF DoneFrom
    <3>2. CASE r # p
      BY <1>1, <1>4, <1>5, <1>6, <3>2 DEF DoneFrom
    <3> QED BY <3>1, <3>2
  <2> QED BY <2>2, <2>3
<1>9. \A r \in Proc : DoneCount(r)'
  <2>1. ASSUME NEW r \in Proc, r # p PROVE DoneCount(r)'
    <3>1. Heard(r)' = Heard(r)
      BY <1>4, <1>5, <1>6, <1>7, <2>1 DEF Heard
    <3> QED BY <1>1, <1>3, <2>1, <3>1 DEF DoneCount, Fetching, DoneInv
  <2>2. DoneCount(p)'
    <3>1. Heard(p)' = Heard(p) \cup {p} /\ p \notin Heard(p)
      BY <1>4, <1>5, <1>7 DEF Heard
    <3>2. ld[p].done = Cardinality(Heard(p))
      BY <1>1 DEF DoneCount, Fetching, DoneInv
    <3>3. IsFiniteSet(Heard(p))
      BY HeardCount
    <3> HIDE DEF Heard
    <3>4. Cardinality(Heard(p) \cup {p}) = Cardinality(Heard(p)) + 1
      BY <3>1, <3>3, FS_AddElement
    <3> QED BY <1>3, <3>1, <3>2, <3>4 DEF DoneCount
  <2> QED BY <2>1, <2>2
<1>10. RequestInv'
  <2>1. RequestInv
    BY DEF Fetching
  <2>2. Channels(net')
    BY <1>6, <1>7, <2>1 DEF Channels, RequestInv
  <2>3. ld'[0].remaining = ld[0].remaining /\ (ld'[0].doneSent => ld[0].doneSent \/ ld[0].remaining = 0)
    BY <1>2, <1>3
  <2>4. ASSUME NEW q \in Client PROVE Asked(q)'
    <3>1. /\ Has(net'[0][q], "FETCH_REQUEST") <=> Has(net[0][q], "FETCH_REQUEST")
          /\ AtMostOne(net[0][q], "FETCH_REQUEST") => AtMostOne(net'[0][q], "FETCH_REQUEST")
          /\ Has(net'[q][0], "FETCH_REPLY") <=> Has(net[q][0], "FETCH_REPLY")
          /\ AtMostOne(net[q][0], "FETCH_REPLY") => AtMostOne(net'[q][0], "FETCH_REPLY")
      BY <1>6, <1>7
    <3>2. Asked(q)
      BY <2>1 DEF RequestInv
    <3> QED BY <1>1, <2>3, <3>1, <3>2 DEF Asked
  <2>5. During(0)' => ld'[0].remaining \in {0, 1} /\ (ld'[0].doneSent => ld'[0].remaining = 0)
    BY <1>1, <2>1, <2>3 DEF RequestInv
  <2> QED BY ONLY <2>2, <2>4, <2>5 DEF RequestInv
<1> QED BY <1>8, <1>9, <1>10 DEF Fetching, DoneInv

LEMMA FetchingCountDone ==
  ASSUME Typed, Control, Fetching, NEW p \in Proc, NEW q \in Proc, CountDone(p, q)
  PROVE  Fetching'
<1> USE ProcFacts
<1>1. /\ UNCHANGED <<bcast, pc, cur, call, grids, remote, store>> /\ During(p) /\ ~Before(p)
      /\ \A r \in Proc : (Before(r)' <=> Before(r)) /\ (During(r)' <=> During(r))
  BY FetchFrame, DuringNotBefore DEF Fetch
<1>2. /\ Pending(net, q, p) /\ Oldest(net, q, p).kind = "DONE" /\ net' = Drop(net, q, p)
      /\ ld' = [ld EXCEPT ![p].done = @ + 1] /\ net \in Nets /\ Channels(net)
  BY DEF CountDone, RecvDone, Hears, Typed, Fetching, RequestInv
<1>3. /\ \A r \in Proc : r # p => ld'[r] = ld[r]
      /\ ld'[p].doneSent = ld[p].doneSent /\ ld'[p].done = ld[p].done + 1
      /\ ld'[p].remaining = ld[p].remaining
  <2>1. ld[p] \in LoadFields /\ ld \in [Proc -> LoadFields]
    BY DEF Typed
  <2> QED BY <1>2, <2>1 DEF LoadFields
<1>4. \A r \in Proc : Announced(r)' <=> Announced(r)
  BY <1>1, <1>3 DEF Announced
<1>5. /\ q # p /\ Channels(net')
      /\ \A a, b \in Proc : a # q \/ b # p => net'[a][b] = net[a][b]
  BY <1>2, ChannelFacts, DropFacts
<1>6. /\ Has(net[q][p], "DONE") /\ ~Has(net'[q][p], "DONE")
      /\ \A k : k # "DONE" => /\ Has(net'[q][p], k) <=> Has(net[q][p], k)
                              /\ AtMostOne(net[q][p], k) => AtMostOne(net'[q][p], k)
  <2>1. /\ net[q][p] \in Seq(RpcMessage) /\ net[q][p] # << >> /\ Head(net[q][p]).kind = "DONE"
        /\ net'[q][p] = Tail(net[q][p])
    BY <1>2, DropFacts DEF Oldest
  <2>2. AtMostOne(net[q][p], "DONE")
    BY DEF Fetching, DoneInv, DoneFrom
  <2> QED BY ONLY <2>1, <2>2, TakenKinds
<1>7. \A a, r \in Proc : DoneFrom(a, r)'
  <2>1. \A a, r \in Proc : DoneFrom(a, r)
    BY DEF Fetching, DoneInv
  <2>2. ASSUME NEW a \in Proc, NEW r \in Proc, a # q \/ r # p PROVE DoneFrom(a, r)'
    <3>1. net'[a][r] = net[a][r]
      BY <1>5, <2>2
    <3> QED BY <1>1, <1>4, <2>1, <3>1 DEF DoneFrom
  <2>3. DoneFrom(q, p)'
    BY <1>1, <1>6, NoneIsAtMostOne DEF DoneFrom
  <2> QED BY <2>2, <2>3
<1>8. \A r \in Proc : DoneCount(r)'
  <2>1. ASSUME NEW r \in Proc, r # p PROVE DoneCount(r)'
    <3>1. Heard(r)' = Heard(r)
      BY <1>4, <1>5, <2>1 DEF Heard
    <3> QED BY <1>1, <1>3, <2>1, <3>1 DEF DoneCount, Fetching, DoneInv
  <2>2. DoneCount(p)'
    <3>1. Announced(q)
      BY <1>6 DEF Fetching, DoneInv, DoneFrom
    <3>2. Heard(p)' = Heard(p) \cup {q} /\ q \notin Heard(p)
      BY <1>4, <1>5, <1>6, <3>1 DEF Heard
    <3>3. ld[p].done = Cardinality(Heard(p))
      BY <1>1 DEF DoneCount, Fetching, DoneInv
    <3>4. IsFiniteSet(Heard(p))
      BY HeardCount
    <3> HIDE DEF Heard
    <3>5. Cardinality(Heard(p) \cup {q}) = Cardinality(Heard(p)) + 1
      BY <3>2, <3>4, FS_AddElement
    <3> QED BY <1>3, <3>2, <3>3, <3>5 DEF DoneCount
  <2> QED BY <2>1, <2>2
<1>9. RequestInv'
  <2>1. RequestInv
    BY DEF Fetching
  <2>2. ld'[0].remaining = ld[0].remaining /\ ld'[0].doneSent = ld[0].doneSent
    BY <1>3
  <2>3. ASSUME NEW r \in Client PROVE Asked(r)'
    <3>1. /\ Has(net'[0][r], "FETCH_REQUEST") <=> Has(net[0][r], "FETCH_REQUEST")
          /\ AtMostOne(net[0][r], "FETCH_REQUEST") => AtMostOne(net'[0][r], "FETCH_REQUEST")
          /\ Has(net'[r][0], "FETCH_REPLY") <=> Has(net[r][0], "FETCH_REPLY")
          /\ AtMostOne(net[r][0], "FETCH_REPLY") => AtMostOne(net'[r][0], "FETCH_REPLY")
      BY <1>5, <1>6
    <3>2. Asked(r)
      BY <2>1 DEF RequestInv
    <3> QED BY <1>1, <2>2, <3>1, <3>2 DEF Asked
  <2>4. During(0)' => ld'[0].remaining \in {0, 1} /\ (ld'[0].doneSent => ld'[0].remaining = 0)
    BY <1>1, <2>1, <2>2 DEF RequestInv
  <2> QED BY ONLY <1>5, <2>3, <2>4 DEF RequestInv
<1> QED BY <1>7, <1>8, <1>9 DEF Fetching, DoneInv

\* What serving a request does to the channels.
LEMMA ServeFacts ==
  ASSUME Typed, Control, Fetching, NEW p \in Proc, NEW q \in Proc, Serve(p, q)
  PROVE  /\ q = 0 /\ p \in Client /\ Has(net[0][p], "FETCH_REQUEST")
         /\ Channels(net')
         /\ net[0][p] \in Seq(RpcMessage) /\ net[0][p] # << >> /\ net'[0][p] = Tail(net[0][p])
         /\ Head(net[0][p]).kind = "FETCH_REQUEST"
         /\ \E t : /\ SameButReplies(net[p][0], t)
                   /\ net'[p][0] = Append(t, Reply(ContentAt(p, cur[p], Head(net[0][p]).body)))
         /\ \A a, b \in Proc : (a # 0 \/ b # p) /\ (a # p \/ b # 0) => SameButReplies(net[a][b], net'[a][b])
         /\ ContentAt(p, cur[p], Head(net[0][p]).body) \in Data \cup {Garbage}
<1> USE ProcFacts
<1> DEFINE v == ContentAt(p, cur[p], Oldest(net, q, p).body)
           n == Drop(net, q, p)
<1>1. /\ Pending(net, q, p) /\ Oldest(net, q, p).kind = "FETCH_REQUEST"
      /\ net' = Put(Reallocate(n, p), p, q, Reply(v)) /\ net \in Nets /\ Channels(net)
  BY DEF Serve, HandleFetchRequest, Hears, Typed, Fetching, RequestInv
<1>2. v \in Data \cup {Garbage}
  <2>1. During(p)
    BY FetchFrame DEF Fetch
  <2>2. cur[p] \in DOMAIN grids[p]
    BY <2>1 DEF During, Typed
  <2> QED BY <2>2, GridFacts
<1> HIDE DEF v
<1>3. "FETCH_REQUEST" \in Allowed(q, p) /\ q # p /\ Channels(n)
  BY <1>1, ChannelFacts
<1>4. q = 0 /\ p \in Client
  BY <1>3 DEF Allowed
<1>5. /\ net[0][p] \in Seq(RpcMessage) /\ net[0][p] # << >> /\ Head(net[0][p]).kind = "FETCH_REQUEST"
      /\ n \in Nets /\ n[0][p] = Tail(net[0][p])
      /\ \A a, b \in Proc : a # 0 \/ b # p => n[a][b] = net[a][b]
  BY <1>1, <1>4, DropFacts DEF Oldest
<1> HIDE DEF n
<1> DEFINE l == Reallocate(n, p)
<1>6. /\ l \in Nets /\ Channels(l)
      /\ \A a, b \in Proc : /\ a # p => l[a][b] = n[a][b]
                            /\ SameButReplies(n[a][b], l[a][b])
  BY <1>3, <1>5, ReallocateFacts, ChannelFacts
<1>7. Reply(v) \in RpcMessage /\ Reply(v).kind \in Allowed(p, 0)
  BY <1>2, <1>4, MessageFacts DEF Reply, Allowed
<1>8. net' = Put(l, p, 0, Reply(v))
  BY <1>1, <1>4
<1> HIDE DEF l
<1>9. /\ net'[p][0] = Append(l[p][0], Reply(v)) /\ Channels(net')
      /\ \A a, b \in Proc : a # p \/ b # 0 => net'[a][b] = l[a][b]
  <2> DEFINE m == Reply(v)
  <2>0. l \in Nets /\ p \in Proc /\ 0 \in Proc /\ m \in RpcMessage
    BY <1>4, <1>6, <1>7
  <2> HIDE DEF m
  <2>1. Put(l, p, 0, m)[p][0] = Append(l[p][0], m)
    BY ONLY <2>0, PutFacts
  <2>2. \A a, b \in Proc : a # p \/ b # 0 => Put(l, p, 0, m)[a][b] = l[a][b]
    BY ONLY <2>0, PutFacts
  <2> USE DEF m
  <2>3. Channels(Put(l, p, 0, Reply(v)))
    BY ONLY <1>4, <1>6, <1>7, ProcFacts, ChannelFacts
  <2> QED BY <1>8, <2>1, <2>2, <2>3
<1>10. /\ net'[0][p] = Tail(net[0][p])
       /\ \A a, b \in Proc : (a # 0 \/ b # p) /\ (a # p \/ b # 0) => SameButReplies(net[a][b], net'[a][b])
       /\ SameButReplies(net[p][0], l[p][0])
  BY <1>4, <1>5, <1>6, <1>9
<1>11. Has(net[0][p], "FETCH_REQUEST")
  BY <1>5, TakenKinds
<1>12. Oldest(net, q, p) = Head(net[0][p])
  BY <1>4 DEF Oldest
<1>13. v = ContentAt(p, cur[p], Head(net[0][p]).body)
  BY <1>12 DEF v
<1>14. \E t : SameButReplies(net[p][0], t) /\ net'[p][0] = Append(t, Reply(v))
  BY <1>9, <1>10
<1> QED BY ONLY <1>2, <1>4, <1>5, <1>9, <1>10, <1>11, <1>13, <1>14

\* A step that leaves the DONEs alone leaves what is known of them alone.
LEMMA SameDone ==
  ASSUME DoneInv,
         \A p \in Proc : (Before(p)' <=> Before(p)) /\ (During(p)' <=> During(p)),
         \A p \in Proc : ld'[p].done = ld[p].done /\ ld'[p].doneSent = ld[p].doneSent,
         \A a, b \in Proc : /\ Has(net'[a][b], "DONE") <=> Has(net[a][b], "DONE")
                            /\ AtMostOne(net[a][b], "DONE") => AtMostOne(net'[a][b], "DONE")
  PROVE  DoneInv'
<1>1. \A p \in Proc : Announced(p)' <=> Announced(p)
  BY DEF Announced
<1>2. \A p, q \in Proc : DoneFrom(q, p)'
  BY <1>1 DEF DoneInv, DoneFrom
<1>3. \A p \in Proc : Heard(p)' = Heard(p)
  BY <1>1 DEF Heard
<1>4. \A p \in Proc : DoneCount(p)'
  BY <1>3 DEF DoneInv, DoneCount
<1> QED BY <1>2, <1>4 DEF DoneInv

LEMMA FetchingServe ==
  ASSUME Typed, Control, Fetching, NEW p \in Proc, NEW q \in Proc, Serve(p, q)
  PROVE  Fetching'
<1> USE ProcFacts
<1>1. /\ UNCHANGED <<bcast, pc, cur, call, grids, remote, store>>
      /\ \A r \in Proc : (Before(r)' <=> Before(r)) /\ (During(r)' <=> During(r))
      /\ ld' = ld
  BY FetchFrame DEF Fetch, Serve, HandleFetchRequest
<1> DEFINE v == ContentAt(p, cur[p], Head(net[0][p]).body)
<1>2. /\ p \in Client /\ Has(net[0][p], "FETCH_REQUEST") /\ Channels(net')
      /\ net[0][p] \in Seq(RpcMessage) /\ net[0][p] # << >> /\ net'[0][p] = Tail(net[0][p])
      /\ Head(net[0][p]).kind = "FETCH_REQUEST"
      /\ \A a, b \in Proc : (a # 0 \/ b # p) /\ (a # p \/ b # 0) => SameButReplies(net[a][b], net'[a][b])
      /\ Reply(v) \in RpcMessage /\ Reply(v).kind = "FETCH_REPLY"
  BY ServeFacts, MessageFacts DEF Reply
<1>3. PICK t : SameButReplies(net[p][0], t) /\ net'[p][0] = Append(t, Reply(v))
  BY ServeFacts
<1> HIDE DEF v
<1>4. Asked(p) /\ \A a, b \in Proc : net[a][b] \in Seq(RpcMessage)
  BY <1>2 DEF Fetching, RequestInv, Typed, Nets
<1>5. /\ AtMostOne(net'[0][p], "FETCH_REQUEST") /\ ~Has(net'[0][p], "FETCH_REQUEST")
      /\ \A k : k # "FETCH_REQUEST" => /\ Has(net'[0][p], k) <=> Has(net[0][p], k)
                                       /\ AtMostOne(net[0][p], k) => AtMostOne(net'[0][p], k)
  <2>1. AtMostOne(net[0][p], "FETCH_REQUEST")
    BY <1>4 DEF Asked
  <2> QED BY ONLY <2>1, <1>2, TakenKinds, NoneIsAtMostOne
<1>6. /\ AtMostOne(net'[p][0], "FETCH_REPLY")
      /\ \A k : k # "FETCH_REPLY" => /\ Has(net'[p][0], k) <=> Has(net[p][0], k)
                                     /\ AtMostOne(net[p][0], k) => AtMostOne(net'[p][0], k)
  <2>1. ~Has(net[p][0], "FETCH_REPLY") /\ net[p][0] \in Seq(RpcMessage)
    BY <1>2, <1>4 DEF Asked
  <2>2. /\ t \in Seq(RpcMessage)
        /\ \A k : (Has(t, k) <=> Has(net[p][0], k)) /\ (AtMostOne(t, k) <=> AtMostOne(net[p][0], k))
    BY ONLY <1>3, <2>1, SameKinds DEF SameButReplies
  <2> QED BY ONLY <1>2, <1>3, <2>1, <2>2, SentKinds, NoneIsAtMostOne
<1>7. ASSUME NEW a \in Proc, NEW b \in Proc, a # 0 \/ b # p, a # p \/ b # 0
      PROVE  \A k : /\ Has(net'[a][b], k) <=> Has(net[a][b], k)
                    /\ AtMostOne(net[a][b], k) => AtMostOne(net'[a][b], k)
  BY ONLY <1>2, <1>4, <1>7, SameKinds
<1>8. DoneInv'
  <2>1. ASSUME NEW a \in Proc, NEW b \in Proc
        PROVE  /\ Has(net'[a][b], "DONE") <=> Has(net[a][b], "DONE")
               /\ AtMostOne(net[a][b], "DONE") => AtMostOne(net'[a][b], "DONE")
    BY <1>5, <1>6, <1>7
  <2> QED BY <1>1, <2>1, SameDone DEF Fetching
<1>9. ASSUME NEW r \in Client PROVE Asked(r)'
  <2>1. Asked(r)
    BY DEF Fetching, RequestInv
  <2>2. CASE r = p
    BY <1>1, <1>2, <1>4, <1>5, <1>6, <2>2 DEF Asked
  <2>3. CASE r # p
    <3>1. \A k : /\ Has(net'[0][r], k) <=> Has(net[0][r], k)
                 /\ AtMostOne(net[0][r], k) => AtMostOne(net'[0][r], k)
                 /\ Has(net'[r][0], k) <=> Has(net[r][0], k)
                 /\ AtMostOne(net[r][0], k) => AtMostOne(net'[r][0], k)
      BY <1>7, <2>3
    <3> QED BY <1>1, <2>1, <3>1 DEF Asked
  <2> QED BY <2>2, <2>3
<1>10. RequestInv'
  BY <1>1, <1>2, <1>9 DEF Fetching, RequestInv
<1> QED BY <1>8, <1>10 DEF Fetching

\* What taking a reply does to the channels and to the locals of the master.
LEMMA ReplyFacts ==
  ASSUME Typed, Control, Fetching, NEW p \in Proc, NEW q \in Proc, TakeReply(p, q)
  PROVE  /\ p = 0 /\ q \in Client /\ Has(net[q][0], "FETCH_REPLY")
         /\ Channels(net')
         /\ net[q][0] \in Seq(RpcMessage) /\ net[q][0] # << >> /\ net'[q][0] = Tail(net[q][0])
         /\ Head(net[q][0]).kind = "FETCH_REPLY"
         /\ \A a, b \in Proc : /\ a # q \/ b # 0 => SameButReplies(net[a][b], net'[a][b])
                               /\ (a # q \/ b # 0) /\ a # 0 => net'[a][b] = net[a][b]
         /\ \A r \in Proc : /\ ld'[r].done = ld[r].done /\ ld'[r].doneSent = ld[r].doneSent
                            /\ r # 0 => ld'[r] = ld[r]
         /\ ld'[0].remaining = ld[0].remaining - 1
         /\ ld'[0].sg[q] = Head(net[q][0]).body
<1> USE ProcFacts
<1> DEFINE n == Reallocate(net, p)
<1>1. /\ Pending(net, q, p) /\ Oldest(net, q, p).kind = "FETCH_REPLY"
      /\ net' = Drop(n, q, p) /\ net \in Nets /\ Channels(net)
      /\ ld' = [ld EXCEPT ![p].sg[q] = Oldest(n, q, p).body, ![p].remaining = @ - 1]
      /\ ld \in [Proc -> LoadFields]
  BY DEF TakeReply, HandleFetchReply, Hears, Typed, Fetching, RequestInv
<1>2. "FETCH_REPLY" \in Allowed(q, p) /\ q # p
  BY <1>1, ChannelFacts
<1>3. p = 0 /\ q \in Client
  BY <1>2 DEF Allowed
<1>4. /\ net[q][0] \in Seq(RpcMessage) /\ net[q][0] # << >> /\ Head(net[q][0]).kind = "FETCH_REPLY"
  BY <1>1, <1>3, DropFacts DEF Oldest
<1>5. /\ n \in Nets /\ Channels(n)
      /\ \A a, b \in Proc : /\ a # 0 => n[a][b] = net[a][b]
                            /\ SameButReplies(net[a][b], n[a][b])
  <2>1. p = 0 /\ p \in Proc /\ net \in Nets /\ Channels(net)
    BY <1>1, <1>3
  <2>2. n \in Nets
    BY <2>1, ReallocateFacts
  <2>5. \A a, b \in Proc : a # p => n[a][b] = net[a][b]
    BY ONLY <2>1, ReallocateFacts
  <2>3. \A a, b \in Proc : SameButReplies(net[a][b], n[a][b])
    BY ONLY <2>1, ReallocateFacts
  <2>4. Channels(n)
    BY ONLY <2>1, ChannelFacts
  <2> QED BY <2>1, <2>2, <2>3, <2>4, <2>5
<1> HIDE DEF n
<1>6. Pending(n, q, 0) /\ n[q][0] = net[q][0] /\ Oldest(n, q, 0) = Head(net[q][0])
  BY <1>3, <1>4, <1>5 DEF Pending, Oldest
<1>7. /\ Channels(net') /\ net'[q][0] = Tail(net[q][0])
      /\ \A a, b \in Proc : a # q \/ b # 0 => net'[a][b] = n[a][b]
  <2>1. net' = Drop(n, q, 0)
    BY <1>1, <1>3
  <2>2. q \in Proc /\ 0 \in Proc /\ n \in Nets /\ Channels(n) /\ Pending(n, q, 0)
    BY <1>3, <1>5, <1>6, ProcFacts
  <2>3. Channels(Drop(n, q, 0))
    BY ONLY <2>2, ChannelFacts
  <2>4. /\ Drop(n, q, 0)[q][0] = Tail(n[q][0])
        /\ \A a, b \in Proc : a # q \/ b # 0 => Drop(n, q, 0)[a][b] = n[a][b]
    BY ONLY <2>2, DropFacts
  <2> QED BY ONLY <2>1, <2>3, <2>4, <1>6
<1>8. \A a, b \in Proc : /\ a # q \/ b # 0 => SameButReplies(net[a][b], net'[a][b])
                         /\ (a # q \/ b # 0) /\ a # 0 => net'[a][b] = net[a][b]
  BY <1>5, <1>7
<1>9. /\ \A r \in Proc : /\ ld'[r].done = ld[r].done /\ ld'[r].doneSent = ld[r].doneSent
                         /\ r # 0 => ld'[r] = ld[r]
      /\ ld'[0].remaining = ld[0].remaining - 1
      /\ ld'[0].sg[q] = Head(net[q][0]).body
  <2>1. ld' = [ld EXCEPT ![0].sg[q] = Head(net[q][0]).body, ![0].remaining = @ - 1]
    BY <1>1, <1>3, <1>6
  <2>2. ld[0] \in LoadFields
    BY <1>1
  <2>3. ld[0].sg \in [Proc -> Data \cup {Garbage, Nothing}]
    BY <2>2 DEF LoadFields
  <2>4. /\ \A r \in Proc : r # 0 => ld'[r] = ld[r]
        /\ ld'[0].remaining = ld[0].remaining - 1 /\ ld'[0].done = ld[0].done
        /\ ld'[0].doneSent = ld[0].doneSent
        /\ ld'[0].sg[q] = Head(net[q][0]).body
    BY <1>1, <1>3, <2>1, <2>2, <2>3 DEF LoadFields
  <2> QED BY <2>4
<1>10. Has(net[q][0], "FETCH_REPLY")
  BY <1>4, TakenKinds
<1> QED BY <1>3, <1>4, <1>7, <1>8, <1>9, <1>10

LEMMA FetchingTakeReply ==
  ASSUME Typed, Control, Fetching, NEW p \in Proc, NEW q \in Proc, TakeReply(p, q)
  PROVE  Fetching'
<1> USE ProcFacts
<1>1. /\ UNCHANGED <<bcast, pc, cur, call, grids, remote, store>>
      /\ \A r \in Proc : (Before(r)' <=> Before(r)) /\ (During(r)' <=> During(r))
  BY FetchFrame DEF Fetch
<1>2. /\ q \in Client /\ Has(net[q][0], "FETCH_REPLY") /\ Channels(net')
      /\ net[q][0] \in Seq(RpcMessage) /\ net[q][0] # << >> /\ net'[q][0] = Tail(net[q][0])
      /\ Head(net[q][0]).kind = "FETCH_REPLY"
      /\ \A a, b \in Proc : a # q \/ b # 0 => SameButReplies(net[a][b], net'[a][b])
      /\ \A r \in Proc : ld'[r].done = ld[r].done /\ ld'[r].doneSent = ld[r].doneSent
      /\ ld'[0].remaining = ld[0].remaining - 1
  BY ReplyFacts
<1>3. /\ \A r \in Client : Asked(r)
      /\ \A a, b \in Proc : net[a][b] \in Seq(RpcMessage)
  <2>1. \A r \in Client : Asked(r)
    BY DEF Fetching, RequestInv
  <2>2. net \in [Proc -> [Proc -> Seq(RpcMessage)]]
    BY DEF Typed, Nets
  <2> QED BY ONLY <2>1, <2>2
<1>4. During(0) /\ q = Owner[call.point] /\ ld[0].remaining = 1
  BY <1>2, <1>3 DEF Asked
<1>5. /\ AtMostOne(net'[q][0], "FETCH_REPLY") /\ ~Has(net'[q][0], "FETCH_REPLY")
      /\ \A k : k # "FETCH_REPLY" => /\ Has(net'[q][0], k) <=> Has(net[q][0], k)
                                     /\ AtMostOne(net[q][0], k) => AtMostOne(net'[q][0], k)
  <2>1. AtMostOne(net[q][0], "FETCH_REPLY")
    BY <1>2, <1>3 DEF Asked
  <2> QED BY ONLY <2>1, <1>2, TakenKinds, NoneIsAtMostOne
<1>6. ASSUME NEW a \in Proc, NEW b \in Proc, a # q \/ b # 0
      PROVE  \A k : /\ Has(net'[a][b], k) <=> Has(net[a][b], k)
                    /\ AtMostOne(net[a][b], k) => AtMostOne(net'[a][b], k)
  BY ONLY <1>2, <1>3, <1>6, SameKinds
<1>7. DoneInv'
  <2>1. ASSUME NEW a \in Proc, NEW b \in Proc
        PROVE  /\ Has(net'[a][b], "DONE") <=> Has(net[a][b], "DONE")
               /\ AtMostOne(net[a][b], "DONE") => AtMostOne(net'[a][b], "DONE")
    BY <1>5, <1>6
  <2> QED BY <1>1, <1>2, <2>1, SameDone DEF Fetching
<1>8. ASSUME NEW r \in Client
      PROVE  /\ ~Has(net'[0][r], "FETCH_REQUEST") /\ ~Has(net'[r][0], "FETCH_REPLY")
             /\ AtMostOne(net'[0][r], "FETCH_REQUEST") /\ AtMostOne(net'[r][0], "FETCH_REPLY")
  <2>1. Has(net'[0][r], "FETCH_REQUEST") <=> Has(net[0][r], "FETCH_REQUEST")
    BY <1>2, <1>6
  <2>2. ~Has(net[0][r], "FETCH_REQUEST")
    <3>1. CASE r = q
      BY <1>2, <1>3, <3>1 DEF Asked
    <3>2. CASE r # q
      BY <1>3, <1>4, <3>2 DEF Asked
    <3> QED BY <3>1, <3>2
  <2>3. ~Has(net'[r][0], "FETCH_REPLY")
    <3>1. CASE r = q
      BY <1>5, <3>1
    <3>2. CASE r # q
      <4>1. ~Has(net[r][0], "FETCH_REPLY")
        BY <1>3, <1>4, <3>2 DEF Asked
      <4> QED BY <1>6, <3>2, <4>1
    <3> QED BY <3>1, <3>2
  <2> QED BY <2>1, <2>2, <2>3, NoneIsAtMostOne
<1>9. \A r \in Client : Asked(r)'
  BY <1>8 DEF Asked
<1>10. ld'[0].remaining = 0
  BY <1>2, <1>4
<1> QED BY <1>2, <1>7, <1>9, <1>10 DEF Fetching, RequestInv

-----------------------------------------------------------------------------
(* Leaving LoadSubgrid.                                                      *)

\* A rank that has counted NProcs DONEs: nobody has one left to send, and no
\* request or reply is under way if that rank is the master.
LEMMA AllAnnounced ==
  ASSUME Typed, Control, Fetching, NEW p \in Proc, During(p), ld[p].done = NProcs
  PROVE  /\ \A q \in Proc : Announced(q) /\ ~Has(net[q][p], "DONE")
         /\ p = 0 => /\ ld[0].remaining = 0
                     /\ \A r \in Client : /\ ~Has(net[0][r], "FETCH_REQUEST")
                                          /\ ~Has(net[r][0], "FETCH_REPLY")
<1> USE ProcFacts
<1>1. Cardinality(Heard(p)) = NProcs
  BY DEF Fetching, DoneInv, DoneCount
<1>2. Heard(p) = Proc
  BY <1>1, HeardCount
<1>3. \A q \in Proc : Announced(q) /\ ~Has(net[q][p], "DONE")
  BY <1>2 DEF Heard
<1>4. ASSUME p = 0 PROVE ld[0].remaining = 0
  BY <1>3, <1>4 DEF Announced, Fetching, RequestInv
<1> QED BY <1>3, <1>4 DEF Fetching, RequestInv, Asked

LEMMA FetchingReturns ==
  ASSUME Typed, Control, Fetching, NEW p \in Proc,
         (p = 0 /\ MasterGetReturn) \/ (p \in Client /\ ClientGetReturn(p))
  PROVE  Fetching'
<1> USE ProcFacts
<1>1. /\ net' = net /\ bcast' = bcast /\ ld[p].active /\ ld[p].done = NProcs
      /\ ld' = [ld EXCEPT ![p].active = FALSE] /\ (p # 0 => call' = call)
      /\ \E m : m # "GridGet" /\ pc' = [pc EXCEPT ![p] = m]
      /\ pc \in [Proc -> MasterMethods \cup ClientMethods]
  BY DEF MasterGetReturn, ClientGetReturn, EndLoad, clientFrame, Typed
<1>2. During(p) /\ ~Before(p)
  BY <1>1, DuringNotBefore DEF Control, ActiveIsGet
<1>3. /\ \A q \in Proc : Announced(q) /\ ~Has(net[q][p], "DONE")
      /\ p = 0 => /\ ld[0].remaining = 0
                  /\ \A r \in Client : /\ ~Has(net[0][r], "FETCH_REQUEST")
                                       /\ ~Has(net[r][0], "FETCH_REPLY")
  BY <1>1, <1>2, AllAnnounced
<1>4. /\ \A q \in Proc : Before(q)' <=> Before(q)
      /\ ~During(p)' /\ \A q \in Proc : q # p => (During(q)' <=> During(q))
  BY <1>1 DEF Before, During
<1>5. \A q \in Proc : /\ ld'[q].done = ld[q].done /\ ld'[q].doneSent = ld[q].doneSent
                      /\ ld'[q].remaining = ld[q].remaining
  <2>1. ld[p] \in LoadFields /\ ld \in [Proc -> LoadFields]
    BY DEF Typed
  <2> QED BY <1>1, <2>1 DEF LoadFields
<1>6. \A q \in Proc : Announced(q)' /\ Announced(q)
  <2>1. Announced(p)'
    BY <1>2, <1>4 DEF Announced
  <2>2. \A q \in Proc : q # p => (Announced(q)' <=> Announced(q))
    BY <1>4, <1>5 DEF Announced
  <2> QED BY <1>3, <2>1, <2>2
<1>7. \A q, r \in Proc : DoneFrom(q, r)'
  <2>1. \A q, r \in Proc : DoneFrom(q, r)
    BY DEF Fetching, DoneInv
  <2>2. ASSUME NEW q \in Proc, NEW r \in Proc, r # p PROVE DoneFrom(q, r)'
    BY <1>1, <1>4, <1>6, <2>1, <2>2 DEF DoneFrom
  <2>3. ASSUME NEW q \in Proc PROVE DoneFrom(q, p)'
    BY <1>1, <1>2, <1>3, <1>4, <1>6, <2>1 DEF DoneFrom
  <2> QED BY <2>2, <2>3
<1>8. \A r \in Proc : DoneCount(r)'
  <2>1. \A r \in Proc : Heard(r)' = Heard(r)
    BY <1>1, <1>6 DEF Heard
  <2> QED BY <1>4, <1>5, <2>1 DEF DoneCount, Fetching, DoneInv
<1>9. RequestInv'
  <2>1. RequestInv
    BY DEF Fetching
  <2>2. \A r \in Client : Asked(r)'
    <3>1. CASE p = 0
      BY <1>1, <1>3, <2>1, <3>1 DEF Asked, RequestInv
    <3>2. CASE p \in Client
      <4> SUFFICES ASSUME NEW r \in Client PROVE Asked(r)'
        OBVIOUS
      <4>1. Asked(r) /\ call' = call /\ (During(0)' <=> During(0)) /\ ld'[0].remaining = ld[0].remaining
        BY <1>1, <1>4, <1>5, <2>1, <3>2 DEF RequestInv
      <4>2. ~Has(net[0][p], "FETCH_REQUEST")
        <5>1. ASSUME Has(net[0][p], "FETCH_REQUEST") PROVE FALSE
          <6>1. Asked(p) /\ RequestInv
            BY <2>1, <3>2 DEF RequestInv
          <6>2. During(0) /\ ld[0].remaining = 1 /\ ~ld[0].doneSent
            BY <5>1, <6>1 DEF Asked, RequestInv
          <6>3. ~Announced(0)
            BY <6>2 DEF Announced
          <6> QED BY <1>3, <6>3
        <5> QED BY <5>1
      <4>3. CASE r = p
        BY <1>1, <4>1, <4>2, <4>3 DEF Asked
      <4>4. CASE r # p
        BY <1>1, <1>4, <4>1, <4>4 DEF Asked
      <4> QED BY <4>3, <4>4
    <3> QED BY <3>1, <3>2
  <2>3. During(0)' => ld'[0].remaining \in {0, 1} /\ (ld'[0].doneSent => ld'[0].remaining = 0)
    BY <1>4, <1>5, <2>1 DEF RequestInv
  <2>4. Channels(net')
    BY <1>1, <2>1 DEF RequestInv
  <2> QED BY ONLY <2>2, <2>3, <2>4 DEF RequestInv
<1> QED BY <1>7, <1>8, <1>9 DEF Fetching, DoneInv

-----------------------------------------------------------------------------
LEMMA FetchingStep ==
  ASSUME Typed, PartsFit, Control, Control', AwaitClients, Fetching, [Next]_vars
  PROVE  Fetching'
<1> USE ProcFacts
<1>1. CASE UNCHANGED vars
  <2>1. UNCHANGED <<net, ld, bcast, pc, call>>
    BY <1>1 DEF vars, rpcVars
  <2>2. \A p \in Proc : (Before(p)' <=> Before(p)) /\ (During(p)' <=> During(p))
    BY <2>1 DEF Before, During
  <2>3. \A a, b \in Proc : SameFetch(net[a][b], net'[a][b])
    BY <2>1 DEF SameFetch
  <2>4. Channels(net')
    BY <2>1 DEF Fetching, RequestInv
  <2> QED BY <2>1, <2>2, <2>3, <2>4, FetchingSame
<1>2. ASSUME NEW p \in Proc, Fetch(p) PROVE Fetching'
  <2>1. CASE Announce(p)
    BY <2>1, FetchingAnnounce
  <2>2. ASSUME NEW q \in Proc, CountDone(p, q) PROVE Fetching'
    BY <2>2, FetchingCountDone
  <2>3. ASSUME NEW q \in Proc, Serve(p, q) PROVE Fetching'
    BY <2>3, FetchingServe
  <2>4. ASSUME NEW q \in Proc, TakeReply(p, q) PROVE Fetching'
    BY <2>4, FetchingTakeReply
  <2> QED BY <1>2, <2>1, <2>2, <2>3, <2>4 DEF Fetch
<1>3. CASE UserStep
  <2>1. ASSUME NEW id \in DOMAIN store, NEW x \in DOMAIN store[id], MasterGet(id, x)
        PROVE  Fetching'
    BY <2>1, FetchingMasterGet
  <2>2. CASE ~\E id \in DOMAIN store : \E x \in DOMAIN store[id] : MasterGet(id, x)
    BY <1>3, <2>2, FetchingUser
  <2> QED BY <2>1, <2>2
<1>4. CASE MasterStep
  <2>1. CASE \/ \E i \in Client : MasterCopyinNext(i) \/ MasterCopyoutNext(i)
             \/ MasterCopyinReturn \/ MasterCopyoutReturn \/ MasterReduceReturn
    BY <2>1, FetchingMaster
  <2>2. CASE MasterGetReturn
    BY <2>2, FetchingReturns
  <2>3. CASE Fetch(0)
    BY <1>2, <2>3
  <2> QED BY <1>4, <2>1, <2>2, <2>3 DEF MasterStep
<1>5. ASSUME NEW p \in Client, ClientStep(p) PROVE Fetching'
  <2>1. CASE \/ ClientNew(p) \/ ClientDelete(p) \/ ClientCopyin(p) \/ ClientCopyinData(p)
             \/ ClientCopyout(p) \/ ClientSet(p) \/ ClientSetData(p) \/ ClientRun(p)
             \/ ClientReduce(p) \/ ClientFinalize(p)
    BY <2>1, FetchingClient
  <2>2. CASE ClientGet(p)
    BY <2>2, FetchingClientGet
  <2>3. CASE ClientGetReturn(p)
    BY <2>3, FetchingReturns
  <2>4. CASE Fetch(p)
    BY <1>2, <2>4
  <2> QED BY <1>5, <2>1, <2>2, <2>3, <2>4 DEF ClientStep
<1> QED BY <1>1, <1>3, <1>4, <1>5 DEF Next, Stopped
=============================================================================
