------------------------- MODULE MasterClient_proofs -------------------------
(***************************************************************************)
(* Theorems about MasterClient, for any number of ranks, grids, calls and    *)
(* points, of programs that let the clients settle after PSGridGet           *)
(* (AwaitClients) and leave a grid's own part alone after a remote read      *)
(* (AvoidRemote).                                                           *)
(***************************************************************************)
EXTENDS MasterControl_proofs

-----------------------------------------------------------------------------
(* A client that carries out the requests it has not taken yet ends with its *)
(* part of what the program has written.                                    *)

\* The parts that p should hold if st is what the program has written.
Mine(st, p) == [id \in DOMAIN st |-> Restricted(st[id], p)]

Zeros(s)              == [x \in s |-> Zero]
Runs(f)               == [x \in DOMAIN f |-> Kernel[f[x]]]
SetPoint(t, id, x, v) == [t EXCEPT ![id] = [t[id] EXCEPT ![x] = v]]

LEMMA RestrictedFacts ==
  ASSUME NEW p
  PROVE  /\ \A f : DOMAIN Restricted(f, p) = {x \in DOMAIN f : Owner[x] = p}
         /\ \A f : \A x \in DOMAIN f : Owner[x] = p => Restricted(f, p)[x] = f[x]
         /\ \A s : Restricted(Zeros(s), p) = Zeros(Part(s, p))
         /\ \A f : Restricted(Runs(f), p) = Runs(Restricted(f, p))
         /\ \A f, x, v : Owner[x] = p =>
              Restricted([f EXCEPT ![x] = v], p) = [Restricted(f, p) EXCEPT ![x] = v]
         /\ \A f, x, v : Owner[x] # p => Restricted([f EXCEPT ![x] = v], p) = Restricted(f, p)
<1>1. \A f : DOMAIN Restricted(f, p) = {x \in DOMAIN f : Owner[x] = p}
  BY DEF Restricted, Part
<1>2. \A f : \A x \in DOMAIN f : Owner[x] = p => Restricted(f, p)[x] = f[x]
  BY DEF Restricted, Part
<1>3. \A s : Restricted(Zeros(s), p) = Zeros(Part(s, p))
  BY DEF Restricted, Part, Zeros
<1>4. \A f : Restricted(Runs(f), p) = Runs(Restricted(f, p))
  BY DEF Restricted, Part, Runs
<1>5. \A f, x, v : Owner[x] = p =>
        Restricted([f EXCEPT ![x] = v], p) = [Restricted(f, p) EXCEPT ![x] = v]
  BY DEF Restricted, Part
<1>6. \A f, x, v : Owner[x] # p => Restricted([f EXCEPT ![x] = v], p) = Restricted(f, p)
  BY DEF Restricted, Part
<1> QED BY <1>1, <1>2, <1>3, <1>4, <1>5, <1>6

\* What the program does to the whole grids, a rank does to its parts.
LEMMA MineFacts ==
  ASSUME NEW p, NEW st
  PROVE  /\ DOMAIN Mine(st, p) = DOMAIN st
         /\ \A id \in DOMAIN st : Mine(st, p)[id] = Restricted(st[id], p)
         /\ \A id, s : Mine(With(st, id, Zeros(s)), p) = With(Mine(st, p), id, Zeros(Part(s, p)))
         /\ \A id : Mine(Without(st, id), p) = Without(Mine(st, p), id)
         /\ \A id \in DOMAIN st : \A f :
              Mine([st EXCEPT ![id] = f], p) = [Mine(st, p) EXCEPT ![id] = Restricted(f, p)]
         /\ \A id \in DOMAIN st :
              Mine([st EXCEPT ![id] = Runs(st[id])], p)
                = [Mine(st, p) EXCEPT ![id] = Runs(Mine(st, p)[id])]
         /\ \A id \in DOMAIN st : \A x, v : Owner[x] = p =>
              Mine(SetPoint(st, id, x, v), p) = SetPoint(Mine(st, p), id, x, v)
         /\ \A id \in DOMAIN st : \A x, v : Owner[x] # p => Mine(SetPoint(st, id, x, v), p) = Mine(st, p)
<1>1. DOMAIN Mine(st, p) = DOMAIN st /\ \A id \in DOMAIN st : Mine(st, p)[id] = Restricted(st[id], p)
  BY DEF Mine
<1>2. \A id, s : Mine(With(st, id, Zeros(s)), p) = With(Mine(st, p), id, Zeros(Part(s, p)))
  BY RestrictedFacts DEF Mine, With
<1>3. \A id : Mine(Without(st, id), p) = Without(Mine(st, p), id)
  BY DEF Mine, Without
<1>4. ASSUME NEW id \in DOMAIN st, NEW f
      PROVE  Mine([st EXCEPT ![id] = f], p) = [Mine(st, p) EXCEPT ![id] = Restricted(f, p)]
  BY DEF Mine
<1>5. ASSUME NEW id \in DOMAIN st
      PROVE  Mine([st EXCEPT ![id] = Runs(st[id])], p)
               = [Mine(st, p) EXCEPT ![id] = Runs(Mine(st, p)[id])]
  <2> DEFINE g == Runs(st[id])
  <2>1. Mine([st EXCEPT ![id] = g], p) = [Mine(st, p) EXCEPT ![id] = Restricted(g, p)]
    <3> HIDE DEF g
    <3> QED BY <1>4
  <2>2. Restricted(g, p) = Runs(Restricted(st[id], p))
    BY RestrictedFacts
  <2> QED BY <1>1, <2>1, <2>2
<1>6. ASSUME NEW id \in DOMAIN st, NEW x, NEW v, Owner[x] = p
      PROVE  Mine(SetPoint(st, id, x, v), p) = SetPoint(Mine(st, p), id, x, v)
  <2> DEFINE g == [st[id] EXCEPT ![x] = v]
  <2>1. Mine([st EXCEPT ![id] = g], p) = [Mine(st, p) EXCEPT ![id] = Restricted(g, p)]
    <3> HIDE DEF g
    <3> QED BY <1>4
  <2>2. Restricted(g, p) = [Restricted(st[id], p) EXCEPT ![x] = v]
    <3> DEFINE h == st[id]
    <3> HIDE DEF h
    <3>1. Restricted([h EXCEPT ![x] = v], p) = [Restricted(h, p) EXCEPT ![x] = v]
      BY <1>6 DEF Restricted, Part
    <3> QED BY ONLY <3>1 DEF g, h
  <2> QED BY <1>1, <2>1, <2>2 DEF SetPoint
<1>7. ASSUME NEW id \in DOMAIN st, NEW x, NEW v, Owner[x] # p
      PROVE  Mine(SetPoint(st, id, x, v), p) = Mine(st, p)
  <2>1. Mine(SetPoint(st, id, x, v), p) = [Mine(st, p) EXCEPT ![id] = Restricted(st[id], p)]
    <3> DEFINE g == [st[id] EXCEPT ![x] = v]
    <3>1. Mine([st EXCEPT ![id] = g], p) = [Mine(st, p) EXCEPT ![id] = Restricted(g, p)]
      <4> HIDE DEF g
      <4> QED BY <1>4
    <3>2. Restricted(g, p) = Restricted(st[id], p)
      <4> DEFINE h == st[id]
      <4> HIDE DEF h
      <4>1. Restricted([h EXCEPT ![x] = v], p) = Restricted(h, p)
        BY <1>7 DEF Restricted, Part
      <4> QED BY ONLY <4>1 DEF g, h
    <3> QED BY <3>1, <3>2 DEF SetPoint
  <2> QED BY <1>1, <2>1 DEF Mine
<1> QED BY <1>1, <1>2, <1>3, <1>4, <1>5, <1>6, <1>7

-----------------------------------------------------------------------------
(* Carrying out what has been asked.                                        *)

\* What a client has made of its grids after some of the requests: its table,
\* its count of grids, and how many values sent to it it has used.
State == [tab: Table, next: Nat, pos: Nat]

\* The n-th message of c sets a point, which makes t of the table s.
Writes(c, n, s, t) ==
  /\ n \in DOMAIN c /\ c[n].kind = "SET"
  /\ c[n].body.id \in DOMAIN s /\ c[n].body.point \in DOMAIN s[c[n].body.id]
  /\ t = SetPoint(s, c[n].body.id, c[n].body.point, c[n].body.value)

OwnSet(p, m) == m.kind = "FUNC_SET" /\ m.opt = p
NoEdit       == {"FUNC_COPYOUT", "FUNC_GET", "FUNC_GRID_REDUCE", "FUNC_FINALIZE"}

\* What request m makes of the table s of p and of its count n of grids: t and
\* o; b is the buffer of a GridCopyin.
Edits(p, b, m, s, n, t, o) ==
  /\ m.kind \in GridCalls => m.opt \in DOMAIN s
  /\ IF m.kind = "FUNC_NEW" THEN t = With(s, n, Zeros(Part(m.opt, p))) /\ o = n + 1 ELSE o = n
  /\ m.kind = "FUNC_DELETE" => t = Without(s, m.opt)
  /\ m.kind = "FUNC_RUN" => t = [s EXCEPT ![m.opt] = Runs(s[m.opt])]
  /\ m.kind = "FUNC_COPYIN" => /\ DOMAIN s[m.opt] = Part(DOMAIN b, p)
                               /\ t = [s EXCEPT ![m.opt] = Restricted(b, p)]
  /\ m.kind \in NoEdit \/ (m.kind = "FUNC_SET" /\ ~OwnSet(p, m)) => t = s

\* Client p, in state s, carries out m and is in state t then; c is what the
\* master has sent it.
Executes(p, c, b, m, s, t) ==
  /\ Edits(p, b, m, s.tab, s.next, t.tab, t.next)
  /\ IF OwnSet(p, m) THEN Writes(c, s.pos + 1, s.tab, t.tab) /\ t.pos = s.pos + 1
     ELSE t.pos = s.pos

\* p has reported its part to a GridCopyin and the data is not there yet.
Waits(p) ==
  /\ pc[p] = "GridCopyin" /\ bcast[p] = << >> /\ net[0][p] = << >>
  /\ pc[0] = "GridCopyin" /\ call.next <= p

\* The state of p when it has finished what it is executing.
Starts(p, s) ==
  /\ s.next = counter[p]
  /\ pc[p] \notin {"GridSet", "GridCopyin"} => s.pos = 0 /\ s.tab = grids[p]
  /\ pc[p] = "GridSet" => s.pos = 1 /\ Writes(net[0][p], 1, grids[p], s.tab)
  /\ pc[p] = "GridCopyin" =>
       /\ cur[p] \in DOMAIN grids[p]
       /\ \/ /\ Waits(p) /\ s.pos = 0
             /\ s.tab = [grids[p] EXCEPT ![cur[p]] = Restricted(call.buf, p)]
          \/ /\ net[0][p] # << >> /\ net[0][p][1].kind = "DATA" /\ s.pos = 1
             /\ s.tab = [grids[p] EXCEPT ![cur[p]] = net[0][p][1].body]

\* The values for p are the first n messages it has yet to receive.
Sorted(c, n) ==
  /\ n \in 0 .. Len(c)
  /\ \A j \in DOMAIN c : c[j].kind \in {"SET", "DATA"} <=> j <= n

\* k is what becomes of p if it carries out all it has been asked to do, and
\* that is its part of what the program has written.
Ends(p, s) ==
  /\ s.tab = Mine(store, p) /\ s.next = counter[0]
  /\ Sorted(net[0][p], s.pos)
  /\ During(p) => s.pos = 0

Chain(p, c, b, q, k) ==
  /\ k \in Seq(State) /\ Len(k) = Len(q) + 1
  /\ \A i \in 1 .. Len(q) : /\ Executes(p, c, b, q[i], k[i], k[i + 1])
                            /\ q[i].kind = "FUNC_GET" => k[i].pos = k[Len(q) + 1].pos
  /\ \A i, j \in 1 .. Len(q) + 1 : i <= j => k[i].pos <= k[j].pos

Replays(p, k) ==
  /\ Chain(p, net[0][p], call.buf, bcast[p], k)
  /\ Starts(p, k[1])
  /\ Ends(p, k[Len(bcast[p]) + 1])

\* A client that GridCopyin asks and that has taken the request has reported
\* its part.
Reporting(p) ==
  pc[0] = "GridCopyin" /\ call.next <= p /\ bcast[p] = << >> =>
    /\ net[p][0] = <<PartMsg(Part(DOMAIN call.buf, p))>>
    /\ pc[p] = IF Part(DOMAIN call.buf, p) = {} THEN "Listen" ELSE "GridCopyin"
    /\ pc[p] = "GridCopyin" => net[0][p] = << >>

Contents == \A p \in Client : /\ \E k : Replays(p, k)
                              /\ Reporting(p)

-----------------------------------------------------------------------------
(* What a step makes of a chain.                                            *)

\* Messages may follow those of c.
Extended(c, d) == \A j \in DOMAIN c : j \in DOMAIN d /\ d[j] = c[j]

LEMMA ExecutesSame ==
  ASSUME NEW p, NEW c, NEW d, NEW b, NEW e, NEW m, NEW s, NEW t,
         Executes(p, c, b, m, s, t),
         m.kind = "FUNC_SET" => Extended(c, d),
         m.kind = "FUNC_COPYIN" => e = b
  PROVE  Executes(p, d, e, m, s, t)
<1>1. OwnSet(p, m) => Writes(d, s.pos + 1, s.tab, t.tab)
  BY DEF Executes, OwnSet, Writes, Extended
<1> QED BY <1>1 DEF Executes, Edits, OwnSet

LEMMA ChainSame ==
  ASSUME NEW p, NEW c, NEW d, NEW b, NEW e, NEW q \in Seq(Requests), NEW k,
         Chain(p, c, b, q, k),
         Has(q, "FUNC_SET") => Extended(c, d),
         Has(q, "FUNC_COPYIN") => e = b
  PROVE  Chain(p, d, e, q, k)
<1>1. ASSUME NEW i \in 1 .. Len(q) PROVE Executes(p, d, e, q[i], k[i], k[i + 1])
  <2> DEFINE m == q[i]
  <2>1. Executes(p, c, b, m, k[i], k[i + 1])
    BY DEF Chain
  <2>2. (m.kind = "FUNC_SET" => Extended(c, d)) /\ (m.kind = "FUNC_COPYIN" => e = b)
    BY DEF Has
  <2> DEFINE s == k[i]
             t == k[i + 1]
  <2>3. Executes(p, c, b, m, s, t)
    BY <2>1
  <2>4. Executes(p, d, e, m, s, t)
    <3> HIDE DEF m, s, t
    <3> QED BY ONLY <2>2, <2>3, ExecutesSame
  <2> QED BY <2>4
<1> QED BY <1>1 DEF Chain

\* Tail and Append, by names that the provers do not see through.
Rest(s)    == Tail(s)
More(s, e) == Append(s, e)

\* p has taken the first request.
LEMMA ChainTail ==
  ASSUME NEW p, NEW c, NEW b, NEW q \in Seq(Requests), q # << >>, NEW k,
         Chain(p, c, b, q, k)
  PROVE  /\ Chain(p, c, b, Rest(q), Rest(k))
         /\ Rest(k)[1] = k[2] /\ Rest(k)[Len(Rest(q)) + 1] = k[Len(q) + 1]
         /\ Executes(p, c, b, q[1], k[1], k[2])
         /\ k[1] \in State /\ k[2] \in State
         /\ q[1].kind = "FUNC_GET" => k[1].pos = k[Len(q) + 1].pos
<1> DEFINE r == Rest(q)
           h == Rest(k)
           n == Len(q)
<1>1. /\ Len(r) = n - 1 /\ n \in Nat /\ n > 0
      /\ \A i \in 1 .. n - 1 : r[i] = q[i + 1]
  BY TakenFirst DEF Rest
<1>2. k \in Seq(State) /\ Len(k) = n + 1 /\ k # << >>
  BY <1>1 DEF Chain
<1>3. /\ h \in Seq(State) /\ Len(h) = Len(k) - 1
      /\ \A i \in 1 .. Len(k) - 1 : h[i] = k[i + 1]
  BY <1>2, TakenFirst DEF Rest
<1>9. /\ Executes(p, c, b, q[1], k[1], k[2])
      /\ k[1] \in State /\ k[2] \in State
      /\ q[1].kind = "FUNC_GET" => k[1].pos = k[Len(q) + 1].pos
  BY <1>1, <1>2 DEF Chain
<1>10. /\ \A i \in 1 .. n : Executes(p, c, b, q[i], k[i], k[i + 1])
       /\ \A i \in 1 .. n : q[i].kind = "FUNC_GET" => k[i].pos = k[n + 1].pos
       /\ \A i, j \in 1 .. n + 1 : i <= j => k[i].pos <= k[j].pos
  BY DEF Chain
<1> HIDE DEF r, h, n
<1>4. \A i \in 1 .. n : h[i] = k[i + 1]
  BY <1>1, <1>2, <1>3
<1>11. Len(r) + 1 = n /\ n \in 1 .. n /\ 1 \in 1 .. n /\ 1 + 1 = 2
  BY <1>1
<1>5. ASSUME NEW i \in 1 .. Len(r)
      PROVE  /\ Executes(p, c, b, r[i], h[i], h[i + 1])
             /\ r[i].kind = "FUNC_GET" => h[i].pos = h[Len(r) + 1].pos
  <2>1. i + 1 \in 1 .. n /\ i \in 1 .. n /\ i \in 1 .. n - 1
    BY <1>1
  <2>2. r[i] = q[i + 1] /\ h[i] = k[i + 1] /\ h[i + 1] = k[i + 1 + 1]
    BY <1>1, <1>4, <2>1
  <2>3. h[Len(r) + 1] = k[n + 1]
    BY <1>4, <1>11
  <2> QED BY <1>10, <2>1, <2>2, <2>3
<1>6. ASSUME NEW i \in 1 .. Len(r) + 1, NEW j \in 1 .. Len(r) + 1, i <= j PROVE h[i].pos <= h[j].pos
  <2>1. i \in 1 .. n /\ j \in 1 .. n /\ i + 1 \in 1 .. n + 1 /\ j + 1 \in 1 .. n + 1
    BY <1>1
  <2>2. i + 1 <= j + 1
    BY <1>1, <1>6
  <2> QED BY <1>4, <1>10, <2>1, <2>2
<1>7. Chain(p, c, b, r, h)
  BY <1>1, <1>2, <1>3, <1>5, <1>6 DEF Chain
<1>8. h[1] = k[2] /\ h[Len(r) + 1] = k[n + 1]
  BY <1>4, <1>11
<1> QED BY <1>7, <1>8, <1>9 DEF r, h, n

\* p is asked for one thing more.
LEMMA ChainAppend ==
  ASSUME NEW p, NEW c, NEW b, NEW q \in Seq(Requests), NEW m \in Requests, NEW k,
         NEW s, NEW t \in State, s = k[Len(q) + 1],
         Chain(p, c, b, q, k), Executes(p, c, b, m, s, t),
         (~Has(q, "FUNC_GET") /\ m.kind # "FUNC_GET") \/ ~OwnSet(p, m)
  PROVE  /\ Chain(p, c, b, More(q, m), More(k, t))
         /\ More(k, t)[1] = k[1] /\ More(k, t)[Len(More(q, m)) + 1] = t
<1> DEFINE r == More(q, m)
           h == More(k, t)
           n == Len(q)
<1>1. /\ Len(r) = n + 1 /\ n \in Nat
      /\ \A i \in 1 .. n : r[i] = q[i] /\ i \in DOMAIN q
      /\ r[n + 1] = m
  BY SentLast DEF More
<1>2. k \in Seq(State) /\ Len(k) = n + 1
  BY DEF Chain
<1>3. /\ h \in Seq(State) /\ Len(h) = Len(k) + 1
      /\ \A i \in 1 .. Len(k) : h[i] = k[i]
      /\ h[Len(k) + 1] = t
  BY <1>2, SentLast DEF More
<1>10. /\ \A i \in 1 .. n : Executes(p, c, b, q[i], k[i], k[i + 1])
       /\ \A i \in 1 .. n : q[i].kind = "FUNC_GET" => k[i].pos = k[n + 1].pos
       /\ \A i, j \in 1 .. n + 1 : i <= j => k[i].pos <= k[j].pos
  BY DEF Chain
<1>11. /\ \A i \in 1 .. n + 1 : k[i] \in State
       /\ Executes(p, c, b, m, k[n + 1], t)
  BY <1>2
<1> HIDE DEF r, h, n
<1>4. /\ \A i \in 1 .. n + 1 : h[i] = k[i] /\ k[i].pos \in Nat
      /\ h[n + 2] = t /\ t.pos \in Nat
  BY <1>1, <1>2, <1>3, <1>11 DEF State
<1>12. /\ 1 \in 1 .. n + 1 /\ n + 1 \in 1 .. n + 1 /\ n + 1 + 1 = n + 2
       /\ Len(r) + 1 = n + 2
  BY <1>1
<1>5. /\ ~OwnSet(p, m) => t.pos = k[n + 1].pos
      /\ k[n + 1].pos <= t.pos
  BY <1>4, <1>11, <1>12 DEF Executes
<1>6. ASSUME NEW i \in 1 .. Len(r)
      PROVE  /\ Executes(p, c, b, r[i], h[i], h[i + 1])
             /\ r[i].kind = "FUNC_GET" => h[i].pos = h[Len(r) + 1].pos
  <2>1. CASE i \in 1 .. n
    <3>1. i \in 1 .. n + 1 /\ i + 1 \in 1 .. n + 1
      BY <1>1, <2>1
    <3>2. r[i] = q[i] /\ h[i] = k[i] /\ h[i + 1] = k[i + 1] /\ h[Len(r) + 1] = t
      BY <1>1, <1>4, <1>12, <2>1, <3>1
    <3>3. q[i].kind = "FUNC_GET" => Has(q, "FUNC_GET")
      BY <1>1, <2>1 DEF Has
    <3> QED BY <1>5, <1>10, <2>1, <3>2, <3>3
  <2>2. CASE i = n + 1
    <3>1. r[i] = m /\ h[i] = k[n + 1] /\ h[i + 1] = t /\ h[Len(r) + 1] = t
      BY <1>1, <1>4, <1>12, <2>2
    <3> QED BY <1>5, <1>11, <3>1
  <2> QED BY <1>1, <2>1, <2>2
<1>7. ASSUME NEW i \in 1 .. Len(r) + 1, NEW j \in 1 .. Len(r) + 1, i <= j
      PROVE  h[i].pos <= h[j].pos
  <2>1. CASE i \in 1 .. n + 1 /\ j \in 1 .. n + 1
    BY <1>4, <1>7, <1>10, <2>1
  <2>2. CASE j = n + 2 /\ i \in 1 .. n + 1
    <3>1. k[i].pos <= k[n + 1].pos
      BY <1>1, <1>10, <1>12, <2>2
    <3>2. h[i] = k[i] /\ h[j] = t /\ k[i].pos \in Nat /\ k[n + 1].pos \in Nat /\ t.pos \in Nat
      BY <1>4, <1>12, <2>2
    <3> QED BY <1>5, <3>1, <3>2
  <2>3. CASE i = n + 2 /\ j = n + 2
    BY <1>4, <2>3
  <2> QED BY <1>1, <1>7, <2>1, <2>2, <2>3
<1>8. Chain(p, c, b, r, h)
  BY <1>1, <1>2, <1>3, <1>6, <1>7 DEF Chain
<1>9. h[1] = k[1] /\ h[Len(r) + 1] = t
  BY <1>4, <1>12
<1> QED BY <1>8, <1>9 DEF r, h, n

LEMMA MineTyped ==
  ASSUME NEW st \in Table, NEW p PROVE Mine(st, p) \in Table
<1>1. \A id \in DOMAIN st : Restricted(st[id], p) \in PartFun
  BY PartEdits, TableFacts
<1>2. DOMAIN st \subseteq Nat
  BY TableFacts
<1> QED BY <1>1, <1>2 DEF Mine, Table

\* The step leaves alone what p is executing and what it needs for that.
LEMMA StartsSame ==
  ASSUME NEW p, NEW s, Starts(p, s),
         counter'[p] = counter[p], pc'[p] = pc[p], grids'[p] = grids[p], cur'[p] = cur[p],
         pc[p] \in {"GridSet", "GridCopyin"} /\ ~Waits(p) => Extended(net[0][p], net'[0][p]),
         net[0][p] \in Seq(RpcMessage), net'[0][p] \in Seq(RpcMessage),
         Waits(p) => Waits(p)' /\ call'.buf = call.buf
  PROVE  Starts(p, s)'
<1>1. CASE pc[p] \notin {"GridSet", "GridCopyin"}
  BY <1>1 DEF Starts
<1>2. CASE pc[p] = "GridSet"
  <2>1. ~Waits(p)
    BY <1>2 DEF Waits
  <2>2. s.pos = 1 /\ Writes(net[0][p], 1, grids[p], s.tab) /\ s.next = counter[p]
    BY <1>2 DEF Starts
  <2>3. Writes(net'[0][p], 1, grids[p], s.tab)
    BY <1>2, <2>1, <2>2 DEF Writes, Extended
  <2> QED BY <1>2, <2>2, <2>3 DEF Starts
<1>3. CASE pc[p] = "GridCopyin"
  <2>1. CASE Waits(p)
    BY <1>3, <2>1 DEF Starts, Waits
  <2>2. CASE ~Waits(p)
    <3>1. /\ net[0][p] # << >> /\ net[0][p][1].kind = "DATA" /\ s.pos = 1
          /\ s.tab = [grids[p] EXCEPT ![cur[p]] = net[0][p][1].body]
          /\ cur[p] \in DOMAIN grids[p] /\ s.next = counter[p]
      BY <1>3, <2>2 DEF Starts
    <3>2. 1 \in DOMAIN net[0][p]
      BY <3>1, TakenFirst
    <3>3. 1 \in DOMAIN net'[0][p] /\ net'[0][p][1] = net[0][p][1] /\ net'[0][p] # << >>
      BY <1>3, <2>2, <3>2 DEF Extended
    <3> QED BY <1>3, <3>1, <3>3 DEF Starts
  <2> QED BY <2>1, <2>2
<1> QED BY <1>1, <1>2, <1>3

\* A step that asks p for nothing.
LEMMA ReplaySame ==
  ASSUME Typed, NEW p \in Client, NEW k, Replays(p, k), bcast'[p] = bcast[p],
         Has(bcast[p], "FUNC_SET") => Extended(net[0][p], net'[0][p]),
         Has(bcast[p], "FUNC_COPYIN") => call'.buf = call.buf,
         Starts(p, k[1])', Ends(p, k[Len(bcast[p]) + 1])'
  PROVE  Replays(p, k)'
<1>1. bcast[p] \in Seq(Requests)
  BY ProcFacts DEF Typed
<1>2. Chain(p, net'[0][p], call'.buf, bcast[p], k)
  <2> DEFINE c == net[0][p]
             d == net'[0][p]
             b == call.buf
             e == call'.buf
             q == bcast[p]
  <2>1. /\ Chain(p, c, b, q, k) /\ q \in Seq(Requests)
        /\ Has(q, "FUNC_SET") => Extended(c, d)
        /\ Has(q, "FUNC_COPYIN") => e = b
    BY <1>1 DEF Replays
  <2> HIDE DEF c, d, b, e, q
  <2>2. Chain(p, d, e, q, k)
    BY ONLY <2>1, ChainSame
  <2> QED BY <2>2 DEF d, e, q
<1> QED BY <1>2 DEF Replays

\* p is asked for m, which makes t of what it would hold.
LEMMA ReplayAsked ==
  ASSUME Typed, NEW p \in Client, NEW k, NEW m \in Requests, NEW t \in State,
         Replays(p, k), bcast'[p] = Append(bcast[p], m),
         Extended(net[0][p], net'[0][p]),
         Has(bcast[p], "FUNC_COPYIN") => call'.buf = call.buf,
         Has(bcast[p], "FUNC_GET") \/ m.kind = "FUNC_GET" => ~OwnSet(p, m),
         Executes(p, net'[0][p], call'.buf, m, k[Len(bcast[p]) + 1], t),
         Starts(p, k[1])', Ends(p, t)'
  PROVE  Replays(p, More(k, t))'
<1>1. bcast[p] \in Seq(Requests)
  BY ProcFacts DEF Typed
<1> DEFINE c == net[0][p]
           d == net'[0][p]
           b == call.buf
           e == call'.buf
           q == bcast[p]
           r == bcast'[p]
<1>2. /\ Chain(p, c, b, q, k) /\ q \in Seq(Requests) /\ r = More(q, m)
      /\ Has(q, "FUNC_SET") => Extended(c, d)
      /\ Has(q, "FUNC_COPYIN") => e = b
      /\ Executes(p, d, e, m, k[Len(q) + 1], t)
      /\ Has(q, "FUNC_GET") \/ m.kind = "FUNC_GET" => ~OwnSet(p, m)
  BY <1>1 DEF Replays, More
<1>3. Chain(p, d, e, r, More(k, t)) /\ More(k, t)[1] = k[1] /\ More(k, t)[Len(r) + 1] = t
  <2> HIDE DEF c, d, b, e, q, r
  <2>1. Chain(p, d, e, q, k)
    BY ONLY <1>2, ChainSame
  <2>2. Chain(p, d, e, r, More(k, t)) /\ More(k, t)[1] = k[1] /\ More(k, t)[Len(r) + 1] = t
    <3> DEFINE s == k[Len(q) + 1]
    <3>1. /\ Chain(p, d, e, q, k) /\ q \in Seq(Requests) /\ m \in Requests /\ t \in State
          /\ s = k[Len(q) + 1] /\ Executes(p, d, e, m, s, t)
      BY <1>2, <2>1
    <3>2. (~Has(q, "FUNC_GET") /\ m.kind # "FUNC_GET") \/ ~OwnSet(p, m)
      BY <1>2
    <3> HIDE DEF s
    <3>3. /\ Chain(p, d, e, More(q, m), More(k, t))
          /\ More(k, t)[1] = k[1] /\ More(k, t)[Len(More(q, m)) + 1] = t
      BY ONLY <3>1, <3>2, ChainAppend, SMTT(30)
    <3> QED BY <1>2, <3>3
  <2> QED BY <2>2
<1> QED BY <1>3 DEF Replays

\* p takes a request, and what it executes then takes it to where the request
\* was to take it.
LEMMA ReplayTakes ==
  ASSUME Typed, NEW p \in Client, NEW k, Replays(p, k), bcast[p] # << >>,
         bcast'[p] = Tail(bcast[p]), net'[0][p] = net[0][p], call' = call,
         store' = store, counter'[0] = counter[0],
         During(p)' => bcast[p][1].kind = "FUNC_GET" /\ k[1].pos = 0,
         Starts(p, k[2])'
  PROVE  Replays(p, Rest(k))'
<1>1. bcast[p] \in Seq(Requests)
  BY ProcFacts DEF Typed
<1> DEFINE c == net[0][p]
           b == call.buf
           q == bcast[p]
           r == bcast'[p]
<1>2. Chain(p, c, b, q, k) /\ q \in Seq(Requests) /\ q # << >> /\ r = Rest(q)
  BY <1>1 DEF Replays, Rest
<1>3. /\ Chain(p, c, b, r, Rest(k))
      /\ Rest(k)[1] = k[2] /\ Rest(k)[Len(r) + 1] = k[Len(q) + 1]
      /\ q[1].kind = "FUNC_GET" => k[1].pos = k[Len(q) + 1].pos
  <2> HIDE DEF c, b, q, r
  <2> QED BY ONLY <1>2, ChainTail
<1>4. PICK z : z = k[Len(q) + 1]
  OBVIOUS
<1>5. Ends(p, z)'
  BY <1>3, <1>4 DEF Ends, Replays
<1>6. Starts(p, Rest(k)[1])'
  BY <1>3
<1>7. Chain(p, net'[0][p], call'.buf, bcast'[p], Rest(k))
  BY <1>3
<1>8. Rest(k)[Len(bcast'[p]) + 1] = z
  BY <1>3, <1>4, ZenonT(30)
<1> QED BY <1>5, <1>6, <1>7, <1>8 DEF Replays

-----------------------------------------------------------------------------
(* The values among the messages of a channel.                              *)

ValueKinds == {"SET", "DATA"}

LEMMA SortedFacts ==
  ASSUME NEW c \in Seq(RpcMessage), NEW n, Sorted(c, n)
  PROVE  /\ n \in Nat /\ Extended(c, c)
         /\ \A m \in RpcMessage : /\ Extended(c, Append(c, m))
                                  /\ m.kind \notin ValueKinds => Sorted(Append(c, m), n)
                                  /\ m.kind \in ValueKinds /\ Only(c, ValueKinds) =>
                                       n = Len(c) /\ Sorted(Append(c, m), n + 1)
         /\ c # << >> /\ Head(c).kind \notin ValueKinds => n = 0 /\ Sorted(Tail(c), 0)
         /\ c # << >> /\ Head(c).kind \in ValueKinds => n > 0 /\ Sorted(Tail(c), n - 1)
         /\ \A d : SameButReplies(c, d) => Sorted(d, n)
<1>1. n \in Nat /\ Len(c) \in Nat /\ n <= Len(c) /\ DOMAIN c = 1 .. Len(c)
      /\ \A j \in DOMAIN c : c[j].kind \in ValueKinds <=> j <= n
  BY DEF Sorted, ValueKinds
<1>2. Extended(c, c)
  BY DEF Extended
<1>3. ASSUME NEW m \in RpcMessage
      PROVE  /\ Extended(c, Append(c, m))
             /\ m.kind \notin ValueKinds => Sorted(Append(c, m), n)
             /\ m.kind \in ValueKinds /\ Only(c, ValueKinds) =>
                  n = Len(c) /\ Sorted(Append(c, m), n + 1)
  <2> DEFINE d == Append(c, m)
  <2>1. /\ Len(d) = Len(c) + 1 /\ DOMAIN d = 1 .. Len(c) + 1
        /\ \A i \in 1 .. Len(c) : d[i] = c[i]
        /\ d[Len(c) + 1] = m
    BY SentLast
  <2> HIDE DEF d
  <2>2. Extended(c, d)
    BY <1>1, <2>1 DEF Extended
  <2>3. m.kind \notin ValueKinds => Sorted(d, n)
    BY <1>1, <2>1 DEF Sorted, ValueKinds
  <2>4. Only(c, ValueKinds) => n = Len(c)
    <3>1. Len(c) > 0 => Len(c) \in DOMAIN c
      BY <1>1
    <3>2. Only(c, ValueKinds) /\ Len(c) > 0 => c[Len(c)].kind \in ValueKinds
      BY ONLY <3>1 DEF Only
    <3>3. Only(c, ValueKinds) /\ Len(c) > 0 => Len(c) <= n
      BY ONLY <1>1, <3>1, <3>2
    <3>4. n \in Nat /\ Len(c) \in Nat /\ n <= Len(c)
      BY <1>1
    <3> HIDE DEF ValueKinds
    <3>5. SUFFICES ASSUME Only(c, ValueKinds) PROVE n = Len(c)
      OBVIOUS
    <3> QED BY ONLY <3>3, <3>4, <3>5
  <2>5. m.kind \in ValueKinds /\ Only(c, ValueKinds) => Sorted(d, n + 1)
    <3>1. SUFFICES ASSUME m.kind \in ValueKinds, n = Len(c) PROVE Sorted(d, n + 1)
      BY <2>4
    <3>2. \A j \in DOMAIN d : d[j].kind \in ValueKinds
      BY <1>1, <2>1, <3>1
    <3> QED BY <1>1, <2>1, <3>1, <3>2 DEF Sorted, ValueKinds
  <2> QED BY <2>2, <2>3, <2>4, <2>5 DEF d
<1>4. ASSUME c # << >>
      PROVE  /\ Head(c).kind \notin ValueKinds => n = 0 /\ Sorted(Tail(c), 0)
             /\ Head(c).kind \in ValueKinds => n > 0 /\ Sorted(Tail(c), n - 1)
  <2> DEFINE d == Tail(c)
             h == Head(c)
  <2>1. /\ Len(c) > 0 /\ h = c[1] /\ Len(d) = Len(c) - 1 /\ DOMAIN d = 1 .. Len(c) - 1
        /\ \A i \in 1 .. Len(c) - 1 : d[i] = c[i + 1]
    BY <1>4, TakenFirst
  <2> HIDE DEF d, h
  <2>2. h.kind \in ValueKinds <=> n > 0
    BY <1>1, <2>1
  <2>3. \A j \in DOMAIN d : d[j].kind \in ValueKinds <=> j + 1 <= n
    <3>1. ASSUME NEW j \in DOMAIN d PROVE d[j].kind \in ValueKinds <=> j + 1 <= n
      <4>1. j + 1 \in DOMAIN c /\ d[j] = c[j + 1]
        BY <1>1, <2>1
      <4> QED BY <1>1, <4>1
    <3> QED BY <3>1
  <2>4. n = 0 => Sorted(d, 0)
    BY <1>1, <2>1, <2>3 DEF Sorted, ValueKinds
  <2>5. n > 0 => Sorted(d, n - 1)
    BY <1>1, <2>1, <2>3 DEF Sorted, ValueKinds
  <2> QED BY <1>1, <2>2, <2>4, <2>5 DEF d, h
<1>5. ASSUME NEW d, SameButReplies(c, d) PROVE Sorted(d, n)
  BY <1>1, <1>5 DEF SameButReplies, Sorted, ValueKinds
<1> QED BY <1>1, <1>2, <1>3, <1>4, <1>5

-----------------------------------------------------------------------------
(* The program's calls.                                                     *)

\* The master asks for m, and carrying that out gives p what the program has
\* written then.
LEMMA ProgramAsks ==
  ASSUME Typed, Typed', NEW p \in Client, NEW k, Replays(p, k), Ordered(p), pc[0] = "user",
         NEW m \in Requests, Notify(m), NEW t \in State,
         pc'[p] = pc[p], cur'[p] = cur[p], grids'[p] = grids[p], counter'[p] = counter[p],
         Extended(net[0][p], net'[0][p]),
         Before(p) \/ m.kind = "FUNC_GET" => ~OwnSet(p, m),
         Executes(p, net'[0][p], call'.buf, m, k[Len(bcast[p]) + 1], t),
         Ends(p, t)'
  PROVE  \E h : Replays(p, h)'
<1>1. bcast'[p] = Append(bcast[p], m)
  BY NotifyFacts
<1>2. ~Has(bcast[p], "FUNC_COPYIN")
  BY DEF Has, Ordered, Answered, CallOf
<1>3. ~Waits(p)
  BY DEF Waits
<1>4. net[0][p] \in Seq(RpcMessage) /\ net'[0][p] \in Seq(RpcMessage)
  BY ProcFacts DEF Typed, Nets
<1>5. Starts(p, k[1])
  BY DEF Replays
<1>6. Starts(p, k[1])'
  <2> DEFINE s == k[1]
  <2>1. Starts(p, s)
    BY <1>5
  <2> HIDE DEF s
  <2>2. Starts(p, s)'
    BY <1>3, <1>4, <2>1, StartsSame
  <2> QED BY <2>2 DEF s
<1>7. Has(bcast[p], "FUNC_GET") \/ m.kind = "FUNC_GET" => ~OwnSet(p, m)
  BY DEF Before
<1>8. Replays(p, More(k, t))'
  BY <1>1, <1>2, <1>6, <1>7, ReplayAsked
<1> QED BY <1>8

\* That is not a PSGridSet of a point of p.
LEMMA AsksNoValue ==
  ASSUME Typed, Typed', NEW p \in Client, NEW k, Replays(p, k), Ordered(p), pc[0] = "user",
         NEW m \in Requests, Notify(m), ~OwnSet(p, m),
         pc'[p] = pc[p], cur'[p] = cur[p], grids'[p] = grids[p], counter'[p] = counter[p],
         \/ net'[0][p] = net[0][p]
         \/ \E x \in RpcMessage : x.kind \notin ValueKinds /\ net'[0][p] = Append(net[0][p], x),
         Edits(p, call'.buf, m, Mine(store, p), counter[0], Mine(store', p), counter'[0])
  PROVE  \E h : Replays(p, h)'
<1>s. PICK s : s = k[Len(bcast[p]) + 1]
  OBVIOUS
<1>t. PICK t : t = [tab |-> Mine(store', p), next |-> counter'[0], pos |-> s.pos]
  OBVIOUS
<1>1. s.tab = Mine(store, p) /\ s.next = counter[0] /\ Sorted(net[0][p], s.pos)
      /\ (During(p) => s.pos = 0)
  BY <1>s DEF Replays, Ends
<1>2. net[0][p] \in Seq(RpcMessage)
  BY ProcFacts DEF Typed, Nets
<1>3. s.pos \in Nat /\ Extended(net[0][p], net'[0][p]) /\ Sorted(net'[0][p], s.pos)
  <2> DEFINE c == net[0][p]
             d == net'[0][p]
             n == s.pos
  <2>1. Sorted(c, n) /\ c \in Seq(RpcMessage)
        /\ (d = c \/ \E x \in RpcMessage : x.kind \notin ValueKinds /\ d = Append(c, x))
    BY <1>1, <1>2
  <2> HIDE DEF c, d, n
  <2>2. n \in Nat /\ Extended(c, d) /\ Sorted(d, n)
    BY ONLY <2>1, SortedFacts
  <2> QED BY <2>2 DEF c, d, n
<1>4. t \in State
  <2>1. Mine(store', p) \in Table
    BY MineTyped DEF Typed
  <2>2. counter'[0] \in Nat
    BY ProcFacts DEF Typed
  <2> QED BY <1>3, <1>t, <2>1, <2>2 DEF State
<1>5. Executes(p, net'[0][p], call'.buf, m, s, t)
  BY <1>1, <1>t DEF Executes
<1>6. Ends(p, t)'
  BY <1>1, <1>3, <1>t DEF Ends, During
<1> QED BY <1>3, <1>4, <1>5, <1>6, <1>s, ProgramAsks

\* A call that has to do with whole grids.
LEMMA GridEdited ==
  ASSUME Typed, NEW p \in Client
  PROVE  /\ \A s \in SUBSET Point : \A b :
              Edits(p, b, Req("FUNC_NEW", s), Mine(store, p), counter[0],
                    Mine(With(store, counter[0], Zeros(s)), p), counter[0] + 1)
         /\ \A id \in DOMAIN store : \A b :
              /\ Edits(p, b, Req("FUNC_DELETE", id), Mine(store, p), counter[0],
                       Mine(Without(store, id), p), counter[0])
              /\ Edits(p, b, Req("FUNC_RUN", id), Mine(store, p), counter[0],
                       Mine([store EXCEPT ![id] = Runs(store[id])], p), counter[0])
              /\ DOMAIN b = DOMAIN store[id] =>
                   Edits(p, b, Req("FUNC_COPYIN", id), Mine(store, p), counter[0],
                         Mine([store EXCEPT ![id] = b], p), counter[0])
              /\ \A k \in NoEdit :
                   Edits(p, b, Req(k, id), Mine(store, p), counter[0], Mine(store, p), counter[0])
         /\ \A b : Edits(p, b, Req("FUNC_FINALIZE", 0), Mine(store, p), counter[0],
                         Mine(store, p), counter[0])
<1> DEFINE s0 == Mine(store, p)
<1>1. DOMAIN s0 = DOMAIN store /\ \A id \in DOMAIN store : s0[id] = Restricted(store[id], p)
  BY MineFacts
<1>2. ASSUME NEW s \in SUBSET Point, NEW b
      PROVE  Edits(p, b, Req("FUNC_NEW", s), s0, counter[0],
                   Mine(With(store, counter[0], Zeros(s)), p), counter[0] + 1)
  <2>1. Mine(With(store, counter[0], Zeros(s)), p) = With(s0, counter[0], Zeros(Part(s, p)))
    BY MineFacts
  <2> HIDE DEF s0
  <2> QED BY <2>1 DEF Edits, Req, GridCalls, NoEdit
<1>3. ASSUME NEW id \in DOMAIN store, NEW b
      PROVE  Edits(p, b, Req("FUNC_DELETE", id), s0, counter[0], Mine(Without(store, id), p), counter[0])
  <2>1. Mine(Without(store, id), p) = Without(s0, id)
    BY MineFacts
  <2> HIDE DEF s0
  <2> QED BY <1>1, <2>1 DEF Edits, Req, NoEdit
<1>4. ASSUME NEW id \in DOMAIN store, NEW b
      PROVE  Edits(p, b, Req("FUNC_RUN", id), s0, counter[0],
                   Mine([store EXCEPT ![id] = Runs(store[id])], p), counter[0])
  <2>1. Mine([store EXCEPT ![id] = Runs(store[id])], p) = [s0 EXCEPT ![id] = Runs(s0[id])]
    BY MineFacts
  <2> HIDE DEF s0
  <2> QED BY <1>1, <2>1 DEF Edits, Req, NoEdit
<1>5. ASSUME NEW id \in DOMAIN store, NEW b, DOMAIN b = DOMAIN store[id]
      PROVE  Edits(p, b, Req("FUNC_COPYIN", id), s0, counter[0],
                   Mine([store EXCEPT ![id] = b], p), counter[0])
  <2>1. Mine([store EXCEPT ![id] = b], p) = [s0 EXCEPT ![id] = Restricted(b, p)]
    BY MineFacts
  <2>2. DOMAIN s0[id] = Part(DOMAIN b, p)
    BY <1>1, <1>5 DEF Restricted
  <2> HIDE DEF s0
  <2> QED BY <1>1, <2>1, <2>2 DEF Edits, Req, NoEdit
<1>6. ASSUME NEW id \in DOMAIN store, NEW b, NEW k \in NoEdit
      PROVE  Edits(p, b, Req(k, id), s0, counter[0], s0, counter[0])
  BY <1>1 DEF Edits, Req, NoEdit, GridCalls
<1>7. ASSUME NEW b PROVE Edits(p, b, Req("FUNC_FINALIZE", 0), s0, counter[0], s0, counter[0])
  BY DEF Edits, Req, GridCalls
<1> QED BY <1>2, <1>3, <1>4, <1>5, <1>6, <1>7

\* PSGridSet of a remote point, by the rank it lies on.
LEMMA ContentsSetRemote ==
  ASSUME Typed, Typed', NEW p \in Client, NEW k, Replays(p, k), Control, Fetching, AwaitClients,
         NEW id \in DOMAIN store, NEW x \in DOMAIN store[id], NEW v \in Data,
         MasterSetRemote(id, x, v)
  PROVE  \E h : Replays(p, h)'
<1>1. /\ pc[0] = "user" /\ settled /\ Owner[x] # 0
      /\ Notify(Req("FUNC_SET", Owner[x]))
      /\ net' = Put(net, 0, Owner[x], SetMsg(id, x, v))
      /\ store' = [store EXCEPT ![id][x] = v]
      /\ UNCHANGED <<pc, cur, call, grids, counter>>
  BY DEF MasterSetRemote, UserCalls, MayTalk
<1>2. /\ id \in Nat /\ x \in Point /\ Owner[x] \in Proc /\ Owner[x] \in Nat
      /\ SetMsg(id, x, v) \in RpcMessage
  BY StoreFacts, MessageFacts, ProcFacts, MasterClientAssumption
<1>3. Req("FUNC_SET", Owner[x]) \in Requests
  BY <1>2, RequestFacts DEF IdKinds
<1>4. /\ net'[0][Owner[x]] = Append(net[0][Owner[x]], SetMsg(id, x, v))
      /\ p # Owner[x] => net'[0][p] = net[0][p]
  <2> DEFINE m == SetMsg(id, x, v)
             o == Owner[x]
  <2>1. m \in RpcMessage /\ o \in Proc /\ net' = Put(net, 0, o, m)
    BY <1>1, <1>2
  <2> HIDE DEF m, o
  <2>2. net'[0][o] = Append(net[0][o], m) /\ (p # o => net'[0][p] = net[0][p])
    <3>1. net \in Nets /\ 0 \in Proc /\ p \in Proc
      BY ProcFacts DEF Typed
    <3>2. net'[0][o] = Append(net[0][o], m)
      BY ONLY <2>1, <3>1, PutFacts, SMTT(30)
    <3>3. p # o => net'[0][p] = net[0][p]
      BY ONLY <2>1, <3>1, PutFacts, SMTT(30)
    <3> QED BY <3>2, <3>3
  <2> QED BY <2>2 DEF m, o
<1>5. Ordered(p) /\ ~Before(p) /\ ~During(p) /\ ~During(0)
  BY <1>1 DEF Control, GetCall, During
<1>6. store' = SetPoint(store, id, x, v)
  BY <1>1 DEF SetPoint
<1>7. DOMAIN Mine(store, p) = DOMAIN store /\ Mine(store, p)[id] = Restricted(store[id], p)
  BY MineFacts
<1>8. CASE p # Owner[x]
  <2> DEFINE m == Req("FUNC_SET", Owner[x])
  <2>1. m \in Requests /\ ~OwnSet(p, m) /\ Notify(m)
    BY <1>1, <1>3, <1>8 DEF OwnSet, Req
  <2>2. Mine(store', p) = Mine(store, p)
    BY <1>6, <1>8, MineFacts
  <2>3. Edits(p, call'.buf, m, Mine(store, p), counter[0], Mine(store', p), counter'[0])
    BY <1>1, <2>1, <2>2 DEF Edits, Req, GridCalls, NoEdit
  <2> HIDE DEF m
  <2> QED BY <1>1, <1>4, <1>5, <1>8, <2>1, <2>3, AsksNoValue
<1>9. CASE p = Owner[x]
  <2>s. PICK s : s = k[Len(bcast[p]) + 1]
    OBVIOUS
  <2>1. /\ s.tab = Mine(store, p) /\ s.next = counter[0] /\ Sorted(net[0][p], s.pos)
    BY <2>s DEF Replays, Ends
  <2>2. Only(net[0][p], ValueKinds)
    <3>1. Only(net[0][p], {"SET", "DATA", "FETCH_REQUEST", "DONE"})
      BY ProcFacts DEF Fetching, RequestInv, Channels, Allowed
    <3>2. ~Has(net[0][p], "FETCH_REQUEST") /\ ~Has(net[0][p], "DONE")
      BY <1>5, ProcFacts DEF Fetching, RequestInv, DoneInv, DoneFrom, Asked
    <3> QED BY <3>1, <3>2 DEF Only, Has, ValueKinds
  <2>3. net[0][p] \in Seq(RpcMessage)
    BY ProcFacts DEF Typed, Nets
  <2>4. /\ s.pos \in Nat /\ s.pos = Len(net[0][p]) /\ Extended(net[0][p], net'[0][p])
        /\ Sorted(net'[0][p], s.pos + 1)
    <3> DEFINE c == net[0][p]
               d == net'[0][p]
               n == s.pos
               m == SetMsg(id, x, v)
    <3>1. /\ Sorted(c, n) /\ c \in Seq(RpcMessage) /\ Only(c, ValueKinds)
          /\ m \in RpcMessage /\ m.kind \in ValueKinds /\ d = Append(c, m)
      BY <1>2, <1>4, <1>9, <2>1, <2>2, <2>3 DEF SetMsg, ValueKinds
    <3> HIDE DEF c, d, n, m
    <3>2. n \in Nat /\ n = Len(c) /\ Extended(c, d) /\ Sorted(d, n + 1)
      BY ONLY <3>1, SortedFacts
    <3> QED BY <3>2 DEF c, d, n
  <2>5. s.pos + 1 \in DOMAIN net'[0][p] /\ net'[0][p][s.pos + 1] = SetMsg(id, x, v)
    <3> DEFINE c == net[0][p]
               m == SetMsg(id, x, v)
    <3>1. c \in Seq(RpcMessage) /\ m \in RpcMessage /\ net'[0][p] = Append(c, m) /\ s.pos = Len(c)
      BY <1>2, <1>4, <1>9, <2>3, <2>4
    <3> HIDE DEF c, m
    <3> QED BY <3>1, SentLast DEF m
  <2>t. PICK t : t = [tab |-> Mine(store', p), next |-> counter'[0], pos |-> s.pos + 1]
    OBVIOUS
  <2>6. t \in State
    <3>1. Mine(store', p) \in Table
      BY MineTyped DEF Typed
    <3>2. counter'[0] \in Nat
      BY ProcFacts DEF Typed
    <3> QED BY <2>4, <2>t, <3>1, <3>2 DEF State
  <2>7. t.tab = SetPoint(Mine(store, p), id, x, v)
    BY <1>6, <1>9, <2>t, MineFacts
  <2>8. x \in DOMAIN Mine(store, p)[id]
    BY <1>7, <1>9 DEF Restricted, Part
  <2>9. Writes(net'[0][p], s.pos + 1, s.tab, t.tab)
    BY <1>7, <2>1, <2>5, <2>7, <2>8 DEF Writes, SetMsg
  <2>m. PICK m : m = Req("FUNC_SET", Owner[x])
    OBVIOUS
  <2>10. m \in Requests /\ OwnSet(p, m) /\ Notify(m)
    BY <1>1, <1>3, <1>9, <2>m DEF OwnSet, Req
  <2>11. Edits(p, call'.buf, m, s.tab, s.next, t.tab, t.next)
    BY <1>1, <2>1, <2>m, <2>t, <2>10 DEF Edits, Req, GridCalls, NoEdit
  <2>12. Executes(p, net'[0][p], call'.buf, m, s, t)
    BY <2>9, <2>10, <2>11, <2>t DEF Executes
  <2>13. Ends(p, t)'
    BY <1>1, <1>5, <2>4, <2>t DEF Ends, During
  <2>14. m.kind # "FUNC_GET"
    BY <2>m DEF Req
  <2> QED BY <1>1, <1>5, <2>4, <2>6, <2>10, <2>12, <2>13, <2>14, <2>s, ProgramAsks
<1> QED BY <1>8, <1>9

\* A broadcast of a call that changes grids as a whole or not at all.
LEMMA ContentsBroadcast ==
  ASSUME Typed, Typed', NEW p \in Client, NEW k, Replays(p, k), Control, pc[0] = "user",
         NEW m \in Requests, Notify(m), m.kind # "FUNC_SET",
         pc'[p] = pc[p], cur'[p] = cur[p], grids'[p] = grids[p], counter'[p] = counter[p],
         net' = net,
         Edits(p, call'.buf, m, Mine(store, p), counter[0], Mine(store', p), counter'[0])
  PROVE  \E h : Replays(p, h)'
<1>1. Ordered(p) /\ ~OwnSet(p, m) /\ net'[0][p] = net[0][p]
  BY DEF Control, OwnSet
<1> QED BY <1>1, AsksNoValue

LEMMA ContentsUser ==
  ASSUME Typed, Typed', Control, Fetching, AwaitClients, AvoidRemote, UserStep,
         NEW p \in Client, NEW k, Replays(p, k)
  PROVE  \E h : Replays(p, h)'
<1>0. p \in Proc /\ p # 0 /\ 0 \in Proc
  BY ProcFacts
<1>1. ASSUME NEW s \in Shape, MasterNew(s) PROVE \E h : Replays(p, h)'
  <2>1. /\ pc[0] = "user" /\ Notify(Req("FUNC_NEW", s)) /\ grids' = CreateGrid(grids, 0, s)
        /\ counter' = [counter EXCEPT ![0] = @ + 1]
        /\ store' = With(store, counter[0], [x \in s |-> Zero])
        /\ UNCHANGED <<net, pc, cur, call>>
    BY <1>1 DEF MasterNew, UserCalls
  <2>2. grids'[p] = grids[p] /\ counter'[p] = counter[p] /\ counter'[0] = counter[0] + 1
    BY <1>0, <2>1 DEF CreateGrid, Typed
  <2>3. s \in SUBSET Point
    BY MasterClientAssumption
  <2>4. store' = With(store, counter[0], Zeros(s))
    BY <2>1 DEF Zeros
  <2>m. PICK m : m = Req("FUNC_NEW", s)
    OBVIOUS
  <2>5. Edits(p, call'.buf, m, Mine(store, p), counter[0], Mine(store', p), counter'[0])
    BY <2>2, <2>3, <2>4, <2>m, GridEdited
  <2>6. m \in Requests /\ Notify(m) /\ m.kind # "FUNC_SET"
    BY <2>1, <2>3, <2>m, RequestFacts DEF Req
  <2> QED BY <2>1, <2>2, <2>5, <2>6, ContentsBroadcast
<1>2. ASSUME NEW id \in DOMAIN store, MasterDelete(id) PROVE \E h : Replays(p, h)'
  <2>1. /\ pc[0] = "user" /\ Notify(Req("FUNC_DELETE", id)) /\ grids' = DeleteGrid(grids, 0, id)
        /\ store' = Without(store, id)
        /\ UNCHANGED <<net, pc, cur, call, counter>>
    BY <1>2 DEF MasterDelete, UserCalls
  <2>2. grids'[p] = grids[p]
    BY <1>0, <2>1 DEF DeleteGrid, Typed
  <2>m. PICK m : m = Req("FUNC_DELETE", id)
    OBVIOUS
  <2>3. Edits(p, call'.buf, m, Mine(store, p), counter[0], Mine(store', p), counter'[0])
    BY <2>1, <2>m, GridEdited
  <2>4. m \in Requests /\ Notify(m) /\ m.kind # "FUNC_SET"
    BY <2>1, <2>m, RequestFacts, StoreFacts DEF Req, IdKinds
  <2> QED BY <2>1, <2>2, <2>3, <2>4, ContentsBroadcast
<1>3. ASSUME NEW id \in DOMAIN store, NEW buf \in [DOMAIN store[id] -> Data], MasterCopyin(id, buf)
      PROVE  \E h : Replays(p, h)'
  <2>1. /\ pc[0] = "user" /\ Notify(Req("FUNC_COPYIN", id))
        /\ grids' = [grids EXCEPT ![0][id] = Restricted(buf, 0)]
        /\ store' = [store EXCEPT ![id] = buf] /\ pc' = [pc EXCEPT ![0] = "GridCopyin"]
        /\ call' = [NoCall EXCEPT !.buf = buf]
        /\ UNCHANGED <<net, cur, counter>>
    BY <1>3 DEF MasterCopyin, UserCalls
  <2>2. grids'[p] = grids[p] /\ pc'[p] = pc[p]
    BY <1>0, <2>1 DEF Typed
  <2>3. call'.buf = buf
    BY <2>1 DEF NoCall
  <2>m. PICK m : m = Req("FUNC_COPYIN", id)
    OBVIOUS
  <2>4. Edits(p, call'.buf, m, Mine(store, p), counter[0], Mine(store', p), counter'[0])
    BY <2>1, <2>3, <2>m, GridEdited
  <2>5. m \in Requests /\ Notify(m) /\ m.kind # "FUNC_SET"
    BY <2>1, <2>m, RequestFacts, StoreFacts DEF Req, IdKinds
  <2> QED BY <2>1, <2>2, <2>4, <2>5, ContentsBroadcast
<1>4. ASSUME NEW id \in DOMAIN store, MasterCopyout(id) PROVE \E h : Replays(p, h)'
  <2>1. /\ pc[0] = "user" /\ Notify(Req("FUNC_COPYOUT", id))
        /\ pc' = [pc EXCEPT ![0] = "GridCopyout"]
        /\ UNCHANGED <<net, cur, counter, grids, store>>
    BY <1>4 DEF MasterCopyout, UserCalls
  <2>2. pc'[p] = pc[p]
    BY <1>0, <2>1 DEF Typed
  <2>m. PICK m : m = Req("FUNC_COPYOUT", id)
    OBVIOUS
  <2>3. Edits(p, call'.buf, m, Mine(store, p), counter[0], Mine(store', p), counter'[0])
    BY <2>1, <2>m, GridEdited DEF NoEdit
  <2>4. m \in Requests /\ Notify(m) /\ m.kind # "FUNC_SET"
    BY <2>1, <2>m, RequestFacts, StoreFacts DEF Req, IdKinds
  <2> QED BY <2>1, <2>2, <2>3, <2>4, ContentsBroadcast
<1>5. ASSUME NEW id \in DOMAIN store, NEW x \in DOMAIN store[id], NEW v \in Data,
             MasterSetRemote(id, x, v)
      PROVE  \E h : Replays(p, h)'
  BY <1>5, ContentsSetRemote
<1>6. ASSUME NEW id \in DOMAIN store, NEW x \in DOMAIN store[id], NEW v \in Data,
             MasterSetLocal(id, x, v)
      PROVE  \E h : Replays(p, h)'
  <2>1. /\ pc[0] = "user" /\ Owner[x] = 0 /\ store' = [store EXCEPT ![id][x] = v]
        /\ grids' = [grids EXCEPT ![0][id][x] = v]
        /\ UNCHANGED <<net, bcast, pc, cur, call, counter>>
    BY <1>6, MasterClientAssumption DEF MasterSetLocal, UserCalls, MayTouch
  <2>2. grids'[p] = grids[p]
    BY <1>0, <2>1 DEF Typed
  <2>3. Mine(store', p) = Mine(store, p)
    <3>1. store' = SetPoint(store, id, x, v)
      BY <2>1 DEF SetPoint
    <3>2. Owner[x] # p
      BY <1>0, <2>1
    <3> QED BY <3>1, <3>2, MineFacts
  <2>4. net[0][p] \in Seq(RpcMessage) /\ Extended(net[0][p], net[0][p])
    BY <1>0 DEF Typed, Nets, Extended
  <2>s. PICK s : s = k[1]
    OBVIOUS
  <2>5. Starts(p, s) /\ ~Waits(p)
    BY <2>1, <2>s DEF Replays, Waits
  <2>6. Starts(p, s)'
    BY <2>1, <2>2, <2>4, <2>5, StartsSame
  <2>t. PICK t : t = k[Len(bcast[p]) + 1]
    OBVIOUS
  <2>7. Ends(p, t)'
    BY <2>1, <2>3, <2>t DEF Replays, Ends, During
  <2>8. Replays(p, k)'
    BY <2>1, <2>4, <2>6, <2>7, <2>s, <2>t, ReplaySame
  <2> QED BY <2>8
<1>7. ASSUME NEW id \in DOMAIN store, NEW x \in DOMAIN store[id], MasterGet(id, x)
      PROVE  \E h : Replays(p, h)'
  <2>1. /\ pc[0] = "user" /\ Notify(Req("FUNC_GET", id))
        /\ pc' = [pc EXCEPT ![0] = "GridGet"] /\ cur' = [cur EXCEPT ![0] = id]
        /\ UNCHANGED <<counter, grids, store>>
    BY <1>7 DEF MasterGet, UserCalls
  <2>2. pc'[p] = pc[p] /\ cur'[p] = cur[p]
    BY <1>0, <2>1 DEF Typed
  <2>3. x \in Point /\ Request(x) \in RpcMessage /\ Request(x).kind \notin ValueKinds
    BY StoreFacts, MessageFacts DEF Request, ValueKinds
  <2>4. net'[0][p] = net[0][p] \/ net'[0][p] = Append(net[0][p], Request(x))
    <3>1. net'[0][p] = IF 0 = 0 /\ p = Owner[x] /\ p # 0 THEN Append(net[0][p], Request(x)) ELSE net[0][p]
      BY <1>0, <1>7, <2>3, MasterBegins
    <3> QED BY <3>1
  <2>5. \/ net'[0][p] = net[0][p]
        \/ \E y \in RpcMessage : y.kind \notin ValueKinds /\ net'[0][p] = Append(net[0][p], y)
    BY <2>3, <2>4
  <2>m. PICK m : m = Req("FUNC_GET", id)
    OBVIOUS
  <2>6. Edits(p, call'.buf, m, Mine(store, p), counter[0], Mine(store', p), counter'[0])
    BY <2>1, <2>m, GridEdited DEF NoEdit
  <2>7. m \in Requests /\ Notify(m) /\ ~OwnSet(p, m)
    BY <2>1, <2>m, RequestFacts, StoreFacts DEF Req, IdKinds, OwnSet
  <2>8. Ordered(p)
    BY DEF Control
  <2> QED BY <2>1, <2>2, <2>5, <2>6, <2>7, <2>8, AsksNoValue
<1>8. ASSUME NEW id \in DOMAIN store, MasterRun(id) PROVE \E h : Replays(p, h)'
  <2>1. /\ pc[0] = "user" /\ Notify(Req("FUNC_RUN", id)) /\ grids' = RunKernel(grids, 0, id)
        /\ store' = [store EXCEPT ![id] = [x \in DOMAIN @ |-> Kernel[@[x]]]]
        /\ UNCHANGED <<net, pc, cur, call, counter>>
    BY <1>8 DEF MasterRun, UserCalls
  <2>2. grids'[p] = grids[p]
    BY <1>0, <2>1 DEF RunKernel, Typed
  <2>3. store' = [store EXCEPT ![id] = Runs(store[id])]
    BY <2>1 DEF Runs
  <2>m. PICK m : m = Req("FUNC_RUN", id)
    OBVIOUS
  <2>4. Edits(p, call'.buf, m, Mine(store, p), counter[0], Mine(store', p), counter'[0])
    BY <2>1, <2>3, <2>m, GridEdited
  <2>5. m \in Requests /\ Notify(m) /\ m.kind # "FUNC_SET"
    BY <2>1, <2>m, RequestFacts, StoreFacts DEF Req, IdKinds
  <2> QED BY <2>1, <2>2, <2>4, <2>5, ContentsBroadcast
<1>9. ASSUME NEW id \in DOMAIN store, MasterReduce(id) PROVE \E h : Replays(p, h)'
  <2>1. /\ pc[0] = "user" /\ Notify(Req("FUNC_GRID_REDUCE", id))
        /\ pc' = [pc EXCEPT ![0] = "GridReduce"]
        /\ UNCHANGED <<net, cur, counter, grids, store>>
    BY <1>9 DEF MasterReduce, UserCalls
  <2>2. pc'[p] = pc[p]
    BY <1>0, <2>1 DEF Typed
  <2>m. PICK m : m = Req("FUNC_GRID_REDUCE", id)
    OBVIOUS
  <2>3. Edits(p, call'.buf, m, Mine(store, p), counter[0], Mine(store', p), counter'[0])
    BY <2>1, <2>m, GridEdited DEF NoEdit
  <2>4. m \in Requests /\ Notify(m) /\ m.kind # "FUNC_SET"
    BY <2>1, <2>m, RequestFacts, StoreFacts DEF Req, IdKinds
  <2> QED BY <2>1, <2>2, <2>3, <2>4, ContentsBroadcast
<1>10. ASSUME MasterFinalize PROVE \E h : Replays(p, h)'
  <2>1. /\ pc[0] = "user" /\ Notify(Req("FUNC_FINALIZE", 0))
        /\ pc' = [pc EXCEPT ![0] = "exit"]
        /\ UNCHANGED <<net, cur, counter, grids, store>>
    BY <1>10 DEF MasterFinalize, userVars
  <2>2. pc'[p] = pc[p]
    BY <1>0, <2>1 DEF Typed
  <2>m. PICK m : m = Req("FUNC_FINALIZE", 0)
    OBVIOUS
  <2>3. Edits(p, call'.buf, m, Mine(store, p), counter[0], Mine(store', p), counter'[0])
    BY <2>1, <2>m, GridEdited
  <2>4. m \in Requests /\ Notify(m) /\ m.kind # "FUNC_SET"
    BY <2>1, <2>m, RequestFacts DEF Req, IdKinds
  <2> QED BY <2>1, <2>2, <2>3, <2>4, ContentsBroadcast
<1> QED BY <1>1, <1>2, <1>3, <1>4, <1>5, <1>6, <1>7, <1>8, <1>9, <1>10 DEF UserStep

-----------------------------------------------------------------------------
(* Steps that do not ask p for anything.                                    *)

LEMMA ReplayElsewhere ==
  ASSUME Typed, Typed', NEW p \in Client, NEW k, Replays(p, k),
         bcast'[p] = bcast[p], pc'[p] = pc[p], cur'[p] = cur[p], grids'[p] = grids[p],
         counter'[p] = counter[p], counter'[0] = counter[0], store' = store,
         Waits(p) => Waits(p)' /\ call'.buf = call.buf,
         Has(bcast[p], "FUNC_COPYIN") => call'.buf = call.buf,
         Extended(net[0][p], net'[0][p]),
         \A n : Sorted(net[0][p], n) => Sorted(net'[0][p], n)
  PROVE  \E h : Replays(p, h)'
<1>1. net[0][p] \in Seq(RpcMessage) /\ net'[0][p] \in Seq(RpcMessage)
  BY ProcFacts DEF Typed, Nets
<1>s. PICK s : s = k[1]
  OBVIOUS
<1>2. Starts(p, s)
  BY <1>s DEF Replays
<1>3. Starts(p, s)'
  BY <1>1, <1>2, StartsSame
<1>t. PICK t : t = k[Len(bcast[p]) + 1]
  OBVIOUS
<1>4. Ends(p, t)
  BY <1>t DEF Replays
<1>5. Ends(p, t)'
  BY <1>4 DEF Ends, During
<1>6. Replays(p, k)'
  BY <1>3, <1>5, <1>s, <1>t, ReplaySame
<1> QED BY <1>6

LEMMA SortedSame == \A c : Extended(c, c) /\ \A n : Sorted(c, n) => Sorted(c, n)
BY DEF Extended

\* The master sends p its part of the buffer, or has nothing to send to p.
LEMMA ContentsCopyinData ==
  ASSUME Typed, Typed', Control, NEW p \in Client, NEW k, Replays(p, k), Reporting(p),
         MasterCopyinNext(p)
  PROVE  \E h : Replays(p, h)'
<1> DEFINE part == Part(DOMAIN call.buf, p)
           m    == DataMsg([x \in part |-> call.buf[x]])
<1>0. p \in Proc /\ p # 0 /\ 0 \in Proc /\ net \in Nets
  BY ProcFacts DEF Typed
<1>1. /\ pc[0] = "GridCopyin" /\ p = call.next /\ Pending(net, p, 0)
      /\ Oldest(net, p, 0).kind = "PART"
      /\ UNCHANGED <<ld, bcast, partials, pc, cur, grids, counter, remote, store, calls>>
      /\ call'.buf = call.buf
  BY DEF MasterCopyinNext, userVars, Typed
<1>2. net[p][0] \in Seq(RpcMessage) /\ net[p][0] # << >> /\ Head(net[p][0]).kind = "PART"
  BY <1>0, <1>1 DEF Nets, Pending, Oldest
<1>3. Has(net[p][0], "PART")
  <2> DEFINE c == net[p][0]
  <2>1. c \in Seq(RpcMessage) /\ c # << >> /\ Head(c).kind = "PART"
    BY <1>2
  <2> HIDE DEF c
  <2>2. Has(c, Head(c).kind)
    BY ONLY <2>1, TakenKinds
  <2>3. Has(c, "PART")
    BY ONLY <2>1, <2>2
  <2> QED BY <2>3 DEF c
<1>4. bcast[p] = << >> /\ call.next <= p
  BY <1>3 DEF Control, Answers
<1>5. /\ net[p][0] = <<PartMsg(part)>>
      /\ pc[p] = IF part = {} THEN "Listen" ELSE "GridCopyin"
      /\ pc[p] = "GridCopyin" => net[0][p] = << >>
  BY <1>1, <1>4 DEF Reporting
<1>6. Oldest(net, p, 0).body = part
  BY <1>5 DEF Oldest, PartMsg
<1>7. CASE part = {}
  <2>1. net' = Drop(net, p, 0)
    BY <1>6, <1>7 DEF MasterCopyinNext
  <2>2. net'[0][p] = net[0][p]
    BY <1>0, <1>1, <2>1, DropFacts
  <2>3. ~Waits(p)
    BY <1>5, <1>7 DEF Waits
  <2>4. Extended(net[0][p], net'[0][p]) /\ \A n : Sorted(net[0][p], n) => Sorted(net'[0][p], n)
    BY <2>2, SortedSame
  <2> QED BY <1>1, <2>3, <2>4, ReplayElsewhere
<1>8. CASE part # {}
  <2>1. net' = Put(Drop(net, p, 0), 0, p, m)
    BY <1>6, <1>8 DEF MasterCopyinNext
  <2>2. [x \in part |-> call.buf[x]] = Restricted(call.buf, p)
    BY DEF Restricted
  <2>3. m \in RpcMessage
    BY <2>2, PartEdits, MessageFacts DEF Typed
  <2>4. net[0][p] = << >> /\ pc[p] = "GridCopyin"
    BY <1>5, <1>8
  <2>5. net'[0][p] = <<m>>
    <3> HIDE DEF m
    <3> DEFINE n == Drop(net, p, 0)
    <3>1. n \in Nets /\ n[0][p] = net[0][p]
      BY <1>0, <1>1, DropFacts
    <3>2. net' = Put(n, 0, p, m)
      BY <2>1
    <3> HIDE DEF n
    <3>3. net'[0][p] = Append(n[0][p], m)
      BY ONLY <1>0, <2>3, <3>1, <3>2, PutFacts, ZenonT(30)
    <3> QED BY <2>4, <3>1, <3>3
  <2>s. PICK s : s = k[1]
    OBVIOUS
  <2>6. Starts(p, s) /\ s \in State /\ s.pos = 0 /\ s = k[Len(bcast[p]) + 1]
    <3>1. Starts(p, s) /\ s = k[Len(bcast[p]) + 1]
      BY <1>4, <2>s DEF Replays
    <3>2. k \in Seq(State) /\ Len(k) = 1
      BY <1>4 DEF Replays, Chain
    <3>3. s \in State
      BY <2>s, <3>2
    <3>4. s.pos = 0
      BY <2>4, <3>1 DEF Starts
    <3> QED BY <3>1, <3>3, <3>4
  <2>7. Ends(p, s)
    BY <2>6 DEF Replays
  <2>t. PICK t : t = [tab |-> s.tab, next |-> s.next, pos |-> 1]
    OBVIOUS
  <2>8. t \in State /\ <<t>> \in Seq(State) /\ Len(<<t>>) = 1 /\ <<t>>[1] = t
    BY <2>6, <2>t DEF State
  <2>9. Starts(p, t)'
    <3>1. m.kind = "DATA" /\ m.body = Restricted(call.buf, p)
      BY <2>2 DEF DataMsg
    <3>2. /\ cur[p] \in DOMAIN grids[p] /\ s.next = counter[p]
          /\ s.tab = [grids[p] EXCEPT ![cur[p]] = Restricted(call.buf, p)]
      BY <2>4, <2>6 DEF Starts
    <3>3. net'[0][p] # << >> /\ net'[0][p][1] = m
      BY <2>5
    <3> HIDE DEF m
    <3> QED BY <1>1, <2>4, <2>t, <3>1, <3>2, <3>3 DEF Starts
  <2>10. Ends(p, t)'
    <3>1. Sorted(<<m>>, 1)
      BY DEF Sorted, DataMsg
    <3>2. ~During(p)'
      BY <1>1, <2>4 DEF During
    <3> HIDE DEF m
    <3> QED BY <1>1, <2>5, <2>7, <2>t, <3>1, <3>2 DEF Ends
  <2>11. Chain(p, net'[0][p], call'.buf, bcast'[p], <<t>>)
    <3>1. bcast'[p] = << >> /\ Len(bcast'[p]) = 0
      BY <1>1, <1>4
    <3>2. t.pos <= t.pos
      BY <2>t
    <3> HIDE DEF m
    <3> QED BY <2>8, <3>1, <3>2 DEF Chain
  <2>12. Len(bcast'[p]) + 1 = 1
    BY <1>1, <1>4
  <2>13. Replays(p, <<t>>)'
    BY <2>8, <2>9, <2>10, <2>11, <2>12 DEF Replays
  <2> QED BY <2>13
<1> QED BY <1>7, <1>8

LEMMA ContentsMaster ==
  ASSUME Typed, Typed', Control, NEW p \in Client, NEW k, Replays(p, k), Reporting(p),
         \/ \E i \in Client : MasterCopyinNext(i) \/ MasterCopyoutNext(i)
         \/ MasterCopyinReturn \/ MasterCopyoutReturn \/ MasterGetReturn \/ MasterReduceReturn
  PROVE  (\E h : Replays(p, h)') /\ Reporting(p)'
<1>0. /\ p \in Proc /\ p # 0 /\ 0 \in Proc /\ net \in Nets /\ p \in Nat /\ p < NProcs /\ NProcs \in Nat
      /\ call.next \in Nat
  BY ProcFacts DEF Typed, Client, Proc
<1>1. Ordered(p) /\ Answers(p)
  BY DEF Control
<1>2. pc[0] # "GridCopyin" => ~Waits(p) /\ ~Has(bcast[p], "FUNC_COPYIN")
  BY <1>1 DEF Waits, Ordered, Has, Answered, CallOf
<1>3. ASSUME NEW i \in Client, MasterCopyinNext(i)
      PROVE  (\E h : Replays(p, h)') /\ Reporting(p)'
  <2>1. /\ pc[0] = "GridCopyin" /\ i = call.next /\ Pending(net, i, 0)
        /\ Oldest(net, i, 0).kind = "PART"
        /\ UNCHANGED <<ld, bcast, partials, pc, cur, grids, counter, remote, store, calls>>
        /\ call'.buf = call.buf /\ call'.next = call.next + 1
    BY <1>3 DEF MasterCopyinNext, userVars, Typed
  <2>2. CASE i = p
    <3>1. \E h : Replays(p, h)'
      BY <1>3, <2>2, ContentsCopyinData
    <3>2. Reporting(p)'
      BY <1>0, <2>1, <2>2 DEF Reporting
    <3> QED BY <3>1, <3>2
  <2>3. CASE i # p
    <3>1. net'[0][p] = net[0][p] /\ net'[p][0] = net[p][0]
      <4> DEFINE n == Drop(net, i, 0)
                 m == DataMsg([x \in Oldest(net, i, 0).body |-> call.buf[x]])
      <4>1. i \in Proc /\ i # 0
        BY ProcFacts
      <4>2. n \in Nets /\ n[0][p] = net[0][p] /\ n[p][0] = net[p][0]
        BY <1>0, <2>1, <2>3, <4>1, DropFacts
      <4>3. net' = n \/ net' = Put(n, 0, i, m)
        BY <1>3 DEF MasterCopyinNext
      <4> HIDE DEF n, m
      <4>4. net' = n \/ \E e : net' = [n EXCEPT ![0][i] = e]
        BY ONLY <4>3 DEF Put
      <4>5. CASE net' = n
        BY <4>2, <4>5
      <4>6. ASSUME NEW e, net' = [n EXCEPT ![0][i] = e]
            PROVE  net'[0][p] = n[0][p] /\ net'[p][0] = n[p][0]
        BY ONLY <1>0, <2>3, <4>1, <4>2, <4>6 DEF Nets
      <4> QED BY <4>2, <4>4, <4>5, <4>6
    <3>2. Waits(p) => Waits(p)'
      BY <1>0, <2>1, <2>3, <3>1 DEF Waits
    <3>3. Extended(net[0][p], net'[0][p]) /\ \A n : Sorted(net[0][p], n) => Sorted(net'[0][p], n)
      BY <3>1, SortedSame
    <3>4. \E h : Replays(p, h)'
      BY <2>1, <3>2, <3>3, ReplayElsewhere
    <3>5. Reporting(p)'
      BY <1>0, <2>1, <2>3, <3>1 DEF Reporting
    <3> QED BY <3>4, <3>5
  <2> QED BY <2>2, <2>3
<1>4. ASSUME NEW i \in Client, MasterCopyoutNext(i)
      PROVE  (\E h : Replays(p, h)') /\ Reporting(p)'
  <2>1. /\ pc[0] = "GridCopyout" /\ Pending(net, i, 0) /\ net' = Drop(net, i, 0)
        /\ UNCHANGED <<ld, bcast, partials, pc, cur, grids, counter, remote, store, calls>>
    BY <1>4 DEF MasterCopyoutNext, userVars
  <2>2. net'[0][p] = net[0][p]
    BY <1>0, <2>1, ProcFacts, DropFacts
  <2>3. Extended(net[0][p], net'[0][p]) /\ \A n : Sorted(net[0][p], n) => Sorted(net'[0][p], n)
    BY <2>2, SortedSame
  <2>4. \E h : Replays(p, h)'
    BY <1>2, <2>1, <2>3, ReplayElsewhere
  <2> QED BY <2>1, <2>4 DEF Reporting
<1>5. ASSUME MasterCopyinReturn \/ MasterCopyoutReturn \/ MasterGetReturn \/ MasterReduceReturn
      PROVE  (\E h : Replays(p, h)') /\ Reporting(p)'
  <2>1. /\ net' = net /\ pc' = [pc EXCEPT ![0] = "user"]
        /\ UNCHANGED <<bcast, cur, grids, counter, store>>
        /\ pc[0] = "GridCopyin" => call.next = NProcs
    BY <1>5 DEF MasterCopyinReturn, MasterCopyoutReturn, MasterGetReturn, MasterReduceReturn, EndLoad
  <2>2. pc'[p] = pc[p] /\ pc'[0] = "user"
    BY <1>0, <2>1 DEF Typed
  <2>3. ~Waits(p) /\ ~Has(bcast[p], "FUNC_COPYIN")
    <3>1. CASE pc[0] = "GridCopyin"
      <4>1. p < call.next /\ ~(call.next <= p)
        BY <1>0, <2>1, <3>1
      <4>2. bcast[p] = << >>
        BY <1>1, <3>1, <4>1 DEF Answers
      <4> QED BY <4>1, <4>2 DEF Waits, Has
    <3> QED BY <1>2, <3>1
  <2>4. Extended(net[0][p], net'[0][p]) /\ \A n : Sorted(net[0][p], n) => Sorted(net'[0][p], n)
    BY <2>1, SortedSame
  <2>5. \E h : Replays(p, h)'
    BY <2>1, <2>2, <2>3, <2>4, ReplayElsewhere
  <2> QED BY <2>2, <2>5 DEF Reporting
<1> QED BY <1>3, <1>4, <1>5

-----------------------------------------------------------------------------
(* A client takes a request.                                                *)

\* What p holds when it takes a request and what it is to hold then.
LEMMA TakingFacts ==
  ASSUME Typed, Control, NEW p \in Client, NEW k, Replays(p, k), NEW kind, Takes(p, kind)
  PROVE  /\ bcast[p] # << >> /\ bcast'[p] = Tail(bcast[p]) /\ bcast[p][1].kind = kind
         /\ bcast[p][1].opt = Opt(p) /\ pc[p] = "Listen"
         /\ k[1].pos = 0 /\ k[1].tab = grids[p] /\ k[1].next = counter[p]
         /\ Edits(p, call.buf, bcast[p][1], grids[p], counter[p], k[2].tab, k[2].next)
         /\ ~OwnSet(p, bcast[p][1]) => k[2].pos = 0
         /\ OwnSet(p, bcast[p][1]) => Writes(net[0][p], 1, grids[p], k[2].tab) /\ k[2].pos = 1
         /\ k[Len(bcast[p]) + 1].pos >= k[2].pos
<1>1. /\ bcast[p] # << >> /\ bcast'[p] = Tail(bcast[p]) /\ bcast[p][1].kind = kind
      /\ bcast[p][1].opt = Opt(p) /\ pc[p] = "Listen" /\ bcast[p] \in Seq(Requests)
  BY TakesFacts
<1>2. k[1].pos = 0 /\ k[1].tab = grids[p] /\ k[1].next = counter[p]
  BY <1>1 DEF Replays, Starts
<1>3. Len(bcast[p]) \in Nat /\ Len(bcast[p]) > 0
  BY <1>1, TakenFirst
<1>4. Executes(p, net[0][p], call.buf, bcast[p][1], k[1], k[2])
  BY <1>3 DEF Replays, Chain
<1>5. k[Len(bcast[p]) + 1].pos >= k[2].pos
  <2> DEFINE n == Len(bcast[p])
  <2>1. /\ \A i, j \in 1 .. n + 1 : i <= j => k[i].pos <= k[j].pos
        /\ k \in Seq(State) /\ Len(k) = n + 1
    BY DEF Replays, Chain
  <2>2. n \in Nat /\ n > 0
    BY <1>3
  <2> HIDE DEF n
  <2>3. 2 \in 1 .. n + 1 /\ n + 1 \in 1 .. n + 1 /\ 2 <= n + 1
    BY <2>2
  <2>4. k[2].pos <= k[n + 1].pos /\ k[2] \in State /\ k[n + 1] \in State
    BY <2>1, <2>3
  <2>5. k[2].pos \in Nat /\ k[n + 1].pos \in Nat
    BY <2>4 DEF State
  <2>6. k[n + 1].pos >= k[2].pos
    BY <2>4, <2>5
  <2> QED BY <2>6 DEF n
<1> QED BY <1>1, <1>2, <1>4, <1>5 DEF Executes

\* What GridCopyin has to find when p takes its request.
LEMMA CopyinTaken ==
  ASSUME Typed, Control, Fetching, NEW p \in Client, NEW k, Replays(p, k), ClientCopyin(p)
  PROVE  /\ bcast'[p] = << >> /\ net[0][p] = << >> /\ net[p][0] = << >>
         /\ pc[0] = "GridCopyin" /\ call.next <= p
<1>0. /\ p \in Proc /\ p # 0 /\ 0 \in Proc /\ p \in Nat /\ call.next \in Nat
  BY ProcFacts DEF Typed, Client, Proc
<1>1. Takes(p, "FUNC_COPYIN")
  BY DEF ClientCopyin
<1>2. /\ bcast[p] # << >> /\ bcast'[p] = Tail(bcast[p]) /\ bcast[p][1].kind = "FUNC_COPYIN"
      /\ pc[p] = "Listen" /\ ~OwnSet(p, bcast[p][1]) /\ k[2].pos = 0
  BY <1>1, TakingFacts DEF OwnSet
<1>3. bcast[p] \in Seq(Requests) /\ Len(bcast[p]) \in Nat /\ Len(bcast[p]) > 0
      /\ DOMAIN bcast[p] = 1 .. Len(bcast[p])
  BY <1>1, <1>2, TakesFacts, TakenFirst
<1>4. Len(bcast[p]) = 1 /\ pc[0] = "GridCopyin"
  <2>1. Ordered(p) /\ 1 \in DOMAIN bcast[p]
    BY <1>3 DEF Control
  <2>2. 1 = Len(bcast[p]) /\ "FUNC_COPYIN" = CallOf(pc[0])
    BY <1>2, <2>1 DEF Ordered, Answered
  <2> QED BY <2>2 DEF CallOf
<1>5. bcast'[p] = << >>
  BY <1>2, <1>3, <1>4, TakenFirst
<1>6. call.next <= p
  BY <1>0, <1>2, <1>4 DEF Control, Answers
<1>7. ~Before(p) /\ ~During(p) /\ ~During(0) /\ ~Before(0)
  BY <1>2, <1>3, <1>4 DEF Before, During, Has, Typed
<1>8. net[p][0] = << >>
  <2>1. Only(net[p][0], {"PART", "DATA", "FETCH_REPLY", "DONE"})
    BY <1>0 DEF Fetching, RequestInv, Channels, Allowed
  <2>2. ~Has(net[p][0], "FETCH_REPLY") /\ ~Has(net[p][0], "DONE")
    BY <1>0, <1>7 DEF Fetching, RequestInv, DoneInv, DoneFrom, Asked
  <2>3. ~Has(net[p][0], "PART") /\ ~Has(net[p][0], "DATA")
    BY <1>2 DEF Control, Answers
  <2>4. net[p][0] \in Seq(RpcMessage)
    BY <1>0 DEF Typed, Nets
  <2>5. net[p][0] # << >> => 1 \in DOMAIN net[p][0]
    BY <2>4, TakenFirst
  <2> QED BY <2>1, <2>2, <2>3, <2>5 DEF Only, Has
<1>9. net[0][p] = << >>
  <2>1. Only(net[0][p], {"SET", "DATA", "FETCH_REQUEST", "DONE"})
    BY <1>0 DEF Fetching, RequestInv, Channels, Allowed
  <2>2. ~Has(net[0][p], "FETCH_REQUEST") /\ ~Has(net[0][p], "DONE")
    BY <1>0, <1>7 DEF Fetching, RequestInv, DoneInv, DoneFrom, Asked
  <2>3. Sorted(net[0][p], 0)
    BY <1>2, <1>4 DEF Replays, Ends
  <2>4. net[0][p] \in Seq(RpcMessage)
    BY <1>0 DEF Typed, Nets
  <2>5. net[0][p] # << >> => 1 \in DOMAIN net[0][p]
    BY <2>4, TakenFirst
  <2> QED BY <2>1, <2>2, <2>3, <2>5 DEF Only, Has, Sorted
<1> QED BY <1>4, <1>5, <1>6, <1>8, <1>9

\* The method p executes when it has taken a request leads to what the request
\* was to make of its grids.
LEMMA ContentsTakes ==
  ASSUME Typed, Typed', Control, Fetching, NEW p \in Client, NEW k, Replays(p, k),
         \/ ClientNew(p) \/ ClientDelete(p) \/ ClientCopyin(p) \/ ClientCopyout(p)
         \/ ClientGet(p) \/ ClientSet(p) \/ ClientRun(p) \/ ClientReduce(p) \/ ClientFinalize(p)
  PROVE  \E h : Replays(p, h)'
<1>0. p \in Proc /\ p # 0 /\ 0 \in Proc /\ net \in Nets
  BY ProcFacts DEF Typed
<1>f. call' = call /\ store' = store /\ (ClientCopyin(p) \/ ClientCopyout(p) \/ net' = net)
  BY ClientBegins DEF ClientNew, ClientDelete, ClientCopyin, ClientCopyout, ClientGet, ClientSet,
    ClientRun, ClientReduce, ClientFinalize, clientFrame, userVars
<1>s. PICK s : s = k[2]
  OBVIOUS
<1>t. PICK t : t = k[1]
  OBVIOUS
<1>m. PICK m : m = bcast[p][1]
  OBVIOUS
<1>T. ASSUME NEW kind, Takes(p, kind)
      PROVE  /\ bcast[p] # << >> /\ bcast'[p] = Tail(bcast[p]) /\ m.kind = kind
             /\ m.opt = Opt(p) /\ pc[p] = "Listen" /\ t.pos = 0
             /\ Edits(p, call.buf, m, grids[p], counter[p], s.tab, s.next)
             /\ ~OwnSet(p, m) => s.pos = 0
             /\ OwnSet(p, m) => Writes(net[0][p], 1, grids[p], s.tab) /\ s.pos = 1
  BY <1>s, <1>t, <1>m, <1>T, TakingFacts
<1>E. ASSUME NEW kind, Takes(p, kind), net'[0][p] = net[0][p], counter'[0] = counter[0],
             During(p)' => kind = "FUNC_GET", Starts(p, s)'
      PROVE  \E h : Replays(p, h)'
  <2>1. Starts(p, k[2])'
    BY <1>s, <1>E
  <2>2. bcast[p] # << >> /\ bcast'[p] = Tail(bcast[p]) /\ bcast[p][1].kind = kind /\ k[1].pos = 0
    BY <1>E, <1>T, <1>m, <1>t
  <2>3. Replays(p, Rest(k))'
    BY <1>E, <1>f, <2>1, <2>2, ReplayTakes
  <2> QED BY <2>3
<1>1. CASE ClientNew(p)
  <2>1. /\ Takes(p, "FUNC_NEW") /\ grids' = CreateGrid(grids, p, Opt(p))
        /\ counter' = [counter EXCEPT ![p] = @ + 1] /\ UNCHANGED <<net, pc, cur>>
    BY <1>1 DEF ClientNew
  <2>2. m.kind = "FUNC_NEW" /\ m.opt = Opt(p) /\ ~OwnSet(p, m) /\ s.pos = 0 /\ pc[p] = "Listen"
        /\ s.tab = With(grids[p], counter[p], Zeros(Part(Opt(p), p))) /\ s.next = counter[p] + 1
    BY <2>1, <1>T DEF Edits, OwnSet
  <2>3. grids'[p] = With(grids[p], counter[p], Zeros(Part(Opt(p), p))) /\ counter'[p] = counter[p] + 1
        /\ counter'[0] = counter[0]
    BY <1>0, <2>1 DEF CreateGrid, Typed, Zeros
  <2>4. Starts(p, s)' /\ ~During(p)'
    BY <2>1, <2>2, <2>3 DEF Starts, During
  <2> QED BY <1>E, <2>1, <2>3, <2>4
<1>2. CASE ClientDelete(p)
  <2>1. /\ Takes(p, "FUNC_DELETE") /\ grids' = DeleteGrid(grids, p, Opt(p))
        /\ UNCHANGED <<net, pc, cur, counter>>
    BY <1>2 DEF ClientDelete
  <2>2. m.kind = "FUNC_DELETE" /\ m.opt = Opt(p) /\ ~OwnSet(p, m) /\ s.pos = 0 /\ pc[p] = "Listen"
        /\ s.tab = Without(grids[p], Opt(p)) /\ s.next = counter[p]
    BY <2>1, <1>T DEF Edits, OwnSet
  <2>3. grids'[p] = Without(grids[p], Opt(p))
    BY <1>0, <2>1 DEF DeleteGrid, Typed
  <2>4. Starts(p, s)' /\ ~During(p)'
    BY <2>1, <2>2, <2>3 DEF Starts, During
  <2> QED BY <1>E, <2>1, <2>4
<1>3. CASE ClientCopyin(p)
  <2> DEFINE part == DOMAIN grids[p][Opt(p)]
  <2>1. /\ Takes(p, "FUNC_COPYIN") /\ Knows(p, Opt(p))
        /\ net' = Put(net, p, 0, PartMsg(part))
        /\ pc' = [pc EXCEPT ![p] = IF part = {} THEN "Listen" ELSE "GridCopyin"]
        /\ cur' = [cur EXCEPT ![p] = Opt(p)] /\ UNCHANGED <<grids, counter>>
    BY <1>3 DEF ClientCopyin
  <2>2. m.kind = "FUNC_COPYIN" /\ m.opt = Opt(p) /\ ~OwnSet(p, m) /\ s.pos = 0 /\ pc[p] = "Listen"
        /\ s.tab = [grids[p] EXCEPT ![Opt(p)] = Restricted(call.buf, p)] /\ s.next = counter[p]
        /\ part = Part(DOMAIN call.buf, p) /\ Opt(p) \in DOMAIN grids[p]
    BY <2>1, <1>T DEF Edits, OwnSet, GridCalls
  <2>3. grids[p] \in Table /\ grids[p][Opt(p)] \in PartFun
    BY <1>0, <2>2, TableFacts DEF Typed
  <2>4. net'[0][p] = net[0][p]
    <3> DEFINE y == PartMsg(part)
    <3>1. y \in RpcMessage
      BY <2>3, PartFunFacts, MessageFacts
    <3>2. net' = Put(net, p, 0, y)
      BY <2>1
    <3> HIDE DEF y
    <3> QED BY ONLY <1>0, <3>1, <3>2, PutFacts
  <2>5. /\ cur'[p] = Opt(p) /\ pc'[0] = pc[0] /\ grids'[p] = grids[p] /\ counter'[p] = counter[p]
        /\ pc'[p] = IF part = {} THEN "Listen" ELSE "GridCopyin"
    BY <1>0, <2>1 DEF Typed
  <2>6. CASE part = {}
    <3>1. Restricted(call.buf, p) = grids[p][Opt(p)]
      <4> DEFINE f == grids[p][Opt(p)]
                 b == call.buf
      <4>1. f = [x \in DOMAIN f |-> f[x]] /\ DOMAIN f = {}
        BY <2>3, <2>6, PartFunFacts
      <4>2. Part(DOMAIN b, p) = {}
        BY <2>2, <2>6
      <4> HIDE DEF f, b
      <4>3. Restricted(b, p) = f
        BY <4>1, <4>2 DEF Restricted
      <4> QED BY <4>3 DEF f, b
    <3>2. s.tab = grids[p]
      BY <2>2, <2>3, <3>1, TableFacts
    <3>3. Starts(p, s)'
      BY <2>2, <2>5, <2>6, <3>2 DEF Starts
    <3> QED BY <1>E, <2>1, <2>4, <2>5, <2>6, <3>3 DEF During
  <2>7. CASE part # {}
    <3>1. /\ bcast'[p] = << >> /\ net[0][p] = << >> /\ pc[0] = "GridCopyin" /\ call.next <= p
      BY <1>3, CopyinTaken
    <3>2. Waits(p)'
      BY <1>f, <2>4, <2>5, <2>7, <3>1 DEF Waits
    <3>3. Starts(p, s)'
      BY <1>f, <2>2, <2>5, <2>7, <3>2 DEF Starts
    <3> QED BY <1>E, <2>1, <2>4, <2>5, <2>7, <3>3 DEF During
  <2> QED BY <2>6, <2>7
<1>4. CASE ClientCopyout(p)
  <2>1. /\ Takes(p, "FUNC_COPYOUT") /\ Knows(p, Opt(p))
        /\ net' = Put(net, p, 0, DataMsg(grids[p][Opt(p)]))
        /\ UNCHANGED <<pc, cur, grids, counter>>
    BY <1>4 DEF ClientCopyout
  <2>2. m.kind = "FUNC_COPYOUT" /\ ~OwnSet(p, m) /\ s.pos = 0 /\ pc[p] = "Listen"
        /\ s.tab = grids[p] /\ s.next = counter[p]
    BY <2>1, <1>T DEF Edits, OwnSet, NoEdit
  <2>3. grids[p] \in Table /\ grids[p][Opt(p)] \in PartFun
    BY <1>0, <2>1, TableFacts DEF Typed, Knows
  <2>4. net'[0][p] = net[0][p]
    <3> DEFINE y == DataMsg(grids[p][Opt(p)])
    <3>1. y \in RpcMessage
      BY <2>3, MessageFacts
    <3>2. net' = Put(net, p, 0, y)
      BY <2>1
    <3> HIDE DEF y
    <3> QED BY ONLY <1>0, <3>1, <3>2, PutFacts
  <2>5. Starts(p, s)' /\ ~During(p)'
    BY <2>1, <2>2 DEF Starts, During
  <2> QED BY <1>E, <2>1, <2>4, <2>5
<1>5. CASE ClientGet(p)
  <2>1. /\ Takes(p, "FUNC_GET") /\ pc' = [pc EXCEPT ![p] = "GridGet"]
        /\ UNCHANGED <<grids, counter>>
    BY <1>5 DEF ClientGet
  <2>2. m.kind = "FUNC_GET" /\ ~OwnSet(p, m) /\ s.pos = 0 /\ pc[p] = "Listen"
        /\ s.tab = grids[p] /\ s.next = counter[p]
    BY <2>1, <1>T DEF Edits, OwnSet, NoEdit
  <2>3. net' = net /\ pc'[p] = "GridGet"
    BY <1>0, <1>5, <2>1, ClientBegins DEF Typed
  <2>4. Starts(p, s)'
    BY <2>1, <2>2, <2>3 DEF Starts
  <2> QED BY <1>E, <2>1, <2>3, <2>4
<1>6. CASE ClientSet(p)
  <2>1. /\ Takes(p, "FUNC_SET")
        /\ pc' = [pc EXCEPT ![p] = IF Opt(p) = p THEN "GridSet" ELSE "Listen"]
        /\ UNCHANGED <<net, grids, counter>>
    BY <1>6 DEF ClientSet
  <2>2. /\ m.kind = "FUNC_SET" /\ m.opt = Opt(p) /\ pc[p] = "Listen" /\ s.next = counter[p]
        /\ ~OwnSet(p, m) => s.tab = grids[p] /\ s.pos = 0
        /\ OwnSet(p, m) => Writes(net[0][p], 1, grids[p], s.tab) /\ s.pos = 1
    BY <2>1, <1>T DEF Edits
  <2>3. pc'[p] = IF Opt(p) = p THEN "GridSet" ELSE "Listen"
    BY <1>0, <2>1 DEF Typed
  <2>4. OwnSet(p, m) <=> Opt(p) = p
    BY <2>2 DEF OwnSet
  <2>5. Starts(p, s)' /\ ~During(p)'
    BY <2>1, <2>2, <2>3, <2>4 DEF Starts, During
  <2> QED BY <1>E, <2>1, <2>5
<1>7. CASE ClientRun(p)
  <2>1. /\ Takes(p, "FUNC_RUN") /\ Knows(p, Opt(p)) /\ grids' = RunKernel(grids, p, Opt(p))
        /\ UNCHANGED <<net, pc, cur, counter>>
    BY <1>7 DEF ClientRun
  <2>2. m.kind = "FUNC_RUN" /\ m.opt = Opt(p) /\ ~OwnSet(p, m) /\ s.pos = 0 /\ pc[p] = "Listen"
        /\ s.tab = [grids[p] EXCEPT ![Opt(p)] = Runs(grids[p][Opt(p)])] /\ s.next = counter[p]
    BY <2>1, <1>T DEF Edits, OwnSet
  <2>3. grids'[p] = [grids[p] EXCEPT ![Opt(p)] = Runs(grids[p][Opt(p)])]
    <3>1. grids' = [grids EXCEPT ![p][Opt(p)] =
                      [x \in DOMAIN grids[p][Opt(p)] |-> Kernel[grids[p][Opt(p)][x]]]]
      BY <1>0, <2>1, KernelFacts DEF Knows
    <3> QED BY <1>0, <3>1 DEF Typed, Runs
  <2>4. Starts(p, s)' /\ ~During(p)'
    BY <2>1, <2>2, <2>3 DEF Starts, During
  <2> QED BY <1>E, <2>1, <2>4
<1>8. CASE ClientReduce(p)
  <2>1. Takes(p, "FUNC_GRID_REDUCE") /\ UNCHANGED <<net, pc, cur, grids, counter>>
    BY <1>8 DEF ClientReduce
  <2>2. m.kind = "FUNC_GRID_REDUCE" /\ ~OwnSet(p, m) /\ s.pos = 0 /\ pc[p] = "Listen"
        /\ s.tab = grids[p] /\ s.next = counter[p]
    BY <2>1, <1>T DEF Edits, OwnSet, NoEdit
  <2>3. Starts(p, s)' /\ ~During(p)'
    BY <2>1, <2>2 DEF Starts, During
  <2> QED BY <1>E, <2>1, <2>3
<1>9. CASE ClientFinalize(p)
  <2>1. /\ Takes(p, "FUNC_FINALIZE") /\ pc' = [pc EXCEPT ![p] = "exit"]
        /\ UNCHANGED <<net, cur, grids, counter>>
    BY <1>9 DEF ClientFinalize
  <2>2. m.kind = "FUNC_FINALIZE" /\ ~OwnSet(p, m) /\ s.pos = 0 /\ pc[p] = "Listen"
        /\ s.tab = grids[p] /\ s.next = counter[p]
    BY <2>1, <1>T DEF Edits, OwnSet, NoEdit
  <2>3. pc'[p] = "exit"
    BY <1>0, <2>1 DEF Typed
  <2>4. Starts(p, s)' /\ ~During(p)'
    BY <2>1, <2>2, <2>3 DEF Starts, During
  <2> QED BY <1>E, <2>1, <2>4
<1> QED BY <1>1, <1>2, <1>3, <1>4, <1>5, <1>6, <1>7, <1>8, <1>9

LEMMA ReportingTakes ==
  ASSUME Typed, Typed', Control, Fetching, NEW p \in Client, NEW k, Replays(p, k),
         \/ ClientNew(p) \/ ClientDelete(p) \/ ClientCopyin(p) \/ ClientCopyout(p)
         \/ ClientGet(p) \/ ClientSet(p) \/ ClientRun(p) \/ ClientReduce(p) \/ ClientFinalize(p)
  PROVE  Reporting(p)'
<1>0. p \in Proc /\ p # 0 /\ 0 \in Proc /\ net \in Nets
  BY ProcFacts DEF Typed
<1>f. call' = call /\ pc'[0] = pc[0]
  BY <1>0 DEF ClientNew, ClientDelete, ClientCopyin, ClientCopyout, ClientGet, ClientSet,
    ClientRun, ClientReduce, ClientFinalize, clientFrame, Typed
<1>1. ASSUME NEW kind, Takes(p, kind), kind # "FUNC_COPYIN" PROVE Reporting(p)'
  <2>1. SUFFICES ASSUME pc[0] = "GridCopyin", bcast'[p] = << >> PROVE FALSE
    BY <1>f DEF Reporting
  <2>2. /\ bcast[p] # << >> /\ bcast'[p] = Tail(bcast[p]) /\ bcast[p][1].kind = kind
        /\ bcast[p] \in Seq(Requests)
    BY <1>1, TakesFacts
  <2>3. Len(bcast[p]) = 1
    BY <2>1, <2>2, TakenFirst
  <2>4. Last(p).kind = "FUNC_COPYIN"
    BY <2>1, <2>2 DEF Control, Answers, Asking, CallOf
  <2> QED BY <1>1, <2>2, <2>3, <2>4 DEF Last
<1>2. CASE ClientCopyin(p)
  <2> DEFINE part == DOMAIN grids[p][Opt(p)]
  <2>1. /\ Takes(p, "FUNC_COPYIN") /\ Knows(p, Opt(p))
        /\ net' = Put(net, p, 0, PartMsg(part))
        /\ pc' = [pc EXCEPT ![p] = IF part = {} THEN "Listen" ELSE "GridCopyin"]
    BY <1>2 DEF ClientCopyin
  <2>2. part = Part(DOMAIN call.buf, p) /\ Opt(p) \in DOMAIN grids[p]
    <3>1. Edits(p, call.buf, bcast[p][1], grids[p], counter[p], k[2].tab, k[2].next)
          /\ bcast[p][1].kind = "FUNC_COPYIN" /\ bcast[p][1].opt = Opt(p)
      BY <2>1, TakingFacts
    <3> QED BY <2>1, <3>1 DEF Edits, Knows
  <2>3. net[p][0] = << >> /\ net[0][p] = << >>
    BY <1>2, CopyinTaken
  <2>4. net'[0][p] = << >> /\ net'[p][0] = <<PartMsg(part)>>
    <3> DEFINE y == PartMsg(part)
    <3>1. y \in RpcMessage
      BY <2>2, PartEdits, MessageFacts DEF Typed, Part
    <3>2. net' = Put(net, p, 0, y)
      BY <2>1
    <3> HIDE DEF y
    <3>3. net'[0][p] = net[0][p]
      BY ONLY <1>0, <3>1, <3>2, PutFacts
    <3>4. net'[p][0] = Append(net[p][0], y)
      BY ONLY <1>0, <3>1, <3>2, PutFacts
    <3> QED BY <2>3, <3>3, <3>4 DEF y
  <2>5. pc'[p] = IF part = {} THEN "Listen" ELSE "GridCopyin"
    BY <1>0, <2>1 DEF Typed
  <2> HIDE DEF part
  <2> QED BY <1>f, <2>2, <2>4, <2>5 DEF Reporting
<1>3. ASSUME ~ClientCopyin(p)
      PROVE  \E kind : Takes(p, kind) /\ kind # "FUNC_COPYIN"
  BY <1>3 DEF ClientNew, ClientDelete, ClientCopyout, ClientGet, ClientSet, ClientRun, ClientReduce,
    ClientFinalize
<1> QED BY <1>1, <1>2, <1>3

-----------------------------------------------------------------------------
(* A client receives a value, or its part.                                  *)

\* The first value is not among those to come any more.
Shifted(s) == [tab |-> s.tab, next |-> s.next, pos |-> s.pos - 1]

LEMMA ShiftedFacts ==
  ASSUME NEW s \in State, s.pos > 0
  PROVE  /\ Shifted(s) \in State /\ Shifted(s).pos = s.pos - 1 /\ Shifted(s).tab = s.tab
         /\ Shifted(s).next = s.next
BY DEF Shifted, State

LEMMA ChainShifted ==
  ASSUME NEW p, NEW c \in Seq(RpcMessage), c # << >>, NEW b, NEW q \in Seq(Requests), NEW k,
         Chain(p, c, b, q, k), k[1].pos > 0
  PROVE  \E h : /\ Chain(p, Rest(c), b, q, h)
                /\ h[1] = Shifted(k[1]) /\ h[Len(q) + 1] = Shifted(k[Len(q) + 1])
                /\ k[1] \in State /\ k[Len(q) + 1] \in State /\ k[Len(q) + 1].pos > 0
<1> DEFINE n == Len(q)
           d == Rest(c)
           h == [i \in 1 .. n + 1 |-> Shifted(k[i])]
<1>1. n \in Nat /\ 1 \in 1 .. n + 1 /\ n + 1 \in 1 .. n + 1
  BY SentLast
<1>2. /\ k \in Seq(State) /\ Len(k) = n + 1
      /\ \A i \in 1 .. n : /\ Executes(p, c, b, q[i], k[i], k[i + 1])
                           /\ q[i].kind = "FUNC_GET" => k[i].pos = k[n + 1].pos
      /\ \A i, j \in 1 .. n + 1 : i <= j => k[i].pos <= k[j].pos
  BY DEF Chain
<1>3. /\ Len(c) \in Nat /\ Len(c) > 0 /\ DOMAIN c = 1 .. Len(c) /\ DOMAIN d = 1 .. Len(c) - 1
      /\ \A i \in 1 .. Len(c) - 1 : d[i] = c[i + 1]
  BY TakenFirst DEF Rest
<1> HIDE DEF n, d
<1>4. ASSUME NEW i \in 1 .. n + 1 PROVE k[i] \in State /\ k[i].pos \in Nat /\ k[i].pos > 0
  <2>1. k[i] \in State /\ k[1] \in State /\ k[1].pos <= k[i].pos
    BY <1>1, <1>2
  <2>2. k[i].pos \in Nat /\ k[1].pos \in Nat
    BY <2>1 DEF State
  <2> QED BY <2>1, <2>2
<1>5. \A i \in 1 .. n + 1 : /\ h[i] = Shifted(k[i]) /\ h[i] \in State
                            /\ h[i].pos = k[i].pos - 1 /\ h[i].tab = k[i].tab
                            /\ h[i].next = k[i].next
  BY <1>4, ShiftedFacts
<1>6. h \in Seq(State) /\ Len(h) = n + 1
  <2>1. n + 1 \in Nat /\ h \in [1 .. n + 1 -> State]
    BY <1>1, <1>5
  <2>2. h \in Seq(State)
    BY <2>1, SeqDef, SMTT(30)
  <2>3. Len(h) = n + 1
    BY <2>1, <2>2, LenProperties
  <2> QED BY <2>2, <2>3
<1> HIDE DEF h
<1>7. ASSUME NEW i \in 1 .. n
      PROVE  /\ Executes(p, d, b, q[i], h[i], h[i + 1])
             /\ q[i].kind = "FUNC_GET" => h[i].pos = h[n + 1].pos
  <2>1. i \in 1 .. n + 1 /\ i + 1 \in 1 .. n + 1
    BY <1>1
  <2>2. /\ Edits(p, b, q[i], k[i].tab, k[i].next, k[i + 1].tab, k[i + 1].next)
        /\ IF OwnSet(p, q[i])
           THEN Writes(c, k[i].pos + 1, k[i].tab, k[i + 1].tab) /\ k[i + 1].pos = k[i].pos + 1
           ELSE k[i + 1].pos = k[i].pos
    BY <1>2 DEF Executes
  <2>3. Edits(p, b, q[i], h[i].tab, h[i].next, h[i + 1].tab, h[i + 1].next)
    BY <1>5, <2>1, <2>2
  <2>4. Writes(c, k[i].pos + 1, k[i].tab, k[i + 1].tab) => Writes(d, h[i].pos + 1, h[i].tab, h[i + 1].tab)
    <3>1. h[i].pos + 1 = k[i].pos /\ h[i].tab = k[i].tab /\ h[i + 1].tab = k[i + 1].tab
      BY <1>4, <1>5, <2>1
    <3>2. k[i].pos + 1 \in DOMAIN c => k[i].pos \in DOMAIN d /\ d[k[i].pos] = c[k[i].pos + 1]
      BY <1>3, <1>4, <2>1
    <3> QED BY <3>1, <3>2 DEF Writes
  <2>5. IF OwnSet(p, q[i])
        THEN Writes(d, h[i].pos + 1, h[i].tab, h[i + 1].tab) /\ h[i + 1].pos = h[i].pos + 1
        ELSE h[i + 1].pos = h[i].pos
    <3>1. /\ h[i].pos = k[i].pos - 1 /\ h[i + 1].pos = k[i + 1].pos - 1
          /\ k[i].pos \in Nat /\ k[i + 1].pos \in Nat
      BY <1>4, <1>5, <2>1
    <3>2. CASE OwnSet(p, q[i])
      <4>1. k[i + 1].pos = k[i].pos + 1
        BY <2>2, <3>2
      <4>2. h[i + 1].pos = h[i].pos + 1
        BY ONLY <3>1, <4>1
      <4> QED BY <2>2, <2>4, <3>2, <4>2
    <3>3. CASE ~OwnSet(p, q[i])
      <4>1. k[i + 1].pos = k[i].pos
        BY <2>2, <3>3
      <4>2. h[i + 1].pos = h[i].pos
        BY ONLY <3>1, <4>1
      <4> QED BY <3>3, <4>2
    <3> QED BY <3>2, <3>3
  <2>6. q[i].kind = "FUNC_GET" => h[i].pos = h[n + 1].pos
    BY ONLY <1>1, <1>2, <1>5, <2>1
  <2> QED BY <2>3, <2>5, <2>6 DEF Executes
<1>8. ASSUME NEW i \in 1 .. n + 1, NEW j \in 1 .. n + 1, i <= j PROVE h[i].pos <= h[j].pos
  <2>1. k[i].pos <= k[j].pos
    BY ONLY <1>2, <1>8
  <2>2. /\ k[i].pos \in Nat /\ k[j].pos \in Nat
        /\ h[i].pos = k[i].pos - 1 /\ h[j].pos = k[j].pos - 1
    BY ONLY <1>4, <1>5
  <2> QED BY ONLY <2>1, <2>2
<1>9. Chain(p, d, b, q, h)
  BY <1>6, <1>7, <1>8 DEF Chain, n
<1>10. h[1] = Shifted(k[1]) /\ h[n + 1] = Shifted(k[n + 1])
       /\ k[1] \in State /\ k[n + 1] \in State /\ k[n + 1].pos > 0
  BY ONLY <1>1, <1>4, <1>5
<1> QED BY <1>9, <1>10 DEF n, d

\* What p has received makes its grids what it was to make them.
LEMMA ContentsReceives ==
  ASSUME Typed, Typed', NEW p \in Client, NEW k, Replays(p, k), Reporting(p),
         ClientCopyinData(p) \/ ClientSetData(p)
  PROVE  (\E h : Replays(p, h)') /\ Reporting(p)'
<1>0. p \in Proc /\ p # 0 /\ 0 \in Proc /\ net \in Nets /\ net[0][p] \in Seq(RpcMessage)
      /\ bcast[p] \in Seq(Requests)
  <2>1. p \in Proc /\ p # 0 /\ 0 \in Proc /\ net \in Nets /\ bcast[p] \in Seq(Requests)
    BY ProcFacts DEF Typed
  <2> QED BY <2>1 DEF Nets
<1>1. /\ Pending(net, 0, p) /\ net' = Drop(net, 0, p) /\ pc' = [pc EXCEPT ![p] = "Listen"]
      /\ UNCHANGED <<bcast, cur, counter, call, store>>
      /\ pc[p] \in {"GridCopyin", "GridSet"}
  BY DEF ClientCopyinData, ClientSetData, clientFrame, userVars
<1>2. pc'[p] = "Listen" /\ pc'[0] = pc[0]
  BY <1>0, <1>1 DEF Typed
<1>3. net'[0][p] = Rest(net[0][p]) /\ net[0][p] # << >> /\ net[0][p][1] = Head(net[0][p])
  BY <1>0, <1>1, DropFacts, TakenFirst DEF Rest, Pending
<1>4. ~Waits(p)
  BY <1>3 DEF Waits
<1>s. PICK s : s = k[1]
  OBVIOUS
<1>5. /\ s.pos = 1 /\ s.next = counter[p] /\ grids'[p] = s.tab
      /\ Head(net[0][p]).kind \in ValueKinds
  <2>1. Starts(p, s)
    BY <1>s DEF Replays
  <2>2. CASE ClientCopyinData(p)
    <3>1. /\ pc[p] = "GridCopyin" /\ Head(net[0][p]).kind = "DATA"
          /\ grids' = [grids EXCEPT ![p][cur[p]] = Head(net[0][p]).body]
      BY <2>2 DEF ClientCopyinData, Oldest
    <3>2. /\ s.pos = 1 /\ s.next = counter[p]
          /\ s.tab = [grids[p] EXCEPT ![cur[p]] = Head(net[0][p]).body]
      BY <1>3, <1>4, <2>1, <3>1 DEF Starts
    <3>3. grids'[p] = [grids[p] EXCEPT ![cur[p]] = Head(net[0][p]).body]
      BY <1>0, <3>1, ZenonT(30) DEF Typed
    <3> QED BY <3>1, <3>2, <3>3 DEF ValueKinds
  <2>3. CASE ClientSetData(p)
    <3> DEFINE m == Head(net[0][p]).body
    <3>1. /\ pc[p] = "GridSet" /\ Head(net[0][p]).kind = "SET"
          /\ grids' = [grids EXCEPT ![p][m.id][m.point] = m.value]
      BY <2>3, ZenonT(30) DEF ClientSetData, Oldest
    <3>2. /\ s.pos = 1 /\ s.next = counter[p]
          /\ s.tab = SetPoint(grids[p], m.id, m.point, m.value)
      BY <1>3, <2>1, <3>1, ZenonT(30) DEF Starts, Writes
    <3>3. grids'[p] = SetPoint(grids[p], m.id, m.point, m.value)
      BY <1>0, <3>1 DEF Typed, SetPoint
    <3> QED BY <3>1, <3>2, <3>3, ZenonT(30) DEF ValueKinds
  <2> QED BY <2>2, <2>3
<1>6. PICK h : /\ Chain(p, net'[0][p], call.buf, bcast[p], h)
               /\ h[1] = Shifted(s) /\ h[Len(bcast[p]) + 1] = Shifted(k[Len(bcast[p]) + 1])
               /\ s \in State /\ k[Len(bcast[p]) + 1] \in State /\ k[Len(bcast[p]) + 1].pos > 0
  <2> DEFINE c == net[0][p]
             b == call.buf
             q == bcast[p]
  <2>1. /\ Chain(p, c, b, q, k) /\ c \in Seq(RpcMessage) /\ c # << >> /\ q \in Seq(Requests)
        /\ k[1].pos > 0
    BY <1>0, <1>3, <1>5, <1>s DEF Replays
  <2> HIDE DEF c, b, q
  <2>2. \E h : /\ Chain(p, Rest(c), b, q, h)
               /\ h[1] = Shifted(k[1]) /\ h[Len(q) + 1] = Shifted(k[Len(q) + 1])
               /\ k[1] \in State /\ k[Len(q) + 1] \in State /\ k[Len(q) + 1].pos > 0
    BY ONLY <2>1, ChainShifted
  <2> QED BY <1>3, <1>s, <2>2 DEF c, b, q
<1>t. PICK t : t = k[Len(bcast[p]) + 1]
  OBVIOUS
<1>7. Starts(p, Shifted(s))'
  <2>1. Shifted(s).pos = 0 /\ Shifted(s).tab = s.tab /\ Shifted(s).next = s.next
    BY <1>5, <1>6, ShiftedFacts
  <2> QED BY <1>1, <1>2, <1>5, <2>1 DEF Starts
<1>8. Ends(p, Shifted(t))'
  <2>1. Ends(p, t)
    BY <1>t DEF Replays
  <2>2. Shifted(t).pos = t.pos - 1 /\ Shifted(t).tab = t.tab /\ Shifted(t).next = t.next
    BY <1>6, <1>t, ShiftedFacts
  <2>3. Sorted(net'[0][p], t.pos - 1)
    <3> DEFINE c == net[0][p]
               n == t.pos
    <3>1. c \in Seq(RpcMessage) /\ c # << >> /\ Head(c).kind \in ValueKinds /\ Sorted(c, n)
      BY <1>0, <1>3, <1>5, <2>1 DEF Ends
    <3> HIDE DEF c, n
    <3>2. Sorted(Tail(c), n - 1)
      BY ONLY <3>1, SortedFacts
    <3> QED BY <1>3, <3>2 DEF c, n, Rest
  <2>4. ~During(p)'
    BY <1>2 DEF During
  <2>5. counter'[0] = counter[0] /\ store' = store
    BY <1>1
  <2> QED BY <2>1, <2>2, <2>3, <2>4, <2>5 DEF Ends
<1>9. Replays(p, h)'
  <2>1. Len(bcast'[p]) = Len(bcast[p]) /\ bcast'[p] = bcast[p] /\ call'.buf = call.buf
    BY <1>1
  <2>2. Chain(p, net'[0][p], call'.buf, bcast'[p], h)
    BY <1>6, <2>1
  <2>3. h[1] = Shifted(s) /\ h[Len(bcast'[p]) + 1] = Shifted(t)
    BY <1>6, <1>t, <2>1
  <2> QED BY <1>7, <1>8, <2>2, <2>3 DEF Replays
<1>10. Reporting(p)'
  <2>1. SUFFICES ASSUME pc[0] = "GridCopyin", call.next <= p, bcast[p] = << >> PROVE FALSE
    BY <1>1, <1>2 DEF Reporting
  <2>2. pc[p] \in {"Listen", "GridCopyin"} /\ (pc[p] = "GridCopyin" => net[0][p] = << >>)
    BY <2>1 DEF Reporting
  <2> QED BY <1>1, <1>3, <2>2
<1> QED BY <1>9, <1>10

LEMMA ContentsGetReturn ==
  ASSUME Typed, Typed', NEW p \in Client, NEW k, Replays(p, k), Reporting(p), ClientGetReturn(p)
  PROVE  (\E h : Replays(p, h)') /\ Reporting(p)'
<1>0. p \in Proc /\ p # 0 /\ 0 \in Proc
  BY ProcFacts
<1>1. /\ pc[p] = "GridGet" /\ pc' = [pc EXCEPT ![p] = "Listen"] /\ net' = net
      /\ UNCHANGED <<bcast, cur, grids, counter, call, store>>
  BY DEF ClientGetReturn, EndLoad, clientFrame, userVars
<1>2. pc'[p] = "Listen" /\ pc'[0] = pc[0]
  BY <1>0, <1>1 DEF Typed
<1>s. PICK s : s = k[1]
  OBVIOUS
<1>t. PICK t : t = k[Len(bcast[p]) + 1]
  OBVIOUS
<1>3. Starts(p, s)'
  <2>1. Starts(p, s)
    BY <1>s DEF Replays
  <2> QED BY <1>1, <1>2, <2>1 DEF Starts
<1>4. Ends(p, t)'
  <2>1. Ends(p, t)
    BY <1>t DEF Replays
  <2> QED BY <1>1, <1>2, <2>1 DEF Ends, During
<1>5. Extended(net[0][p], net'[0][p])
  BY <1>1, SortedSame
<1>6. Replays(p, k)'
  BY <1>1, <1>3, <1>4, <1>5, <1>s, <1>t, ReplaySame
<1>7. Reporting(p)'
  BY <1>1, <1>2 DEF Reporting
<1> QED BY <1>6, <1>7

-----------------------------------------------------------------------------
(* The steps of LoadSubgrid, and of the other clients.                      *)

\* What a rank sends and receives in LoadSubgrid is no value for p.
LEMMA FetchLeaves ==
  ASSUME Typed, Typed', Control, Fetching, NEW p \in Client, NEW r \in Proc, Fetch(r)
  PROVE  \/ net'[0][p] = net[0][p]
         \/ \E m \in RpcMessage : m.kind \notin ValueKinds /\ net'[0][p] = Append(net[0][p], m)
         \/ /\ During(p) /\ net[0][p] # << >> /\ net'[0][p] = Tail(net[0][p])
            /\ Head(net[0][p]).kind \notin ValueKinds
<1>0. p \in Proc /\ p # 0 /\ 0 \in Proc /\ net \in Nets /\ net[0][p] \in Seq(RpcMessage)
  <2>1. p \in Proc /\ p # 0 /\ 0 \in Proc /\ net \in Nets
    BY ProcFacts DEF Typed
  <2> QED BY <2>1 DEF Nets
<1>1. During(r)
  BY FetchFrame
<1>2. \A t : SameButReplies(net[0][p], t) => t = net[0][p]
  <2>1. ~Has(net[0][p], "FETCH_REPLY")
    BY <1>0 DEF Fetching, RequestInv, Channels, Allowed, Only, Has
  <2> DEFINE c == net[0][p]
  <2>2. c \in Seq(RpcMessage) /\ ~Has(c, "FETCH_REPLY")
    BY <1>0, <2>1
  <2> HIDE DEF c
  <2>3. ASSUME NEW t, SameButReplies(c, t) PROVE t = c
    BY ONLY <2>2, <2>3, SameKinds
  <2> QED BY <2>3 DEF c
<1>3. CASE Announce(r)
  <2>1. Done(0) \in RpcMessage /\ Done(0).kind \notin ValueKinds
    BY MessageFacts DEF Done, ValueKinds
  <2>2. net'[0][p] = Append(net[0][p], Done(0)) \/ net'[0][p] = net[0][p]
    BY <1>0, <1>3, AnnounceFacts
  <2> QED BY <2>1, <2>2
<1>4. ASSUME NEW q \in Proc, CountDone(r, q)
      PROVE  \/ net'[0][p] = net[0][p]
             \/ /\ During(p) /\ net[0][p] # << >> /\ net'[0][p] = Tail(net[0][p])
                /\ Head(net[0][p]).kind \notin ValueKinds
  <2>1. Pending(net, q, r) /\ Oldest(net, q, r).kind = "DONE" /\ net' = Drop(net, q, r)
    BY <1>4 DEF CountDone, RecvDone, Hears
  <2>2. net'[q][r] = Tail(net[q][r]) /\ (q # 0 \/ r # p => net'[0][p] = net[0][p])
    BY <1>0, <2>1, DropFacts
  <2>3. CASE q = 0 /\ r = p
    BY <1>1, <2>1, <2>2, <2>3 DEF Pending, Oldest, ValueKinds
  <2> QED BY <2>2, <2>3
<1>5. ASSUME NEW q \in Proc, Serve(r, q)
      PROVE  \/ net'[0][p] = net[0][p]
             \/ /\ During(p) /\ net[0][p] # << >> /\ net'[0][p] = Tail(net[0][p])
                /\ Head(net[0][p]).kind \notin ValueKinds
  <2>1. CASE r = p
    BY <1>1, <1>5, <2>1, ServeFacts DEF ValueKinds
  <2>2. CASE r # p
    <3>1. SameButReplies(net[0][p], net'[0][p])
      BY <1>0, <1>5, <2>2, ServeFacts
    <3> QED BY <1>2, <3>1
  <2> QED BY <2>1, <2>2
<1>6. ASSUME NEW q \in Proc, TakeReply(r, q) PROVE net'[0][p] = net[0][p]
  <2>1. SameButReplies(net[0][p], net'[0][p])
    BY <1>0, <1>6, ReplyFacts
  <2> QED BY <1>2, <2>1
<1> QED BY <1>3, <1>4, <1>5, <1>6 DEF Fetch

\* It leaves the report of p to GridCopyin alone.
LEMMA FetchReporting ==
  ASSUME Typed, Control, Fetching, NEW p \in Client, NEW r \in Proc, Fetch(r), Reporting(p)
  PROVE  Reporting(p)'
<1>0. p \in Proc /\ p # 0 /\ 0 \in Proc /\ net \in Nets
  BY ProcFacts DEF Typed
<1>1. UNCHANGED <<bcast, pc, cur, call, grids, remote, store>> /\ During(r)
  BY FetchFrame
<1>2. SUFFICES ASSUME pc[0] = "GridCopyin", call.next <= p, bcast[p] = << >>
      PROVE  net'[p][0] = net[p][0] /\ (net[0][p] = << >> => net'[0][p] = << >>)
  BY <1>1 DEF Reporting
<1>3. /\ net[p][0] = <<PartMsg(Part(DOMAIN call.buf, p))>>
      /\ pc[p] \in {"Listen", "GridCopyin"}
  BY <1>2 DEF Reporting
<1>4. r # 0 /\ r # p
  BY <1>1, <1>2, <1>3 DEF During
<1>5. CASE Announce(r)
  <2>1. /\ net'[p][0] = IF p = r /\ 0 # r THEN Append(net[p][0], Done(0)) ELSE net[p][0]
        /\ net'[0][p] = IF 0 = r /\ p # r THEN Append(net[0][p], Done(0)) ELSE net[0][p]
    <3>1. \A a, b \in Proc : net'[a][b] = IF a = r /\ b # r THEN Append(net[a][b], Done(0))
                                                             ELSE net[a][b]
      BY <1>5, AnnounceFacts
    <3> QED BY ONLY <1>0, <3>1
  <2> QED BY <1>4, <2>1
<1>6. ASSUME NEW q \in Proc, CountDone(r, q) PROVE net'[p][0] = net[p][0] /\ net'[0][p] = net[0][p]
  <2>1. Pending(net, q, r) /\ net' = Drop(net, q, r)
    BY <1>6 DEF CountDone, RecvDone, Hears
  <2> QED BY <1>0, <1>4, <2>1, DropFacts
<1>7. ASSUME NEW q \in Proc, Serve(r, q)
      PROVE  net'[p][0] = net[p][0] /\ (net[0][p] = << >> => net'[0][p] = << >>)
  <2>1. SameButReplies(net[0][p], net'[0][p]) /\ SameButReplies(net[p][0], net'[p][0])
    BY <1>0, <1>4, <1>7, ServeFacts
  <2>2. net[0][p] = << >> => net'[0][p] = << >>
    <3>1. net'[0][p] \in Seq(RpcMessage) /\ Len(net'[0][p]) = Len(net[0][p])
      BY <2>1 DEF SameButReplies
    <3> QED BY <3>1
  <2>3. net'[p][0] = net[p][0]
    <3> DEFINE c == net[p][0]
               d == net'[p][0]
    <3>1. c \in Seq(RpcMessage)
      BY <1>0 DEF Nets
    <3>2. ~Has(c, "FETCH_REPLY")
      BY <1>3 DEF Has, PartMsg
    <3>3. SameButReplies(c, d)
      BY <2>1
    <3> HIDE DEF c, d
    <3>4. d = c
      BY ONLY <3>1, <3>2, <3>3, SameKinds
    <3> QED BY <3>4 DEF c, d
  <2> QED BY <2>2, <2>3
<1>8. ASSUME NEW q \in Proc, TakeReply(r, q) PROVE FALSE
  BY <1>4, <1>8, ReplyFacts
<1> QED BY <1>5, <1>6, <1>7, <1>8 DEF Fetch

LEMMA ContentsFetch ==
  ASSUME Typed, Typed', Control, Fetching, NEW p \in Client, NEW k, Replays(p, k), Reporting(p)',
         NEW r \in Proc, Fetch(r)
  PROVE  \E h : Replays(p, h)'
<1>0. p \in Proc /\ p # 0 /\ 0 \in Proc /\ net \in Nets /\ net' \in Nets
  BY ProcFacts DEF Typed
<1>2. UNCHANGED <<bcast, partials, pc, cur, call, grids, counter, store>>
  BY DEF Fetch, Announce, CountDone, Serve, TakeReply, fetchFrame, rpcVars, userVars
<1>c. PICK c : c = net[0][p]
  OBVIOUS
<1>d. PICK d : d = net'[0][p]
  OBVIOUS
<1>3. c \in Seq(RpcMessage) /\ d \in Seq(RpcMessage)
  BY <1>0, <1>c, <1>d DEF Nets
<1>t. PICK t : t = k[Len(bcast[p]) + 1]
  OBVIOUS
<1>4. Sorted(c, t.pos)
  BY <1>t, <1>c DEF Replays, Ends
<1>5. Waits(p) => Waits(p)'
  BY <1>2 DEF Waits, Reporting
<1>6. CASE Extended(c, d) /\ \A n : Sorted(c, n) => Sorted(d, n)
  BY <1>2, <1>5, <1>6, <1>c, <1>d, ReplayElsewhere
<1>7. CASE d = c
  BY <1>6, <1>7, SortedSame
<1>8. ASSUME NEW m \in RpcMessage, m.kind \notin ValueKinds, d = Append(c, m)
      PROVE  \E h : Replays(p, h)'
  <2>1. Extended(c, Append(c, m)) /\ \A n : Sorted(c, n) => Sorted(Append(c, m), n)
    BY <1>3, <1>8, SortedFacts, <1>4
  <2> QED BY <1>6, <1>8, <2>1
<1>9. ASSUME During(p), c # << >>, d = Tail(c), Head(c).kind \notin ValueKinds
      PROVE  \E h : Replays(p, h)'
  <2>s. PICK s : s = k[1]
    OBVIOUS
  <2>1. ~Has(bcast[p], "FUNC_SET")
    <3>1. Ordered(p)
      BY DEF Control
    <3> QED BY <1>9, <3>1 DEF Ordered, Has
  <2>2. Starts(p, s)
    BY <2>s DEF Replays
  <2>3. ~Waits(p)
    BY <1>9 DEF Waits, During
  <2>4. Starts(p, s)'
    <3>1. pc[p] \notin {"GridSet", "GridCopyin"}
      BY <1>9 DEF During
    <3> QED BY <1>2, <2>2, <3>1 DEF Starts
  <2>5. t.pos = 0 /\ Sorted(d, 0)
    BY <1>3, <1>4, <1>9, SortedFacts
  <2>6. Ends(p, t)
    BY <1>t DEF Replays
  <2>7. Ends(p, t)'
    BY <1>2, <1>d, <2>5, <2>6 DEF Ends, During
  <2>8. Replays(p, k)'
    BY <1>2, <1>t, <2>s, <2>1, <2>4, <2>7, ReplaySame
  <2> QED BY <2>8
<1> QED BY <1>7, <1>8, <1>9, <1>c, <1>d, FetchLeaves

\* The other clients' steps.
LEMMA ContentsOthers ==
  ASSUME Typed, Typed', Control, NEW p \in Client, NEW k, Replays(p, k), Reporting(p),
         NEW r \in Client, r # p, ClientStep(r), ~Fetch(r)
  PROVE  (\E h : Replays(p, h)') /\ Reporting(p)'
<1>1. /\ p \in Proc /\ p # 0 /\ r \in Proc /\ r # 0 /\ 0 \in Proc /\ net \in Nets
      /\ pc \in [Proc -> MasterMethods \cup ClientMethods] /\ cur \in [Proc -> Nat]
      /\ grids \in [Proc -> Table] /\ counter \in [Proc -> Nat]
  BY ProcFacts DEF Typed
<1>2. UNCHANGED <<call, store>>
  BY DEF ClientStep, ClientNew, ClientDelete, ClientCopyin, ClientCopyinData, ClientCopyout,
     ClientGet, ClientGetReturn, ClientSet, ClientSetData, ClientRun, ClientReduce, ClientFinalize,
     clientFrame, userVars
<1>3. bcast'[p] = bcast[p]
  <2>1. bcast' = bcast \/ bcast' = [bcast EXCEPT ![r] = Tail(@)]
    BY DEF Takes, ClientStep, ClientNew, ClientDelete, ClientCopyin, ClientCopyinData, ClientCopyout,
     ClientGet, ClientGetReturn, ClientSet, ClientSetData, ClientRun, ClientReduce, ClientFinalize
  <2>2. bcast \in [Proc -> Seq(Requests)]
    BY DEF Typed
  <2> QED BY <1>1, <2>1, <2>2
<1>4. pc'[p] = pc[p] /\ pc'[0] = pc[0]
  BY <1>1 DEF ClientStep, ClientNew, ClientDelete, ClientCopyin, ClientCopyinData, ClientCopyout,
     ClientGet, ClientGetReturn, ClientSet, ClientSetData, ClientRun, ClientReduce, ClientFinalize
<1>5. cur'[p] = cur[p]
  BY <1>1 DEF ClientStep, ClientNew, ClientDelete, ClientCopyin, ClientCopyinData, ClientCopyout,
     ClientGet, ClientGetReturn, ClientSet, ClientSetData, ClientRun, ClientReduce, ClientFinalize
<1>6. counter'[p] = counter[p] /\ counter'[0] = counter[0]
  BY <1>1 DEF ClientStep, ClientNew, ClientDelete, ClientCopyin, ClientCopyinData, ClientCopyout,
     ClientGet, ClientGetReturn, ClientSet, ClientSetData, ClientRun, ClientReduce, ClientFinalize
<1>7. grids'[p] = grids[p]
  <2>1. grids' = grids \/ \E f : grids' = [grids EXCEPT ![r] = f]
    BY DEF ClientStep, ClientNew, ClientDelete, ClientCopyin, ClientCopyinData, ClientCopyout,
     ClientGet, ClientGetReturn, ClientSet, ClientSetData, ClientRun, ClientReduce, ClientFinalize,
     CreateGrid, DeleteGrid, RunKernel
  <2> QED BY <1>1, <2>1
<1>8. net'[p][0] = net[p][0] /\ net'[0][p] = net[0][p]
  <2>1. CASE ClientGet(r)
    BY <2>1, ClientBegins
  <2>2. CASE ~ClientGet(r)
    <3>1. \/ net' = net \/ (\E m : net' = Put(net, r, 0, m)) \/ net' = Drop(net, 0, r)
      BY <2>2 DEF ClientStep, ClientNew, ClientDelete, ClientCopyin, ClientCopyinData,
         ClientCopyout, ClientGetReturn, ClientSet, ClientSetData, ClientRun, ClientReduce,
         ClientFinalize, EndLoad
    <3> QED BY <1>1, <3>1, ZenonT(30) DEF Put, Drop, Nets
  <2> QED BY <2>1, <2>2
<1>9. Waits(p) => Waits(p)'
  BY <1>2, <1>3, <1>4, <1>8 DEF Waits
<1>10. Extended(net[0][p], net'[0][p]) /\ \A n : Sorted(net[0][p], n) => Sorted(net'[0][p], n)
  BY <1>8, SortedSame
<1>11. \E h : Replays(p, h)'
  BY <1>2, <1>3, <1>4, <1>5, <1>6, <1>7, <1>9, <1>10, ReplayElsewhere
<1>12. Reporting(p)'
  BY <1>2, <1>3, <1>4, <1>8, <1>9 DEF Reporting
<1> QED BY <1>11, <1>12

\* A call of the program leaves no client that has reported its part.
LEMMA UserReporting ==
  ASSUME Typed, UserStep, NEW p \in Client
  PROVE  Reporting(p)'
<1>0. p \in Proc /\ 0 \in Proc /\ pc \in [Proc -> MasterMethods \cup ClientMethods]
  BY ProcFacts DEF Typed
<1>1. pc[0] = "user"
  BY ZenonT(30) DEF UserStep, UserCalls, MasterNew, MasterDelete, MasterCopyin, MasterCopyout, MasterSetRemote,
         MasterSetLocal, MasterGet, MasterRun, MasterReduce, MasterFinalize
<1>2. CASE pc'[0] # "GridCopyin"
  BY <1>2 DEF Reporting
<1>3. ASSUME NEW id \in DOMAIN store, NEW buf, MasterCopyin(id, buf)
      PROVE  bcast'[p] # << >>
  <2>1. id \in Nat
    BY StoreFacts
  <2> DEFINE m == Req("FUNC_COPYIN", id)
  <2>2. m \in Requests /\ Notify(m)
    BY <1>3, <2>1, RequestFacts DEF MasterCopyin, IdKinds
  <2> HIDE DEF m
  <2>3. bcast'[p] = Append(bcast[p], m)
    BY <2>2, NotifyFacts
  <2>4. bcast[p] \in Seq(Requests)
    BY <1>0 DEF Typed
  <2> QED BY ONLY <2>2, <2>3, <2>4, SentLast
<1>4. CASE \E id \in DOMAIN store : \E buf : MasterCopyin(id, buf)
  BY <1>3, <1>4 DEF Reporting
<1>5. CASE ~\E id \in DOMAIN store : \E buf : MasterCopyin(id, buf)
  <2>1. pc' = pc \/ \E m \in {"exit", "GridCopyout", "GridGet", "GridReduce"} : pc' = [pc EXCEPT ![0] = m]
    BY <1>5 DEF UserStep, MasterNew, MasterDelete, MasterCopyout, MasterSetRemote,
         MasterSetLocal, MasterGet, MasterRun, MasterReduce, MasterFinalize
  <2> QED BY <1>0, <1>1, <1>2, <2>1
<1> QED BY <1>4, <1>5

LEMMA ContentsInit == Init => Contents
<1> SUFFICES ASSUME Init, NEW p \in Client PROVE (\E k : Replays(p, k)) /\ Reporting(p)
  BY DEF Contents
<1>0. p \in Proc /\ p # 0 /\ 0 \in Proc
  BY ProcFacts
<1>1. /\ net[0][p] = << >> /\ bcast[p] = << >> /\ pc[p] = "Listen" /\ pc[0] = "user"
      /\ grids[p] = << >> /\ counter[p] = 0 /\ counter[0] = 0 /\ store = << >>
  BY <1>0 DEF Init, FetchInit, EmptyNet
<1>2. store \in Table /\ grids[p] \in Table
  BY <1>0, TypedInit DEF Typed
<1>s. PICK s : s = [tab |-> << >>, next |-> 0, pos |-> 0]
  OBVIOUS
<1>3. s \in State /\ s.tab = grids[p] /\ s.next = counter[p] /\ s.pos = 0
  BY <1>1, <1>2, <1>s DEF State
<1>4. Mine(store, p) = s.tab
  BY <1>1, <1>s DEF Mine
<1>5. Starts(p, s)
  BY <1>1, <1>3 DEF Starts
<1>6. Ends(p, s)
  BY <1>1, <1>3, <1>4 DEF Ends, Sorted, During
<1>k. PICK k : k = <<s>>
  OBVIOUS
<1>7. k \in Seq(State) /\ Len(k) = 1 /\ k[1] = s /\ Len(bcast[p]) = 0
  BY <1>1, <1>3, <1>k
<1>8. s.pos <= s.pos
  BY <1>3
<1>9. Chain(p, net[0][p], call.buf, bcast[p], k)
  BY <1>7, <1>8 DEF Chain
<1>10. Replays(p, k)
  BY <1>5, <1>6, <1>7, <1>9 DEF Replays
<1> QED BY <1>1, <1>10 DEF Reporting

\* A client's report fits the grid that GridCopyin is about.
LEMMA PartsFitHolds == ASSUME Typed, Control, Contents PROVE PartsFit
<1> SUFFICES ASSUME NEW p \in Client, pc[0] = "GridCopyin", Pending(net, p, 0),
                    Oldest(net, p, 0).kind = "PART"
             PROVE  Oldest(net, p, 0).body \subseteq DOMAIN call.buf
  BY DEF PartsFit
<1>1. net[p][0] \in Seq(RpcMessage)
  BY ProcFacts DEF Typed, Nets
<1>2. Has(net[p][0], "PART") /\ Oldest(net, p, 0) = net[p][0][1]
  BY <1>1 DEF Has, Pending, Oldest
<1>3. call.next <= p /\ bcast[p] = << >>
  BY <1>2 DEF Control, Answers
<1>4. net[p][0] = <<PartMsg(Part(DOMAIN call.buf, p))>>
  BY <1>3 DEF Contents, Reporting
<1> QED BY <1>2, <1>4 DEF PartMsg, Part

LEMMA ContentsStep ==
  ASSUME Typed, Typed', Control, Fetching, AwaitClients, AvoidRemote, Contents, [Next]_vars
  PROVE  Contents'
<1> SUFFICES ASSUME NEW p \in Client PROVE (\E h : Replays(p, h)') /\ Reporting(p)'
  BY DEF Contents
<1>1. Reporting(p) /\ \E k : Replays(p, k)
  BY DEF Contents
<1>2. PICK k : Replays(p, k)
  BY <1>1
<1>3. CASE UNCHANGED vars
  <2>1. UNCHANGED <<net, ld, bcast, partials, pc, cur, call, grids, counter, remote, store>>
    BY <1>3 DEF vars, rpcVars, userVars
  <2>2. Waits(p) => Waits(p)'
    BY <2>1 DEF Waits
  <2>3. Extended(net[0][p], net'[0][p]) /\ \A n : Sorted(net[0][p], n) => Sorted(net'[0][p], n)
    BY <2>1, SortedSame
  <2>4. \E h : Replays(p, h)'
    BY <1>2, <2>1, <2>2, <2>3, ReplayElsewhere
  <2> QED BY <1>1, <2>1, <2>4 DEF Reporting
<1>4. ASSUME NEW r \in Proc, Fetch(r) PROVE (\E h : Replays(p, h)') /\ Reporting(p)'
  <2>1. Reporting(p)'
    BY <1>1, <1>4, FetchReporting
  <2> QED BY <1>2, <1>4, <2>1, ContentsFetch
<1>5. CASE UserStep
  <2>1. \E h : Replays(p, h)'
    BY <1>2, <1>5, ContentsUser
  <2>2. Reporting(p)'
    BY <1>5, UserReporting
  <2> QED BY <2>1, <2>2
<1>6. CASE MasterStep
  <2>1. CASE Fetch(0)
    BY <1>4, <2>1, ProcFacts
  <2>2. CASE \/ \E i \in Client : MasterCopyinNext(i) \/ MasterCopyoutNext(i)
             \/ MasterCopyinReturn \/ MasterCopyoutReturn \/ MasterGetReturn \/ MasterReduceReturn
    BY <1>1, <1>2, <2>2, ContentsMaster
  <2> QED BY <1>6, <2>1, <2>2 DEF MasterStep
<1>7. ASSUME NEW r \in Client, ClientStep(r) PROVE (\E h : Replays(p, h)') /\ Reporting(p)'
  <2>1. CASE Fetch(r)
    BY <1>4, <2>1, ProcFacts
  <2>2. CASE r # p /\ ~Fetch(r)
    BY <1>1, <1>2, <1>7, <2>2, ContentsOthers
  <2>3. CASE r = p /\ ~Fetch(r)
    <3>1. CASE ClientCopyinData(p) \/ ClientSetData(p)
      BY <1>1, <1>2, <3>1, ContentsReceives
    <3>2. CASE ClientGetReturn(p)
      BY <1>1, <1>2, <3>2, ContentsGetReturn
    <3>3. CASE \/ ClientNew(p) \/ ClientDelete(p) \/ ClientCopyin(p) \/ ClientCopyout(p)
               \/ ClientGet(p) \/ ClientSet(p) \/ ClientRun(p) \/ ClientReduce(p) \/ ClientFinalize(p)
      <4>1. \E h : Replays(p, h)'
        BY <1>2, <3>3, ContentsTakes
      <4>2. Reporting(p)'
        BY <1>2, <3>3, ReportingTakes
      <4> QED BY <4>1, <4>2
    <3> QED BY <1>7, <2>3, <3>1, <3>2, <3>3 DEF ClientStep
  <2> QED BY <2>1, <2>2, <2>3
<1> QED BY <1>3, <1>5, <1>6, <1>7 DEF Next, Stopped

-----------------------------------------------------------------------------
(* What follows for the properties of MasterClient.                         *)

\* A rank inside LoadSubgrid has nothing to receive but its messages.
LEMMA NoUnknownRequestHolds ==
  ASSUME Typed, Control, Fetching, Contents PROVE NoUnknownRequest
<1> SUFFICES ASSUME NEW p \in Proc, NEW q \in Proc, Listening(p), Pending(net, q, p)
             PROVE  Oldest(net, q, p).kind \in FetchKinds
  BY DEF NoUnknownRequest
<1>1. During(p)
  BY DEF Listening, Control, ActiveIsGet
<1>c. PICK c : c = net[q][p]
  OBVIOUS
<1>2. c \in Seq(RpcMessage) /\ c # << >> /\ Oldest(net, q, p) = c[1] /\ 1 \in DOMAIN c
  BY <1>c DEF Typed, Nets, Pending, Oldest
<1>k. PICK k : k = c[1].kind
  OBVIOUS
<1>3. k \in Allowed(q, p) /\ q # p
  <2>1. Only(c, Allowed(q, p))
    BY <1>c DEF Fetching, RequestInv, Channels
  <2>2. k \in Allowed(q, p)
    BY <1>2, <1>k, <2>1 DEF Only
  <2> QED BY <2>2 DEF Allowed
<1>4. CASE p = 0
  <2>1. q \in Client /\ pc[0] = "GridGet"
    BY <1>1, <1>3, <1>4, ProcFacts DEF During
  <2>2. ~Has(c, "PART") /\ ~Has(c, "DATA")
    BY <2>1, <1>4, <1>c DEF Control, Answers
  <2>3. k \notin {"PART", "DATA"}
    BY <1>2, <1>k, <2>2 DEF Has
  <2> QED BY <1>2, <1>3, <1>4, <1>k, <2>3 DEF Allowed, FetchKinds
<1>5. CASE p \in Client /\ q = 0
  <2>1. PICK h : Replays(p, h)
    BY <1>5 DEF Contents
  <2>2. Sorted(c, 0)
    BY <1>1, <1>5, <1>c, <2>1 DEF Replays, Ends
  <2>3. k \notin {"SET", "DATA"}
    BY <1>2, <1>k, <2>2 DEF Sorted
  <2> QED BY <1>2, <1>3, <1>5, <1>k, <2>3 DEF Allowed, FetchKinds
<1>6. CASE p \in Client /\ q # 0
  BY <1>2, <1>3, <1>6, <1>k, ProcFacts DEF Allowed, FetchKinds
<1> QED BY <1>4, <1>5, <1>6, ProcFacts

LEMMA ReceivesMatchHolds ==
  ASSUME Typed, Control, Fetching, Contents PROVE ReceivesMatch
<1> SUFFICES ASSUME NEW p \in Client
             PROVE  /\ pc[p] = "GridCopyin" /\ Pending(net, 0, p) => Oldest(net, 0, p).kind = "DATA"
                    /\ pc[p] = "GridSet" /\ Pending(net, 0, p) => Oldest(net, 0, p).kind = "SET"
                    /\ p = call.next /\ Pending(net, p, 0) =>
                         /\ pc[0] = "GridCopyin" => Oldest(net, p, 0).kind = "PART"
                         /\ pc[0] = "GridCopyout" => Oldest(net, p, 0).kind = "DATA"
  BY DEF ReceivesMatch
<1>0. p \in Proc /\ p # 0 /\ 0 \in Proc
  BY ProcFacts
<1>1. PICK h : Replays(p, h)
  BY DEF Contents
<1>s. PICK s : s = h[1]
  OBVIOUS
<1>2. Starts(p, s)
  BY <1>1, <1>s DEF Replays
<1>3. pc[p] = "GridCopyin" /\ Pending(net, 0, p) => Oldest(net, 0, p).kind = "DATA"
  <2> SUFFICES ASSUME pc[p] = "GridCopyin", Pending(net, 0, p)
               PROVE  Oldest(net, 0, p).kind = "DATA"
    OBVIOUS
  <2>1. ~Waits(p)
    BY DEF Pending, Waits
  <2>2. net[0][p][1].kind = "DATA"
    BY <1>2, <2>1 DEF Starts
  <2>3. Oldest(net, 0, p) = net[0][p][1]
    BY <1>0, DropFacts DEF Typed
  <2> QED BY <2>2, <2>3
<1>4. pc[p] = "GridSet" /\ Pending(net, 0, p) => Oldest(net, 0, p).kind = "SET"
  <2> SUFFICES ASSUME pc[p] = "GridSet", Pending(net, 0, p)
               PROVE  Oldest(net, 0, p).kind = "SET"
    OBVIOUS
  <2>2. net[0][p][1].kind = "SET"
    BY <1>2 DEF Starts, Writes
  <2>3. Oldest(net, 0, p) = net[0][p][1]
    BY <1>0, DropFacts DEF Typed
  <2> QED BY <2>2, <2>3
<1>5. ASSUME Pending(net, p, 0), pc[0] \in {"GridCopyin", "GridCopyout"}
      PROVE  /\ pc[0] = "GridCopyin" => Oldest(net, p, 0).kind = "PART"
             /\ pc[0] = "GridCopyout" => Oldest(net, p, 0).kind = "DATA"
  <2>c. PICK c : c = net[p][0]
    OBVIOUS
  <2>1. c \in Seq(RpcMessage) /\ c # << >> /\ Oldest(net, p, 0) = c[1] /\ 1 \in DOMAIN c
    BY <1>0, <1>5, <2>c DEF Typed, Nets, Pending, Oldest
  <2>2. c[1].kind \in {"PART", "DATA", "FETCH_REPLY", "DONE"}
    <3>1. Only(c, Allowed(p, 0))
      BY <1>0, <2>c DEF Fetching, RequestInv, Channels
    <3> QED BY <1>0, <2>1, <3>1 DEF Only, Allowed
  <2>3. ~During(0) /\ ~Before(0)
    <3>1. bcast[0] = << >>
      BY DEF Typed
    <3> QED BY <1>5, <3>1 DEF During, Before, Has
  <2>4. ~Has(c, "FETCH_REPLY") /\ ~Has(c, "DONE")
    BY <1>0, <2>3, <2>c DEF Fetching, RequestInv, DoneInv, DoneFrom, Asked
  <2>5. (Has(c, "PART") => pc[0] = "GridCopyin") /\ (Has(c, "DATA") => pc[0] = "GridCopyout")
    BY <2>c DEF Control, Answers
  <2>6. Has(c, c[1].kind)
    BY <2>1 DEF Has
  <2> QED BY <2>1, <2>2, <2>4, <2>5, <2>6
<1> QED BY <1>3, <1>4, <1>5

LEMMA GridsFoundHolds ==
  ASSUME Typed, Contents PROVE GridsFound
<1> SUFFICES ASSUME NEW p \in Client
             PROVE  /\ pc[p] = "Listen" /\ bcast[p] # << >> /\ Head(bcast[p]).kind \in GridCalls
                         => Knows(p, Opt(p))
                    /\ pc[p] = "GridSet" /\ Pending(net, 0, p) => Knows(p, Oldest(net, 0, p).body.id)
  BY DEF GridsFound
<1>0. p \in Proc /\ p # 0 /\ 0 \in Proc
  BY ProcFacts
<1>1. PICK k : Replays(p, k)
  BY DEF Contents
<1>2. pc[p] = "Listen" /\ bcast[p] # << >> /\ Head(bcast[p]).kind \in GridCalls => Knows(p, Opt(p))
  <2> SUFFICES ASSUME pc[p] = "Listen", bcast[p] # << >>, Head(bcast[p]).kind \in GridCalls
               PROVE  Knows(p, Opt(p))
    OBVIOUS
  <2>1. bcast[p] \in Seq(Requests)
    BY <1>0 DEF Typed
  <2>2. Head(bcast[p]) = bcast[p][1] /\ Len(bcast[p]) \in Nat /\ Len(bcast[p]) > 0
    BY <2>1, TakenFirst
  <2>3. Executes(p, net[0][p], call.buf, bcast[p][1], k[1], k[2])
    BY <1>1, <2>2 DEF Replays, Chain
  <2>4. k[1].tab = grids[p]
    BY <1>1 DEF Replays, Starts
  <2> QED BY <2>2, <2>3, <2>4 DEF Executes, Edits, Knows, Opt
<1>3. pc[p] = "GridSet" /\ Pending(net, 0, p) => Knows(p, Oldest(net, 0, p).body.id)
  <2> SUFFICES ASSUME pc[p] = "GridSet", Pending(net, 0, p)
               PROVE  Knows(p, Oldest(net, 0, p).body.id)
    OBVIOUS
  <2>1. Oldest(net, 0, p) = net[0][p][1]
    BY <1>0, DropFacts DEF Typed
  <2>2. net[0][p][1].body.id \in DOMAIN grids[p]
    BY <1>1 DEF Replays, Starts, Writes
  <2> QED BY <2>1, <2>2 DEF Knows
<1> QED BY <1>2, <1>3

\* A client that has nothing left to carry out.
LEMMA CarriedOut ==
  ASSUME Typed, Contents, NEW p \in Client, bcast[p] = << >>, pc[p] \notin {"GridSet", "GridCopyin"}
  PROVE  grids[p] = Mine(store, p) /\ Sorted(net[0][p], 0)
<1>1. PICK k : Replays(p, k)
  BY DEF Contents
<1>2. Len(bcast[p]) + 1 = 1
  OBVIOUS
<1>s. PICK s : s = k[1]
  OBVIOUS
<1>3. Starts(p, s) /\ Ends(p, s)
  BY <1>1, <1>2, <1>s DEF Replays
<1> QED BY <1>3 DEF Starts, Ends

LEMMA PartsAgreeHolds ==
  ASSUME Typed, Contents PROVE PartsAgree
BY CarriedOut DEF PartsAgree, Mine

LEMMA NothingLostHolds ==
  ASSUME Typed, Control, Fetching, Contents PROVE NothingLost
<1> SUFFICES ASSUME Exited, NEW p \in Proc, NEW q \in Proc PROVE net[p][q] = << >> /\ partials[p] = << >>
  BY DEF NothingLost
<1>0. 0 \in Proc /\ Client \subseteq Proc
  BY ProcFacts
<1>1. \A r \in Proc : pc[r] = "exit" /\ ~During(r) /\ bcast[r] = << >> /\ ~Before(r)
  <2>1. \A r \in Proc : pc[r] = "exit" /\ ~During(r)
    BY DEF Exited, During
  <2>2. \A r \in Proc : bcast[r] = << >>
    BY <2>1, ProcFacts DEF Typed, Control, Answers
  <2> QED BY <2>1, <2>2 DEF Before, Has
<1>2. partials[p] = << >>
  <2>1. CASE p = 0
    BY <2>1 DEF Typed
  <2>2. CASE p \in Client
    BY <1>0, <1>1, <2>2 DEF Control, Answers
  <2> QED BY <2>1, <2>2, ProcFacts
<1>c. PICK c : c = net[p][q]
  OBVIOUS
<1>3. c \in Seq(RpcMessage) /\ Only(c, Allowed(p, q))
  BY <1>c DEF Typed, Nets, Fetching, RequestInv, Channels
<1>4. \A k : ~Has(c, k)
  <2>1. ~Has(c, "DONE")
    BY <1>1, <1>c DEF Fetching, DoneInv, DoneFrom
  <2>2. CASE q = 0 /\ p \in Client
    <3>1. ~Has(c, "PART") /\ ~Has(c, "DATA") /\ ~Has(c, "FETCH_REPLY")
      BY <1>0, <1>1, <1>c, <2>2 DEF Control, Answers, Fetching, RequestInv, Asked
    <3> QED BY <1>3, <2>1, <2>2, <3>1, ProcFacts DEF Only, Allowed, Has
  <2>3. CASE p = 0 /\ q \in Client
    <3>1. Sorted(c, 0)
      BY <1>0, <1>1, <1>c, <2>3, CarriedOut
    <3>2. ~Has(c, "SET") /\ ~Has(c, "DATA")
      BY <1>3, <3>1 DEF Sorted, Has
    <3>3. ~Has(c, "FETCH_REQUEST")
      BY <1>0, <1>1, <1>c, <2>3 DEF Fetching, RequestInv, Asked
    <3> QED BY <1>3, <2>1, <2>3, <3>2, <3>3, ProcFacts DEF Only, Allowed, Has
  <2>4. CASE p = q \/ (p # 0 /\ q # 0)
    BY <1>3, <2>1, <2>4 DEF Only, Allowed, Has
  <2> QED BY <2>2, <2>3, <2>4, ProcFacts
<1>5. c = << >>
  <2>1. ASSUME c # << >> PROVE FALSE
    BY <1>3, <1>4, <2>1, TakenKinds
  <2> QED BY <2>1
<1> QED BY <1>2, <1>5, <1>c

-----------------------------------------------------------------------------
(* The values that the master collects for its call.                        *)

\* Every message of kind k in c carries v.
Carries(c, k, v) == \A i \in DOMAIN c : c[i].kind = k => c[i].body = v

\* The points of f on the ranks below n.
Below(f, n) == [x \in {y \in DOMAIN f : Owner[y] < n} |-> f[x]]

\* What p has still to contribute to GridCopyout or GridReduce of grid id.
Contributes(p, id) ==
  /\ bcast[p] # << >> => Last(p).opt = id
  /\ Carries(net[p][0], "DATA", Restricted(store[id], p))
  /\ partials[p] # << >> => partials[p][1] = Restricted(store[id], p)

Collects(id) ==
  /\ id \in DOMAIN store
  /\ pc[0] = "GridCopyout" => call.buf = Below(store[id], call.next)
  /\ pc[0] = "GridReduce" => call.buf = Restricted(store[id], 0)
  /\ \A p \in Client : Contributes(p, id)

\* How far the master is with PSGridGet of the point call.point of grid cur[0].
Wanted == store[cur[0]][call.point]
Gets ==
  /\ cur[0] \in DOMAIN store /\ call.point \in DOMAIN store[cur[0]]
  /\ cur[0] \in remote <=> Owner[call.point] # 0
  /\ Owner[call.point] # 0 /\ ld[0].remaining = 0 => ld[0].sg[Owner[call.point]] = Wanted
  /\ \A p \in Client : /\ Carries(net[0][p], "FETCH_REQUEST", call.point)
                       /\ Carries(net[p][0], "FETCH_REPLY", Wanted)

OwnParts == /\ grids[0] = Mine(store, 0)
            /\ \A id \in DOMAIN store : id < counter[0]

Values ==
  /\ OwnParts
  /\ pc[0] \in {"GridCopyout", "GridReduce"} => \E id : Collects(id)
  /\ pc[0] = "GridGet" => Gets

LEMMA CarriesFacts ==
  ASSUME NEW c \in Seq(RpcMessage), NEW k
  PROVE  /\ ~Has(c, k) => \A v : Carries(c, k, v)
         /\ \A v : \A m \in RpcMessage :
              Carries(c, k, v) /\ (m.kind = k => m.body = v) => Carries(Append(c, m), k, v)
         /\ c # << >> => \A v : Carries(c, k, v) =>
              Carries(Tail(c), k, v) /\ (Head(c).kind = k => Head(c).body = v)
         /\ \A d, v : SameButReplies(c, d) /\ k # "FETCH_REPLY" /\ Carries(c, k, v) => Carries(d, k, v)
<1>1. ~Has(c, k) => \A v : Carries(c, k, v)
  BY DEF Has, Carries
<1>2. ASSUME NEW v, NEW m \in RpcMessage, Carries(c, k, v), m.kind = k => m.body = v
      PROVE  Carries(Append(c, m), k, v)
  <2> DEFINE d == Append(c, m)
  <2>1. /\ DOMAIN d = 1 .. Len(c) + 1 /\ Len(c) \in Nat /\ DOMAIN c = 1 .. Len(c)
        /\ \A i \in 1 .. Len(c) : d[i] = c[i]
        /\ d[Len(c) + 1] = m
    BY SentLast
  <2> HIDE DEF d
  <2>2. ASSUME NEW i \in DOMAIN d, d[i].kind = k PROVE d[i].body = v
    <3>1. i \in DOMAIN c \/ i = Len(c) + 1
      BY <2>1
    <3>2. CASE i \in DOMAIN c
      BY <1>2, <2>1, <2>2, <3>2 DEF Carries
    <3>3. CASE i = Len(c) + 1
      BY <1>2, <2>1, <2>2, <3>3
    <3> QED BY <3>1, <3>2, <3>3
  <2>3. Carries(d, k, v)
    BY <2>2 DEF Carries
  <2> QED BY <2>3 DEF d
<1>3. ASSUME c # << >>, NEW v, Carries(c, k, v)
      PROVE  Carries(Tail(c), k, v) /\ (Head(c).kind = k => Head(c).body = v)
  <2> DEFINE d == Tail(c)
  <2>1. /\ Head(c) = c[1] /\ Len(c) \in Nat /\ Len(c) > 0 /\ DOMAIN c = 1 .. Len(c)
        /\ DOMAIN d = 1 .. Len(c) - 1 /\ \A i \in 1 .. Len(c) - 1 : d[i] = c[i + 1]
    BY <1>3, TakenFirst
  <2> HIDE DEF d
  <2>2. 1 \in DOMAIN c /\ \A i \in DOMAIN d : i + 1 \in DOMAIN c /\ d[i] = c[i + 1]
    BY <2>1
  <2>3. Carries(d, k, v)
    BY <1>3, <2>2 DEF Carries
  <2>4. Head(c).kind = k => Head(c).body = v
    BY <1>3, <2>1, <2>2 DEF Carries
  <2> QED BY <2>3, <2>4 DEF d
<1>4. ASSUME NEW d, NEW v, SameButReplies(c, d), k # "FETCH_REPLY", Carries(c, k, v)
      PROVE  Carries(d, k, v)
  BY <1>4 DEF SameButReplies, Carries
<1> QED BY <1>1, <1>2, <1>3, <1>4

\* The parts of a grid make up the grid.
LEMMA BelowFacts ==
  ASSUME NEW f \in PartFun
  PROVE  /\ Restricted(f, 0) = Below(f, 1)
         /\ \A n \in Nat : Merged(Restricted(f, n), Below(f, n)) = Below(f, n + 1)
         /\ Below(f, NProcs) = f
<1>1. \A x \in DOMAIN f : Owner[x] \in Nat /\ Owner[x] < NProcs
  BY ProcFacts, MasterClientAssumption, PartFunFacts DEF Proc
<1>2. Restricted(f, 0) = Below(f, 1)
  <2>1. \A x \in DOMAIN f : Owner[x] = 0 <=> Owner[x] < 1
    BY <1>1
  <2>2. {x \in DOMAIN f : Owner[x] = 0} = {x \in DOMAIN f : Owner[x] < 1}
    BY <2>1
  <2> QED BY <2>2 DEF Restricted, Below, Part
<1>3. ASSUME NEW n \in Nat
      PROVE  Merged(Restricted(f, n), Below(f, n)) = Below(f, n + 1)
  <2>1. \A x \in DOMAIN f : Owner[x] < n + 1 <=> Owner[x] = n \/ Owner[x] < n
    BY <1>1
  <2> DEFINE g == Restricted(f, n)
             h == Below(f, n)
  <2>2. /\ DOMAIN g = {x \in DOMAIN f : Owner[x] = n} /\ \A x \in DOMAIN g : g[x] = f[x]
        /\ DOMAIN h = {x \in DOMAIN f : Owner[x] < n} /\ \A x \in DOMAIN h : h[x] = f[x]
    BY DEF Restricted, Below, Part
  <2> HIDE DEF g, h
  <2>3. DOMAIN g \cup DOMAIN h = {x \in DOMAIN f : Owner[x] < n + 1}
    BY <2>1, <2>2
  <2>4. \A x \in DOMAIN g \cup DOMAIN h : (IF x \in DOMAIN g THEN g[x] ELSE h[x]) = f[x]
    BY <2>2
  <2>5. Merged(g, h) = Below(f, n + 1)
    BY <2>3, <2>4 DEF Merged, Below
  <2> QED BY <2>5 DEF g, h
<1>4. Below(f, NProcs) = f
  <2>1. {x \in DOMAIN f : Owner[x] < NProcs} = DOMAIN f
    BY <1>1
  <2>2. f \in [DOMAIN f -> Data]
    BY PartFunFacts
  <2> QED BY <2>1, <2>2 DEF Below
<1> QED BY <1>2, <1>3, <1>4

\* What the master holds itself.
LEMMA OwnUser ==
  ASSUME Typed, AvoidRemote, OwnParts, UserStep PROVE OwnParts'
<1>0. 0 \in Proc /\ grids \in [Proc -> Table] /\ counter \in [Proc -> Nat] /\ store \in Table
  BY ProcFacts DEF Typed
<1>m. PICK m : m = Mine(store, 0)
  OBVIOUS
<1>g. grids[0] = m /\ \A id \in DOMAIN store : id < counter[0]
  BY <1>m DEF OwnParts
<1>1. ASSUME NEW s \in Shape, MasterNew(s) PROVE OwnParts'
  <2>1. /\ grids' = CreateGrid(grids, 0, s)
        /\ counter' = [counter EXCEPT ![0] = @ + 1]
        /\ store' = With(store, counter[0], [x \in s |-> Zero])
    BY <1>1 DEF MasterNew
  <2>2. grids'[0] = With(m, counter[0], Zeros(Part(s, 0))) /\ counter'[0] = counter[0] + 1
    BY <1>0, <1>g, <2>1 DEF CreateGrid, Zeros
  <2>3. store' = With(store, counter[0], Zeros(s))
    BY <2>1 DEF Zeros
  <2>4. Mine(store', 0) = With(m, counter[0], Zeros(Part(s, 0)))
    BY <1>m, <2>3, MineFacts
  <2>5. DOMAIN store' = DOMAIN store \cup {counter[0]}
    BY <2>3 DEF With
  <2>6. \A id \in DOMAIN store' : id < counter'[0]
    <3>1. DOMAIN store \subseteq Nat /\ counter[0] \in Nat
      BY <1>0, TableFacts
    <3> QED BY <1>g, <2>2, <2>5, <3>1
  <2> QED BY <2>2, <2>4, <2>6 DEF OwnParts
<1>2. ASSUME NEW id \in DOMAIN store, MasterDelete(id) PROVE OwnParts'
  <2>1. grids' = DeleteGrid(grids, 0, id) /\ store' = Without(store, id) /\ counter' = counter
    BY <1>2 DEF MasterDelete
  <2>2. grids'[0] = Without(m, id)
    BY <1>0, <1>g, <2>1 DEF DeleteGrid
  <2>3. Mine(store', 0) = Without(m, id)
    BY <1>m, <2>1, MineFacts
  <2>4. DOMAIN store' \subseteq DOMAIN store
    BY <2>1 DEF Without
  <2> QED BY <1>g, <2>1, <2>2, <2>3, <2>4 DEF OwnParts
<1>3. ASSUME NEW id \in DOMAIN store, NEW buf \in [DOMAIN store[id] -> Data], MasterCopyin(id, buf)
      PROVE  OwnParts'
  <2>1. grids' = [grids EXCEPT ![0][id] = Restricted(buf, 0)] /\ store' = [store EXCEPT ![id] = buf]
        /\ counter' = counter
    BY <1>3 DEF MasterCopyin
  <2>2. grids'[0] = [m EXCEPT ![id] = Restricted(buf, 0)]
    BY <1>0, <1>g, <2>1
  <2>3. Mine(store', 0) = [m EXCEPT ![id] = Restricted(buf, 0)]
    <3>1. Mine([store EXCEPT ![id] = buf], 0) = [Mine(store, 0) EXCEPT ![id] = Restricted(buf, 0)]
      BY MineFacts
    <3> QED BY <1>m, <2>1, <3>1
  <2>4. DOMAIN store' = DOMAIN store
    BY <2>1
  <2> QED BY <1>g, <2>1, <2>2, <2>3, <2>4 DEF OwnParts
<1>4. ASSUME NEW id \in DOMAIN store, NEW x \in DOMAIN store[id], NEW v \in Data,
             MasterSetRemote(id, x, v)
      PROVE  OwnParts'
  <2>1. grids' = grids /\ store' = SetPoint(store, id, x, v) /\ counter' = counter /\ Owner[x] # 0
    BY <1>4 DEF MasterSetRemote, SetPoint
  <2>2. Mine(store', 0) = m
    BY <1>m, <2>1, MineFacts
  <2>3. DOMAIN store' = DOMAIN store
    BY <2>1 DEF SetPoint
  <2> QED BY <1>g, <2>1, <2>2, <2>3 DEF OwnParts
<1>5. ASSUME NEW id \in DOMAIN store, NEW x \in DOMAIN store[id], NEW v \in Data,
             MasterSetLocal(id, x, v)
      PROVE  OwnParts'
  <2>1. /\ grids' = [grids EXCEPT ![0][id][x] = v] /\ store' = SetPoint(store, id, x, v)
        /\ counter' = counter /\ Owner[x] = 0
    BY <1>5, MasterClientAssumption DEF MasterSetLocal, MayTouch, SetPoint
  <2>2. grids'[0] = SetPoint(m, id, x, v)
    BY <1>0, <1>g, <2>1 DEF SetPoint
  <2>3. Mine(store', 0) = SetPoint(m, id, x, v)
    BY <1>m, <2>1, MineFacts
  <2>4. DOMAIN store' = DOMAIN store
    BY <2>1 DEF SetPoint
  <2> QED BY <1>g, <2>1, <2>2, <2>3, <2>4 DEF OwnParts
<1>6. ASSUME NEW id \in DOMAIN store, MasterRun(id) PROVE OwnParts'
  <2>1. /\ grids' = RunKernel(grids, 0, id) /\ MayTouch(id) /\ counter' = counter
        /\ store' = [store EXCEPT ![id] = [x \in DOMAIN @ |-> Kernel[@[x]]]]
    BY <1>6 DEF MasterRun
  <2>2. id \in DOMAIN grids[0] /\ id \notin remote
    BY <2>1, MasterClientAssumption DEF Typed, MayTouch
  <2>3. RunKernel(grids, 0, id) =
          [grids EXCEPT ![0][id] = [x \in DOMAIN grids[0][id] |-> Kernel[grids[0][id][x]]]]
    BY <1>0, <2>2, KernelFacts
  <2>4. grids'[0] = [m EXCEPT ![id] = Runs(m[id])]
    BY <1>0, <1>g, <2>1, <2>3 DEF Runs
  <2>5. store' = [store EXCEPT ![id] = Runs(store[id])]
    BY <2>1 DEF Runs
  <2>6. Mine(store', 0) = [m EXCEPT ![id] = Runs(m[id])]
    <3>1. Mine([store EXCEPT ![id] = Runs(store[id])], 0)
            = [Mine(store, 0) EXCEPT ![id] = Runs(Mine(store, 0)[id])]
      BY MineFacts
    <3> QED BY <1>m, <2>5, <3>1
  <2>7. DOMAIN store' = DOMAIN store
    BY <2>5
  <2> QED BY <1>g, <2>1, <2>4, <2>6, <2>7 DEF OwnParts
<1>7. ASSUME \/ \E id \in DOMAIN store : \/ MasterCopyout(id) \/ MasterReduce(id)
                                         \/ \E x \in DOMAIN store[id] : MasterGet(id, x)
             \/ MasterFinalize
      PROVE  OwnParts'
  <2>1. grids' = grids /\ store' = store /\ counter' = counter
    BY <1>7 DEF MasterCopyout, MasterReduce, MasterGet, MasterFinalize, userVars
  <2> QED BY <2>1 DEF OwnParts
<1> QED BY <1>1, <1>2, <1>3, <1>4, <1>5, <1>6, <1>7 DEF UserStep

LEMMA OwnOthers ==
  ASSUME Typed, OwnParts, MasterStep \/ (\E p \in Client : ClientStep(p)) \/ Stopped
  PROVE  OwnParts' /\ store' = store /\ grids'[0] = grids[0]
<1>0. 0 \in Proc /\ grids \in [Proc -> Table] /\ counter \in [Proc -> Nat] /\ \A p \in Client : p # 0
  BY ProcFacts DEF Typed
<1>1. store' = store /\ grids'[0] = grids[0] /\ counter'[0] = counter[0]
  <2>1. CASE Stopped
    BY <2>1 DEF Stopped, vars, rpcVars, userVars
  <2>2. ASSUME NEW r \in Proc, Fetch(r)
        PROVE  store' = store /\ grids'[0] = grids[0] /\ counter'[0] = counter[0]
    BY <2>2, ZenonT(30) DEF Fetch, Announce, CountDone, Serve, TakeReply, fetchFrame, rpcVars, userVars
  <2>3. CASE MasterStep
    <3>1. CASE Fetch(0)
      BY <1>0, <2>2, <3>1, ZenonT(30)
    <3>2. CASE ~Fetch(0)
      BY <2>3, <3>2 DEF MasterStep, MasterCopyinNext, MasterCopyoutNext, MasterCopyinReturn,
         MasterCopyoutReturn, MasterGetReturn, MasterReduceReturn, userVars
    <3> QED BY <3>1, <3>2, ZenonT(30)
  <2>4. ASSUME NEW p \in Client, ClientStep(p)
        PROVE  store' = store /\ grids'[0] = grids[0] /\ counter'[0] = counter[0]
    <3>1. CASE Fetch(p)
      BY <2>2, <3>1, ProcFacts
    <3>2. CASE ~Fetch(p)
      <4>1. store' = store
        BY <2>4, <3>2 DEF ClientStep, ClientNew, ClientDelete, ClientCopyin, ClientCopyinData,
           ClientCopyout, ClientGet, ClientGetReturn, ClientSet, ClientSetData, ClientRun,
           ClientReduce, ClientFinalize, clientFrame, userVars
      <4>2. grids'[0] = grids[0] /\ counter'[0] = counter[0]
        BY <1>0, <2>4, <3>2 DEF ClientStep, ClientNew, ClientDelete, ClientCopyin, ClientCopyinData,
           ClientCopyout, ClientGet, ClientGetReturn, ClientSet, ClientSetData, ClientRun,
           ClientReduce, ClientFinalize, CreateGrid, DeleteGrid, RunKernel
      <4> QED BY <4>1, <4>2
    <3> QED BY <3>1, <3>2
  <2> QED BY <2>1, <2>3, <2>4
<1> QED BY <1>1 DEF OwnParts

\* What all messages of kind k carry, they carry still.
Passes(s, t, k) == \A v : Carries(s, k, v) => Carries(t, k, v)

LEMMA NetCarries ==
  ASSUME NEW n \in Nets, NEW a \in Proc, NEW b \in Proc, NEW k
  PROVE  /\ Passes(n[a][b], n[a][b], k)
         /\ \A s, d \in Proc, m \in RpcMessage :
              m.kind # k => Passes(n[a][b], Put(n, s, d, m)[a][b], k)
         /\ \A m \in RpcMessage : m.kind # k => Passes(n[a][b], Append(n[a][b], m), k)
         /\ \A s, d \in Proc : Pending(n, s, d) => Passes(n[a][b], Drop(n, s, d)[a][b], k)
         /\ \A p \in Proc : k # "FETCH_REPLY" => Passes(n[a][b], Reallocate(n, p)[a][b], k)
<1>1. Passes(n[a][b], n[a][b], k) /\ n[a][b] \in Seq(RpcMessage)
  BY DEF Passes, Nets
<1>2. \A m \in RpcMessage : m.kind # k => Passes(n[a][b], Append(n[a][b], m), k)
  BY <1>1, CarriesFacts DEF Passes
<1>3. ASSUME NEW s \in Proc, NEW d \in Proc, NEW m \in RpcMessage, m.kind # k
      PROVE  Passes(n[a][b], Put(n, s, d, m)[a][b], k)
  <2>1. \/ Put(n, s, d, m)[a][b] = n[a][b]
        \/ Put(n, s, d, m)[a][b] = Append(n[a][b], m)
    <3>1. CASE a = s /\ b = d
      BY <3>1, PutFacts
    <3>2. CASE a # s \/ b # d
      BY <3>2, PutFacts
    <3> QED BY <3>1, <3>2
  <2> QED BY <1>1, <1>2, <1>3, <2>1
<1>4. ASSUME NEW s \in Proc, NEW d \in Proc, Pending(n, s, d)
      PROVE  Passes(n[a][b], Drop(n, s, d)[a][b], k)
  <2>1. CASE a = s /\ b = d
    <3>c. PICK c : c = n[a][b]
      OBVIOUS
    <3>1. Drop(n, s, d)[a][b] = Tail(c) /\ c # << >> /\ c \in Seq(RpcMessage)
      BY <1>1, <1>4, <2>1, <3>c, DropFacts
    <3>2. \A v : Carries(c, k, v) => Carries(Tail(c), k, v)
      BY ONLY <3>1, CarriesFacts
    <3> QED BY <3>c, <3>1, <3>2 DEF Passes
  <2>2. CASE ~(a = s /\ b = d)
    BY <1>1, <1>4, <2>2, DropFacts
  <2> QED BY <2>1, <2>2
<1>5. ASSUME NEW p \in Proc, k # "FETCH_REPLY" PROVE Passes(n[a][b], Reallocate(n, p)[a][b], k)
  <2>c. PICK c : c = n[a][b]
    OBVIOUS
  <2>e. PICK e : e = Reallocate(n, p)[a][b]
    OBVIOUS
  <2>1. SameButReplies(c, e) /\ c \in Seq(RpcMessage)
    BY <1>1, <2>c, <2>e, ReallocateFacts
  <2>2. \A v : Carries(c, k, v) => Carries(e, k, v)
    BY ONLY <1>5, <2>1, CarriesFacts
  <2> QED BY <2>c, <2>e, <2>2 DEF Passes
<1> QED BY <1>1, <1>2, <1>3, <1>4, <1>5

LEMMA FetchCarries ==
  ASSUME Typed, NEW r \in Proc, Fetch(r), pc[r] = "GridGet", NEW a \in Proc, NEW b \in Proc,
         NEW k, k \notin {"FETCH_REPLY", "DONE"}
  PROVE  Passes(net[a][b], net'[a][b], k)
<1>1. net \in Nets /\ r \in Proc
  BY DEF Typed
<1>2. \A s, t, u : Passes(s, t, k) /\ Passes(t, u, k) => Passes(s, u, k)
  BY DEF Passes
<1>3. CASE Announce(r)
  <2>1. net'[a][b] = net[a][b] \/ net'[a][b] = Append(net[a][b], Done(0))
    BY <1>3, AnnounceFacts
  <2> QED BY <1>1, <2>1, MessageFacts, NetCarries DEF Done
<1>4. ASSUME NEW q \in Proc, CountDone(r, q) PROVE Passes(net[a][b], net'[a][b], k)
  BY <1>1, <1>4, NetCarries DEF CountDone, RecvDone, Hears
<1>5. ASSUME NEW q \in Proc, Serve(r, q) PROVE Passes(net[a][b], net'[a][b], k)
  <2> DEFINE v == ContentAt(r, cur[r], Oldest(net, q, r).body)
             n1 == Drop(net, q, r)
             n2 == Reallocate(n1, r)
  <2>1. Pending(net, q, r) /\ net' = Put(n2, r, q, Reply(v)) /\ Reply(v).kind = "FETCH_REPLY"
    BY <1>5 DEF Serve, HandleFetchRequest, Hears, Reply
  <2>2. v \in Data \cup {Garbage}
    BY GridFacts DEF Typed
  <2> HIDE DEF v
  <2>3. n1 \in Nets /\ Passes(net[a][b], n1[a][b], k)
    BY <1>1, <2>1, DropFacts, NetCarries
  <2> HIDE DEF n1
  <2>4. n2 \in Nets /\ Passes(n1[a][b], n2[a][b], k)
    BY <2>3, ReallocateFacts, NetCarries
  <2> HIDE DEF n2
  <2>5. Passes(n2[a][b], net'[a][b], k)
    BY <2>1, <2>2, <2>4, MessageFacts, NetCarries
  <2> QED BY <1>2, <2>3, <2>4, <2>5
<1>6. ASSUME NEW q \in Proc, TakeReply(r, q) PROVE Passes(net[a][b], net'[a][b], k)
  <2> DEFINE n1 == Reallocate(net, r)
  <2>1. Pending(net, q, r) /\ net' = Drop(n1, q, r)
    BY <1>6 DEF TakeReply, HandleFetchReply, Hears
  <2>2. n1 \in Nets /\ Passes(net[a][b], n1[a][b], k)
    BY <1>1, ReallocateFacts, NetCarries
  <2>3. Pending(n1, q, r)
    <3>1. net[q][r] \in Seq(RpcMessage) /\ SameButReplies(net[q][r], n1[q][r])
      BY <1>1, ReallocateFacts DEF Nets
    <3> QED BY <2>1, <3>1, SameKinds DEF Pending
  <2> HIDE DEF n1
  <2>4. Passes(n1[a][b], net'[a][b], k)
    BY <2>1, <2>2, <2>3, NetCarries
  <2> QED BY <1>2, <2>2, <2>4
<1> QED BY <1>3, <1>4, <1>5, <1>6 DEF Fetch

\* A call that collects values from the clients begins.
LEMMA CollectsBegins ==
  ASSUME Typed, Control, OwnParts, NEW id \in DOMAIN store, MasterCopyout(id) \/ MasterReduce(id)
  PROVE  Collects(id)'
<1>0. 0 \in Proc /\ Client \subseteq Proc /\ store[id] \in PartFun
  BY ProcFacts, StoreFacts
<1>1. /\ pc[0] = "user" /\ UNCHANGED <<net, partials, store>>
      /\ call'.buf = grids[0][id] /\ call'.next = 1
      /\ pc'[0] \in {"GridCopyout", "GridReduce"}
  BY <1>0 DEF MasterCopyout, MasterReduce, UserCalls, NoCall, Typed
<1>m. PICK m \in Requests : m.opt = id /\ Notify(m)
  <2>1. \E k \in IdKinds : Notify(Req(k, id))
    BY DEF MasterCopyout, MasterReduce, IdKinds
  <2>2. \A k \in IdKinds : Req(k, id) \in Requests /\ Req(k, id).opt = id
    BY RequestFacts, StoreFacts DEF Req
  <2> QED BY <2>1, <2>2
<1>2. grids[0][id] = Restricted(store[id], 0)
  BY MineFacts DEF OwnParts
<1>3. Restricted(store[id], 0) = Below(store[id], 1)
  BY <1>0, BelowFacts
<1>4. ASSUME NEW p \in Client PROVE Contributes(p, id)'
  <2>1. Last(p)' = m
    <3>1. bcast'[p] = Append(bcast[p], m) /\ bcast[p] \in Seq(Requests)
      BY <1>0, <1>m, NotifyFacts DEF Typed
    <3> QED BY <3>1, SentLast DEF Last
  <2>2. ~Has(net[p][0], "DATA") /\ partials[p] = << >>
    BY <1>1 DEF Control, Answers
  <2>3. Carries(net[p][0], "DATA", Restricted(store[id], p))
    BY <2>2 DEF Has, Carries
  <2> QED BY <1>1, <1>m, <2>1, <2>2, <2>3 DEF Contributes
<1> QED BY <1>1, <1>2, <1>3, <1>4 DEF Collects

\* What a step of client r outside of LoadSubgrid leaves alone.
LEMMA ClientLeaves ==
  ASSUME Typed, NEW r \in Client, ClientStep(r), ~Fetch(r)
  PROVE  /\ UNCHANGED <<call, remote, store, result>>
         /\ cur'[0] = cur[0] /\ pc'[0] = pc[0] /\ ld'[0] = ld[0]
         /\ \A p \in Client : p # r => /\ bcast'[p] = bcast[p] /\ partials'[p] = partials[p]
                                       /\ net'[p][0] = net[p][0] /\ net'[0][p] = net[0][p]
<1>1. /\ r \in Proc /\ r # 0 /\ 0 \in Proc /\ net \in Nets /\ ld \in [Proc -> LoadFields]
      /\ pc \in [Proc -> MasterMethods \cup ClientMethods] /\ cur \in [Proc -> Nat]
      /\ bcast \in [Proc -> Seq(Requests)] /\ partials \in [Proc -> Seq(PartFun)]
  BY ProcFacts DEF Typed
<1>2. UNCHANGED <<call, remote, store, result>>
  BY DEF ClientStep, ClientNew, ClientDelete, ClientCopyin, ClientCopyinData, ClientCopyout,
     ClientGet, ClientGetReturn, ClientSet, ClientSetData, ClientRun, ClientReduce, ClientFinalize,
     clientFrame, userVars
<1>3. pc'[0] = pc[0] /\ cur'[0] = cur[0]
  BY <1>1 DEF ClientStep, ClientNew, ClientDelete, ClientCopyin, ClientCopyinData, ClientCopyout,
     ClientGet, ClientGetReturn, ClientSet, ClientSetData, ClientRun, ClientReduce, ClientFinalize
<1>4. ld'[0] = ld[0]
  <2>1. CASE ClientGet(r)
    BY <1>1, <2>1, ClientBegins
  <2>2. CASE ~ClientGet(r)
    BY <1>1, <2>2 DEF ClientStep, ClientNew, ClientDelete, ClientCopyin, ClientCopyinData,
       ClientCopyout, ClientGetReturn, ClientSet, ClientSetData, ClientRun, ClientReduce,
       ClientFinalize, EndLoad
  <2> QED BY <2>1, <2>2
<1>5. bcast' = bcast \/ bcast' = [bcast EXCEPT ![r] = Tail(@)]
  BY DEF Takes, ClientStep, ClientNew, ClientDelete, ClientCopyin, ClientCopyinData, ClientCopyout,
     ClientGet, ClientGetReturn, ClientSet, ClientSetData, ClientRun, ClientReduce, ClientFinalize
<1>6. partials' = partials \/ \E f : partials' = [partials EXCEPT ![r] = f]
  BY DEF ClientStep, ClientNew, ClientDelete, ClientCopyin, ClientCopyinData, ClientCopyout,
     ClientGet, ClientGetReturn, ClientSet, ClientSetData, ClientRun, ClientReduce, ClientFinalize
<1>7. net' = net \/ (\E m : net' = Put(net, r, 0, m)) \/ net' = Drop(net, 0, r)
  <2>1. CASE ClientGet(r)
    BY <2>1, ClientBegins
  <2>2. CASE ~ClientGet(r)
    BY <2>2 DEF ClientStep, ClientNew, ClientDelete, ClientCopyin, ClientCopyinData,
         ClientCopyout, ClientGetReturn, ClientSet, ClientSetData, ClientRun, ClientReduce,
         ClientFinalize, EndLoad
  <2> QED BY <2>1, <2>2
<1>8. ASSUME NEW p \in Client, p # r
      PROVE  /\ bcast'[p] = bcast[p] /\ partials'[p] = partials[p]
             /\ net'[p][0] = net[p][0] /\ net'[0][p] = net[0][p]
  <2>1. p \in Proc /\ p # 0
    BY ProcFacts
  <2>2. bcast'[p] = bcast[p]
    BY <1>1, <1>5, <1>8, <2>1
  <2>3. partials'[p] = partials[p]
    BY <1>1, <1>6, <1>8, <2>1
  <2>4. net'[p][0] = net[p][0] /\ net'[0][p] = net[0][p]
    <3>1. CASE net' = net
      BY <3>1
    <3>2. ASSUME NEW m, net' = Put(net, r, 0, m) PROVE net'[p][0] = net[p][0] /\ net'[0][p] = net[0][p]
      <4>1. \E e : net' = [net EXCEPT ![r][0] = e]
        BY <3>2 DEF Put
      <4> QED BY ONLY <1>1, <1>8, <2>1, <4>1 DEF Nets
    <3>3. CASE net' = Drop(net, 0, r)
      <4>1. \E e : net' = [net EXCEPT ![0][r] = e]
        BY <3>3 DEF Drop
      <4> QED BY ONLY <1>1, <1>8, <2>1, <4>1 DEF Nets
    <3> QED BY <1>7, <3>1, <3>2, <3>3
  <2> QED BY <2>2, <2>3, <2>4
<1> QED BY <1>2, <1>3, <1>4, <1>8

LEMMA ContributesSame ==
  ASSUME NEW p \in Client, NEW id, Contributes(p, id), store' = store, bcast'[p] = bcast[p],
         partials'[p] = partials[p], Passes(net[p][0], net'[p][0], "DATA")
  PROVE  Contributes(p, id)'
BY DEF Contributes, Passes, Last

LEMMA CollectsSame ==
  ASSUME NEW id, Collects(id), UNCHANGED <<pc[0], call, store>>,
         \A p \in Client : Contributes(p, id)'
  PROVE  Collects(id)'
BY DEF Collects

\* A client that takes a request for its part has its part of what the program
\* has written.
LEMMA TakenPart ==
  ASSUME Typed, Control, Contents, NEW p \in Client, NEW kind \in {"FUNC_COPYOUT", "FUNC_GRID_REDUCE"},
         Takes(p, kind), NEW id \in DOMAIN store, Last(p).opt = id
  PROVE  /\ Opt(p) = id /\ grids[p][id] = Restricted(store[id], p)
         /\ Restricted(store[id], p) \in PartFun /\ bcast'[p] = << >>
<1>1. PICK k : Replays(p, k)
  BY DEF Contents
<1>2. /\ bcast[p] # << >> /\ bcast'[p] = Tail(bcast[p]) /\ bcast[p][1].kind = kind
      /\ bcast[p][1].opt = Opt(p) /\ k[1].tab = grids[p]
      /\ Edits(p, call.buf, bcast[p][1], grids[p], counter[p], k[2].tab, k[2].next)
  BY <1>1, TakingFacts
<1>c. PICK c \in Seq(Requests) : c = bcast[p]
  BY ProcFacts DEF Typed
<1>3. Len(c) \in Nat /\ Len(c) > 0 /\ DOMAIN c = 1 .. Len(c) /\ (Tail(c) = << >> <=> Len(c) = 1)
  BY <1>2, <1>c, TakenFirst
<1>4. Len(c) = 1
  <2>1. kind \in Answered /\ 1 \in DOMAIN c
    BY <1>3 DEF Answered
  <2>2. Ordered(p)
    BY DEF Control
  <2> QED BY <1>2, <1>c, <2>1, <2>2 DEF Ordered
<1>5. Opt(p) = id /\ bcast'[p] = << >>
  BY <1>2, <1>3, <1>4, <1>c DEF Last
<1>6. k[2].tab = grids[p]
  BY <1>2 DEF Edits, NoEdit
<1>7. k[2].tab = Mine(store, p)
  <2>s. PICK s : s = k[Len(c) + 1]
    OBVIOUS
  <2>1. Ends(p, s)
    BY <1>1, <1>c, <2>s DEF Replays
  <2>2. Len(c) + 1 = 2
    BY ONLY <1>4
  <2>3. s = k[2]
    BY ONLY <2>s, <2>2
  <2> QED BY <2>1, <2>3 DEF Ends
<1>8. Mine(store, p)[id] = Restricted(store[id], p)
  BY MineFacts
<1>9. Restricted(store[id], p) \in PartFun
  BY StoreFacts, PartEdits
<1> QED BY <1>5, <1>6, <1>7, <1>8, <1>9

LEMMA CollectsClient ==
  ASSUME Typed, Control, Contents, NEW p \in Client, NEW id \in DOMAIN store, Contributes(p, id),
         pc[0] \in {"GridCopyout", "GridReduce"}, ClientStep(p), ~Fetch(p)
  PROVE  Contributes(p, id)'
<1>0. p \in Proc /\ p # 0 /\ 0 \in Proc /\ net \in Nets /\ bcast[p] \in Seq(Requests)
  BY ProcFacts DEF Typed
<1>1. store' = store
  BY ClientLeaves
<1>s. PICK s : s = Restricted(store[id], p)
  OBVIOUS
<1>2. CASE ClientCopyout(p)
  <2>1. Takes(p, "FUNC_COPYOUT") /\ net' = Put(net, p, 0, DataMsg(grids[p][Opt(p)])) /\ partials' = partials
    BY <1>2 DEF ClientCopyout
  <2>2. Last(p).opt = id
    BY <2>1 DEF Contributes, Takes
  <2>3. Opt(p) = id /\ grids[p][id] = s /\ s \in PartFun /\ bcast'[p] = << >>
    BY <1>s, <2>1, <2>2, TakenPart
  <2>m. PICK m : m = DataMsg(s)
    OBVIOUS
  <2>4. m \in RpcMessage /\ m.body = s
    BY <2>3, <2>m, MessageFacts DEF DataMsg
  <2>5. net'[p][0] = Append(net[p][0], m)
    BY <1>0, <2>1, <2>3, <2>4, <2>m, PutFacts
  <2>c. PICK c \in Seq(RpcMessage) : c = net[p][0]
    BY <1>0 DEF Nets
  <2>6. Carries(c, "DATA", s)
    BY <1>s, <2>c DEF Contributes
  <2>7. Carries(Append(c, m), "DATA", s)
    BY <2>4, <2>6, CarriesFacts
  <2>8. partials'[p] # << >> => partials'[p][1] = s
    BY <1>s, <2>1 DEF Contributes
  <2> QED BY <1>1, <1>s, <2>3, <2>5, <2>7, <2>8, <2>c DEF Contributes
<1>3. CASE ClientReduce(p)
  <2>1. /\ Takes(p, "FUNC_GRID_REDUCE") /\ net' = net
        /\ partials' = [partials EXCEPT ![p] = Append(@, grids[p][Opt(p)])]
    BY <1>3 DEF ClientReduce
  <2>2. Last(p).opt = id /\ partials[p] = << >>
    BY <2>1 DEF Contributes, Takes, Control, Answers
  <2>3. Opt(p) = id /\ grids[p][id] = s /\ s \in PartFun /\ bcast'[p] = << >>
    BY <1>s, <2>1, <2>2, TakenPart
  <2>4. partials'[p] = Append(partials[p], s)
    BY <1>0, <2>1, <2>3 DEF Typed
  <2>5. partials'[p][1] = s
    BY <2>2, <2>4
  <2> QED BY <1>1, <1>s, <2>1, <2>3, <2>5 DEF Contributes
<1>4. CASE ~ClientCopyout(p) /\ ~ClientReduce(p)
  <2>1. partials' = partials
    BY <1>4 DEF ClientStep, ClientNew, ClientDelete, ClientCopyin, ClientCopyinData,
       ClientGet, ClientGetReturn, ClientSet, ClientSetData, ClientRun, ClientFinalize
  <2>2. bcast'[p] = bcast[p] \/ (bcast'[p] = Tail(bcast[p]) /\ bcast[p] # << >>)
    <3>1. bcast' = bcast \/ (bcast' = [bcast EXCEPT ![p] = Tail(@)] /\ bcast[p] # << >>)
      BY <1>4 DEF Takes, ClientStep, ClientNew, ClientDelete, ClientCopyin, ClientCopyinData,
         ClientGet, ClientGetReturn, ClientSet, ClientSetData, ClientRun, ClientFinalize
    <3> QED BY <1>0, <3>1 DEF Typed
  <2>3. bcast'[p] # << >> => Last(p)' = Last(p) /\ bcast[p] # << >>
    <3>c. PICK c \in Seq(Requests) : c = bcast[p]
      BY <1>0
    <3>1. CASE bcast'[p] = c
      BY <3>1, <3>c DEF Last
    <3>2. CASE bcast'[p] = Tail(c) /\ c # << >>
      <4>t. PICK t : t = Tail(c)
        OBVIOUS
      <4>1. /\ Len(c) \in Nat /\ Len(c) > 0 /\ Len(t) = Len(c) - 1
            /\ \A i \in 1 .. Len(c) - 1 : t[i] = c[i + 1]
            /\ (t = << >> <=> Len(c) = 1)
        BY <3>2, <4>t, TakenFirst
      <4>2. ASSUME t # << >> PROVE t[Len(t)] = c[Len(c)]
        <5>1. Len(t) \in 1 .. Len(c) - 1 /\ Len(t) + 1 = Len(c)
          BY <4>1, <4>2
        <5> QED BY <4>1, <5>1
      <4> QED BY <3>2, <3>c, <4>2, <4>t DEF Last
    <3> QED BY <2>2, <3>1, <3>2, <3>c
  <2>4. Passes(net[p][0], net'[p][0], "DATA")
    <3>1. CASE ClientCopyin(p)
      <4>1. net' = Put(net, p, 0, PartMsg(DOMAIN grids[p][Opt(p)])) /\ Opt(p) \in DOMAIN grids[p]
        BY <3>1 DEF ClientCopyin, Knows
      <4>m. PICK m : m = PartMsg(DOMAIN grids[p][Opt(p)])
        OBVIOUS
      <4>2. m \in RpcMessage /\ m.kind # "DATA"
        BY <1>0, <4>1, <4>m, GridFacts, MessageFacts DEF PartMsg
      <4> QED BY <1>0, <4>1, <4>m, <4>2, NetCarries
    <3>2. CASE ClientGet(p)
      <4>1. net' = net
        BY <3>2, ClientBegins
      <4> QED BY <4>1 DEF Passes
    <3>3. CASE ClientCopyinData(p) \/ ClientSetData(p)
      <4>1. Pending(net, 0, p) /\ net' = Drop(net, 0, p)
        BY <3>3 DEF ClientCopyinData, ClientSetData
      <4> QED BY <1>0, <4>1, NetCarries
    <3>4. CASE ~ClientCopyin(p) /\ ~ClientGet(p) /\ ~ClientCopyinData(p) /\ ~ClientSetData(p)
      <4>1. net' = net
        BY <1>4, <3>4 DEF ClientStep, ClientNew, ClientDelete, ClientGetReturn, ClientSet,
           ClientRun, ClientFinalize, EndLoad
      <4> QED BY <4>1 DEF Passes
    <3> QED BY <3>1, <3>2, <3>3, <3>4
  <2>5. bcast'[p] # << >> => Last(p)'.opt = id
    BY <2>3 DEF Contributes
  <2>6. Carries(net'[p][0], "DATA", s)
    BY <1>s, <2>4 DEF Contributes, Passes
  <2>7. partials'[p] # << >> => partials'[p][1] = s
    BY <1>s, <2>1 DEF Contributes
  <2> QED BY <1>1, <1>s, <2>5, <2>6, <2>7 DEF Contributes
<1> QED BY <1>2, <1>3, <1>4

\* The master takes the part of client i.
LEMMA CollectsNext ==
  ASSUME Typed, NEW id, Collects(id), NEW i \in Client, MasterCopyoutNext(i)
  PROVE  Collects(id)'
<1>0. i \in Proc /\ i \in Nat /\ 0 \in Proc /\ Client \subseteq Proc /\ net \in Nets
  BY ProcFacts DEF Typed
<1>1. /\ pc[0] = "GridCopyout" /\ i = call.next /\ Pending(net, i, 0)
      /\ Oldest(net, i, 0).kind = "DATA" /\ net' = Drop(net, i, 0)
      /\ call' = [call EXCEPT !.next = @ + 1, !.buf = Merged(Oldest(net, i, 0).body, @)]
      /\ UNCHANGED <<pc, bcast, partials, store>>
  BY DEF MasterCopyoutNext, userVars
<1>2. call'.next = i + 1 /\ call'.buf = Merged(Oldest(net, i, 0).body, call.buf)
  BY <1>1 DEF Typed
<1>f. PICK f \in PartFun : f = store[id]
  BY StoreFacts DEF Collects
<1>3. Oldest(net, i, 0).body = Restricted(f, i)
  <2>c. PICK c \in Seq(RpcMessage) : c = net[i][0]
    BY <1>0 DEF Nets
  <2>1. c # << >> /\ Oldest(net, i, 0) = Head(c)
    BY <1>0, <1>1, <2>c DEF Pending, Oldest
  <2>2. Carries(c, "DATA", Restricted(f, i))
    BY <1>f, <2>c DEF Collects, Contributes
  <2>3. Head(c).kind = "DATA" => Head(c).body = Restricted(f, i)
    BY <2>1, <2>2, CarriesFacts
  <2> QED BY <1>1, <2>1, <2>3
<1>4. call'.buf = Below(f, i + 1)
  <2>1. call.buf = Below(f, i)
    BY <1>1, <1>f DEF Collects
  <2>2. Merged(Restricted(f, i), Below(f, i)) = Below(f, i + 1)
    BY <1>0, BelowFacts
  <2> QED BY <1>2, <1>3, <2>1, <2>2
<1>5. ASSUME NEW p \in Client PROVE Contributes(p, id)'
  <2>1. Passes(net[p][0], net'[p][0], "DATA")
    BY <1>0, <1>1, NetCarries
  <2>2. Contributes(p, id)
    BY DEF Collects
  <2> QED BY <1>1, <2>1, <2>2, ContributesSame
<1> QED BY <1>1, <1>2, <1>4, <1>5, <1>f DEF Collects

\* A step of a fetch leaves a collection alone.
LEMMA CollectsFetch ==
  ASSUME Typed, Control, NEW id, Collects(id), NEW r \in Proc, Fetch(r)
  PROVE  Collects(id)'
<1>c. Collects(id)
  OBVIOUS
<1>0. 0 \in Proc /\ Client \subseteq Proc /\ id \in DOMAIN store /\ net \in Nets
  BY ProcFacts DEF Typed, Collects
<1>1. UNCHANGED <<bcast, pc, call, store>> /\ pc[r] = "GridGet"
  BY FetchFrame DEF During
<1>2. partials' = partials
  BY DEF Fetch, Announce, CountDone, Serve, TakeReply, fetchFrame, rpcVars
<1>3. UNCHANGED <<bcast, partials, pc, call, store>> /\ pc[r] = "GridGet"
  BY <1>1, <1>2
<1>4. ASSUME NEW p \in Client PROVE Contributes(p, id)'
  <2>1. Passes(net[p][0], net'[p][0], "DATA")
    BY <1>0, <1>3, FetchCarries
  <2>2. Contributes(p, id)
    BY DEF Collects
  <2> QED BY ONLY <1>3, <2>1, <2>2, ContributesSame
<1>5. pc'[0] = pc[0] /\ call' = call /\ store' = store
  BY <1>3
<1> QED BY ONLY <1>c, <1>4, <1>5, CollectsSame

LEMMA CollectsStep ==
  ASSUME Typed, Control, Fetching, Contents, NEW id, Collects(id), Next,
         pc[0] \in {"GridCopyout", "GridReduce"}, pc'[0] = pc[0]
  PROVE  Collects(id)'
<1>0. 0 \in Proc /\ Client \subseteq Proc /\ id \in DOMAIN store /\ net \in Nets
  BY ProcFacts DEF Typed, Collects
<1>1. ASSUME NEW r \in Proc, Fetch(r) PROVE Collects(id)'
  BY <1>1, CollectsFetch
<1>2. CASE UserStep
  <2>1. pc[0] = "user"
    BY ONLY <1>2, ZenonT(30) DEF UserCalls, UserStep, MasterNew, MasterDelete, MasterCopyin, MasterCopyout,
       MasterSetRemote, MasterSetLocal, MasterGet, MasterRun, MasterReduce, MasterFinalize
  <2> QED BY <2>1
<1>3. CASE MasterStep
  <2>1. CASE \E i \in Client : MasterCopyoutNext(i)
    BY <2>1, CollectsNext
  <2>2. CASE Fetch(0)
    BY <1>0, <1>1, <2>2
  <2>3. CASE /\ ~Fetch(0)
             /\ ~\E i \in Client : MasterCopyoutNext(i)
    <3>1. pc \in [Proc -> MasterMethods \cup ClientMethods]
      BY DEF Typed
    <3> QED BY <1>0, <1>3, <2>3, <3>1 DEF MasterStep, MasterCopyinNext, MasterCopyinReturn,
              MasterCopyoutReturn, MasterGetReturn, MasterReduceReturn
  <2> QED BY <2>1, <2>2, <2>3
<1>4. ASSUME NEW r \in Client, ClientStep(r) PROVE Collects(id)'
  <2>1. CASE Fetch(r)
    BY <1>0, <1>1, <2>1
  <2>2. CASE ~Fetch(r)
    <3>1. call' = call /\ store' = store
      BY <1>4, <2>2, ClientLeaves
    <3>2. ASSUME NEW p \in Client PROVE Contributes(p, id)'
      <4>1. Contributes(p, id)
        BY DEF Collects
      <4>2. CASE p = r
        BY <1>0, <1>4, <2>2, <4>1, <4>2, CollectsClient
      <4>3. CASE p # r
        <5>1. /\ bcast'[p] = bcast[p] /\ partials'[p] = partials[p] /\ net'[p][0] = net[p][0]
              /\ store' = store
          BY <1>4, <2>2, <4>3, ClientLeaves
        <5> QED BY <4>1, <5>1, ContributesSame DEF Passes
      <4> QED BY <4>2, <4>3
    <3> QED BY <3>1, <3>2, ClientLeaves, <1>4, <2>2, CollectsSame
  <2> QED BY <2>1, <2>2
<1>5. CASE Stopped
  <2>1. pc[0] = "exit"
    BY <1>0, <1>5 DEF Stopped, Exited
  <2> QED BY <2>1
<1> QED BY <1>2, <1>3, <1>4, <1>5 DEF Next

\* A PSGridGet begins.
LEMMA GetsBegins ==
  ASSUME Typed, Control, Fetching, AvoidRemote, NEW id \in DOMAIN store, NEW x \in DOMAIN store[id],
         MasterGet(id, x)
  PROVE  Gets'
<1>0. 0 \in Proc /\ Client \subseteq Proc /\ x \in Point /\ net \in Nets /\ cur \in [Proc -> Nat]
      /\ call \in [point: Point \cup {Nothing}, buf: PartFun, next: Nat]
  BY ProcFacts, StoreFacts DEF Typed
<1>1. /\ pc[0] = "user" /\ store' = store /\ cur'[0] = id /\ call'.point = x
      /\ remote' = IF Owner[x] = 0 THEN remote ELSE remote \cup {id}
      /\ Owner[x] = 0 => id \notin remote
  BY <1>0, MasterClientAssumption DEF MasterGet, UserCalls, MayTouch, NoCall
<1>2. /\ \A a, b \in Proc : net'[a][b] = IF a = 0 /\ b = Owner[x] /\ b # 0
                                           THEN Append(net[a][b], Request(x)) ELSE net[a][b]
      /\ ld'[0].remaining = IF Owner[x] = 0 THEN 0 ELSE 1
  BY <1>0, MasterBegins
<1>3. ~During(0)
  BY <1>1 DEF During
<1>4. ASSUME NEW p \in Client
      PROVE  /\ Carries(net'[0][p], "FETCH_REQUEST", x)
             /\ \A v : Carries(net'[p][0], "FETCH_REPLY", v)
  <2>0. p \in Proc /\ p # 0
    BY ProcFacts
  <2>1. ~Has(net[0][p], "FETCH_REQUEST") /\ ~Has(net[p][0], "FETCH_REPLY")
    BY <1>3 DEF Fetching, RequestInv, Asked
  <2>c. PICK c \in Seq(RpcMessage) : c = net[0][p]
    BY <1>0, <2>0 DEF Nets
  <2>2. Carries(c, "FETCH_REQUEST", x)
    BY <2>1, <2>c, CarriesFacts
  <2>m. PICK m \in RpcMessage : m = Request(x)
    BY <1>0, MessageFacts
  <2>3. Carries(Append(c, m), "FETCH_REQUEST", x)
    <3>1. m.body = x
      BY <2>m DEF Request
    <3> QED BY <2>2, <3>1, CarriesFacts
  <2>4. net'[0][p] = c \/ net'[0][p] = Append(c, m)
    BY <1>0, <1>2, <2>0, <2>c, <2>m
  <2>5. net'[p][0] = net[p][0]
    BY <1>0, <1>2, <2>0
  <2>6. \A v : Carries(net'[p][0], "FETCH_REPLY", v)
    BY <2>1, <2>5 DEF Carries, Has
  <2> QED BY <2>2, <2>3, <2>4, <2>6
<1>5. (cur[0] \in remote <=> Owner[call.point] # 0)'
  BY <1>1
<1>6. (Owner[call.point] # 0 /\ ld[0].remaining = 0 => ld[0].sg[Owner[call.point]] = Wanted)'
  BY <1>1, <1>2
<1>7. (cur[0] \in DOMAIN store /\ call.point \in DOMAIN store[cur[0]])'
  BY <1>1
<1>8. \A p \in Client : (/\ Carries(net[0][p], "FETCH_REQUEST", call.point)
                         /\ Carries(net[p][0], "FETCH_REPLY", Wanted))'
  BY <1>1, <1>4
<1> QED BY <1>5, <1>6, <1>7, <1>8 DEF Gets

\* The owner of the point has carried out what it was asked before, and sends
\* what the program has written.
LEMMA ServedValue ==
  ASSUME Typed, Control, Fetching, Contents, Gets, During(0),
         NEW r \in Proc, NEW q \in Proc, Serve(r, q)
  PROVE  /\ r = Owner[call.point]
         /\ ContentAt(r, cur[r], Head(net[0][r]).body) = Wanted
<1>1. /\ q = 0 /\ r \in Client /\ Has(net[0][r], "FETCH_REQUEST")
      /\ net[0][r] \in Seq(RpcMessage) /\ net[0][r] # << >>
      /\ Head(net[0][r]).kind = "FETCH_REQUEST"
  BY ServeFacts
<1>2. r = Owner[call.point]
  BY <1>1 DEF Fetching, RequestInv, Asked
<1>3. Head(net[0][r]).body = call.point
  <2>c. PICK c : c = net[0][r]
    OBVIOUS
  <2>1. Carries(c, "FETCH_REQUEST", call.point)
    BY <1>1, <2>c DEF Gets
  <2> QED BY <1>1, <2>c, <2>1, CarriesFacts
<1>4. During(r) /\ ~Before(r) /\ bcast[r] = << >> /\ cur[r] = cur[0]
  <2>1. During(r)
    BY FetchFrame DEF Fetch
  <2>2. ~Before(r)
    BY <2>1, DuringNotBefore
  <2> QED BY <1>1, <2>1, <2>2 DEF Control, GetCall
<1>5. grids[r] = Mine(store, r)
  BY <1>1, <1>4, CarriedOut DEF During
<1>6. grids[r][cur[0]] = Restricted(store[cur[0]], r)
  BY <1>5, MineFacts DEF Gets
<1>7. call.point \in Part(DOMAIN store[cur[0]], r)
  BY <1>2 DEF Part, Gets
<1> QED BY <1>2, <1>3, <1>4, <1>6, <1>7 DEF ContentAt, Restricted, Wanted

LEMMA GetsFetch ==
  ASSUME Typed, Control, Fetching, Contents, Gets, During(0), NEW r \in Proc, Fetch(r)
  PROVE  Gets'
<1>0. 0 \in Proc /\ Client \subseteq Proc /\ net \in Nets /\ ld \in [Proc -> LoadFields]
  BY ProcFacts DEF Typed
<1>1. UNCHANGED <<bcast, pc, cur, call, grids, remote, store>> /\ During(r)
  BY FetchFrame
<1>w. PICK w : w = Wanted
  OBVIOUS
<1>2. SUFFICES
        /\ Owner[call.point] # 0 /\ ld'[0].remaining = 0 => ld'[0].sg[Owner[call.point]] = w
        /\ \A p \in Client : Carries(net'[p][0], "FETCH_REPLY", w)
  <2>1. \A p \in Client : Carries(net'[0][p], "FETCH_REQUEST", call.point)
    <3> TAKE p \in Client
    <3>1. Passes(net[0][p], net'[0][p], "FETCH_REQUEST")
      BY <1>0, <1>1, FetchCarries DEF During
    <3> QED BY <3>1 DEF Passes, Gets
  <2> QED BY <1>1, <1>w, <2>1 DEF Gets, Wanted
<1>3. \A p \in Client : Carries(net[p][0], "FETCH_REPLY", w)
  BY <1>w DEF Gets
<1>4. Owner[call.point] # 0 /\ ld[0].remaining = 0 => ld[0].sg[Owner[call.point]] = w
  BY <1>w DEF Gets
<1>5. CASE Announce(r)
  <2>1. ld'[0].remaining = ld[0].remaining /\ ld'[0].sg = ld[0].sg
    <3>1. ld' = [ld EXCEPT ![r].done = @ + 1, ![r].doneSent = TRUE]
      BY <1>5, AnnounceFacts
    <3> QED BY <1>0, <3>1 DEF LoadFields
  <2>2. ASSUME NEW p \in Client PROVE Carries(net'[p][0], "FETCH_REPLY", w)
    <3>1. net'[p][0] = net[p][0] \/ net'[p][0] = Append(net[p][0], Done(0))
      BY <1>0, <1>5, AnnounceFacts
    <3>2. Done(0) \in RpcMessage /\ Done(0).kind # "FETCH_REPLY"
      BY MessageFacts DEF Done
    <3> QED BY <1>0, <1>3, <3>1, <3>2, NetCarries DEF Passes
  <2> QED BY <1>4, <2>1, <2>2
<1>6. ASSUME NEW q \in Proc, CountDone(r, q)
      PROVE  /\ Owner[call.point] # 0 /\ ld'[0].remaining = 0 => ld'[0].sg[Owner[call.point]] = w
             /\ \A p \in Client : Carries(net'[p][0], "FETCH_REPLY", w)
  <2>1. Pending(net, q, r) /\ net' = Drop(net, q, r) /\ ld' = [ld EXCEPT ![r].done = @ + 1]
    BY <1>6 DEF CountDone, RecvDone, Hears
  <2>2. ld'[0].remaining = ld[0].remaining /\ ld'[0].sg = ld[0].sg
    BY <1>0, <2>1 DEF LoadFields
  <2>3. ASSUME NEW p \in Client PROVE Carries(net'[p][0], "FETCH_REPLY", w)
    BY <1>0, <1>3, <2>1, NetCarries DEF Passes
  <2> QED BY <1>4, <2>2, <2>3
<1>7. ASSUME NEW q \in Proc, Serve(r, q)
      PROVE  /\ Owner[call.point] # 0 /\ ld'[0].remaining = 0 => ld'[0].sg[Owner[call.point]] = w
             /\ \A p \in Client : Carries(net'[p][0], "FETCH_REPLY", w)
  <2>1. /\ q = 0 /\ r \in Client /\ Has(net[0][r], "FETCH_REQUEST")
        /\ r = Owner[call.point] /\ ContentAt(r, cur[r], Head(net[0][r]).body) = w
    BY <1>w, <1>7, ServeFacts, ServedValue
  <2>2. ld' = ld
    BY <1>7 DEF Serve, HandleFetchRequest
  <2>3. ASSUME NEW p \in Client PROVE Carries(net'[p][0], "FETCH_REPLY", w)
    <3>0. p \in Proc /\ p # 0
      BY ProcFacts
    <3>c. PICK c \in Seq(RpcMessage) : c = net[p][0]
      BY <1>0, <3>0 DEF Nets
    <3>1. ~Has(c, "FETCH_REPLY")
      BY <2>1, <2>3, <3>c DEF Fetching, RequestInv, Asked
    <3>2. CASE p = r
      <4>1. PICK t : /\ SameButReplies(c, t)
                     /\ net'[r][0] = Append(t, Reply(ContentAt(r, cur[r], Head(net[0][r]).body)))
        BY <1>7, <2>1, <3>2, <3>c, ServeFacts
      <4>2. t = c
        BY ONLY <3>1, <4>1, SameKinds
      <4>m. PICK m : m = Reply(w)
        OBVIOUS
      <4>3. m \in RpcMessage /\ m.body = w
        <5>1. w \in Data \cup {Garbage}
          BY <1>7, <2>1, ServeFacts
        <5> QED BY <4>m, <5>1, MessageFacts DEF Reply
      <4>4. Carries(c, "FETCH_REPLY", w)
        BY <1>3, <3>c
      <4>5. Carries(Append(c, m), "FETCH_REPLY", w)
        BY <4>3, <4>4, CarriesFacts
      <4> QED BY <2>1, <3>2, <4>1, <4>2, <4>5, <4>m
    <3>3. CASE p # r
      <4>1. SameButReplies(c, net'[p][0])
        BY <1>0, <1>7, <3>0, <3>3, <3>c, ServeFacts
      <4>2. net'[p][0] = c
        BY ONLY <3>1, <4>1, SameKinds
      <4> QED BY <1>3, <3>c, <4>2
    <3> QED BY <3>2, <3>3
  <2> QED BY <1>4, <2>2, <2>3
<1>8. ASSUME NEW q \in Proc, TakeReply(r, q)
      PROVE  /\ Owner[call.point] # 0 /\ ld'[0].remaining = 0 => ld'[0].sg[Owner[call.point]] = w
             /\ \A p \in Client : Carries(net'[p][0], "FETCH_REPLY", w)
  <2>1. /\ q \in Client /\ Has(net[q][0], "FETCH_REPLY")
        /\ net[q][0] \in Seq(RpcMessage) /\ net[q][0] # << >> /\ net'[q][0] = Tail(net[q][0])
        /\ Head(net[q][0]).kind = "FETCH_REPLY" /\ ld'[0].sg[q] = Head(net[q][0]).body
    BY <1>8, ReplyFacts
  <2>c. PICK c : c = net[q][0]
    OBVIOUS
  <2>2. Carries(c, "FETCH_REPLY", w)
    BY <1>3, <2>1, <2>c
  <2>3. Carries(Tail(c), "FETCH_REPLY", w) /\ Head(c).body = w
    BY <2>1, <2>2, <2>c, CarriesFacts
  <2>4. q = Owner[call.point]
    BY <2>1 DEF Fetching, RequestInv, Asked
  <2>5. ASSUME NEW p \in Client PROVE Carries(net'[p][0], "FETCH_REPLY", w)
    <3>1. CASE p = q
      BY <2>1, <2>3, <2>c, <3>1
    <3>2. CASE p # q
      <4>1. net'[p][0] = net[p][0]
        BY <1>0, <1>8, <3>2, ReplyFacts, ProcFacts
      <4> QED BY <1>3, <4>1
    <3> QED BY <3>1, <3>2
  <2> QED BY <2>1, <2>3, <2>4, <2>5, <2>c
<1> QED BY <1>5, <1>6, <1>7, <1>8 DEF Fetch

LEMMA GetsClient ==
  ASSUME Typed, Gets, NEW r \in Client, ClientStep(r), ~Fetch(r)
  PROVE  Gets'
<1>0. r \in Proc /\ r # 0 /\ 0 \in Proc /\ net \in Nets /\ Client \subseteq Proc
  BY ProcFacts DEF Typed
<1>1. UNCHANGED <<call, remote, store>> /\ cur'[0] = cur[0] /\ ld'[0] = ld[0]
  BY ClientLeaves
<1>2. \/ net' = net \/ (\E m \in RpcMessage : m.kind \in {"PART", "DATA"} /\ net' = Put(net, r, 0, m))
      \/ Pending(net, 0, r) /\ net' = Drop(net, 0, r)
  <2>1. CASE ClientCopyin(r) \/ ClientCopyout(r)
    <3>1. Opt(r) \in DOMAIN grids[r]
      BY <2>1 DEF ClientCopyin, ClientCopyout, Knows
    <3>g. PICK g : g = grids[r][Opt(r)]
      OBVIOUS
    <3>2. g \in PartFun /\ DOMAIN g \subseteq Point
      BY <1>0, <3>1, <3>g, GridFacts
    <3>3. PartMsg(DOMAIN g) \in RpcMessage /\ DataMsg(g) \in RpcMessage
      BY <3>2, MessageFacts
    <3>4. PartMsg(DOMAIN g).kind = "PART" /\ DataMsg(g).kind = "DATA"
      BY DEF PartMsg, DataMsg
    <3>5. net' = Put(net, r, 0, PartMsg(DOMAIN g)) \/ net' = Put(net, r, 0, DataMsg(g))
      BY <2>1, <3>g DEF ClientCopyin, ClientCopyout
    <3> QED BY <3>3, <3>4, <3>5
  <2>2. CASE ClientCopyinData(r) \/ ClientSetData(r)
    BY <2>2 DEF ClientCopyinData, ClientSetData
  <2>3. CASE ClientGet(r)
    BY <2>3, ClientBegins
  <2>4. CASE /\ ~ClientCopyin(r) /\ ~ClientCopyout(r) /\ ~ClientGet(r)
             /\ ~ClientCopyinData(r) /\ ~ClientSetData(r)
    BY <2>4 DEF ClientStep, ClientNew, ClientDelete, ClientGetReturn, ClientSet, ClientRun,
       ClientReduce, ClientFinalize, EndLoad
  <2> QED BY <2>1, <2>2, <2>3, <2>4
<1>3. ASSUME NEW p \in Client
      PROVE  /\ Passes(net[0][p], net'[0][p], "FETCH_REQUEST")
             /\ Passes(net[p][0], net'[p][0], "FETCH_REPLY")
  <2>1. CASE net' = net
    BY <2>1 DEF Passes
  <2>2. ASSUME NEW m \in RpcMessage, m.kind \in {"PART", "DATA"}, net' = Put(net, r, 0, m)
        PROVE  /\ Passes(net[0][p], net'[0][p], "FETCH_REQUEST")
               /\ Passes(net[p][0], net'[p][0], "FETCH_REPLY")
    <3>1. m.kind # "FETCH_REQUEST" /\ m.kind # "FETCH_REPLY" /\ p \in Proc
      BY <2>2, ProcFacts
    <3> QED BY <1>0, <2>2, <3>1, NetCarries
  <2>3. CASE Pending(net, 0, r) /\ net' = Drop(net, 0, r)
    BY <1>0, <2>3, NetCarries
  <2> QED BY <1>2, <2>1, <2>2, <2>3
<1>4. \A p \in Client : /\ Carries(net'[0][p], "FETCH_REQUEST", call.point)
                        /\ Carries(net'[p][0], "FETCH_REPLY", Wanted)
  BY <1>3 DEF Passes, Gets
<1>5. Wanted' = Wanted
  BY <1>1 DEF Wanted
<1> QED BY <1>1, <1>4, <1>5 DEF Gets

LEMMA GetsStep ==
  ASSUME Typed, Control, Fetching, Contents, Gets, Next, pc[0] = "GridGet", pc'[0] = pc[0]
  PROVE  Gets'
<1>0. 0 \in Proc /\ Client \subseteq Proc /\ During(0) /\ pc \in [Proc -> MasterMethods \cup ClientMethods]
  BY ProcFacts DEF During, Typed
<1>1. ASSUME NEW r \in Proc, Fetch(r) PROVE Gets'
  BY <1>0, <1>1, GetsFetch
<1>2. CASE UserStep
  BY <1>2 DEF UserStep, MasterNew, MasterDelete, MasterCopyin, MasterCopyout, MasterSetRemote,
     MasterSetLocal, MasterGet, MasterRun, MasterReduce, MasterFinalize, UserCalls
<1>3. CASE MasterStep
  <2>1. CASE Fetch(0)
    BY <1>0, <1>1, <2>1
  <2>2. CASE ~Fetch(0)
    BY <1>0, <1>3, <2>2 DEF MasterStep, MasterCopyinNext, MasterCopyoutNext, MasterCopyinReturn,
       MasterCopyoutReturn, MasterGetReturn, MasterReduceReturn
  <2> QED BY <2>1, <2>2
<1>4. ASSUME NEW r \in Client, ClientStep(r) PROVE Gets'
  BY <1>0, <1>1, <1>4, GetsClient
<1>5. CASE Stopped
  <2>1. pc[0] = "exit"
    BY <1>0, <1>5 DEF Stopped, Exited
  <2> QED BY <2>1
<1> QED BY <1>2, <1>3, <1>4, <1>5 DEF Next

\* The steps that take the master into a call that returns a value.
LEMMA MasterChanges ==
  ASSUME Typed, Next, pc'[0] # pc[0]
  PROVE  /\ pc'[0] \in {"GridCopyout", "GridReduce"} =>
              \E id \in DOMAIN store : MasterCopyout(id) \/ MasterReduce(id)
         /\ pc'[0] = "GridGet" => \E id \in DOMAIN store : \E x \in DOMAIN store[id] : MasterGet(id, x)
<1>0. /\ 0 \in Proc /\ Client \subseteq Proc /\ \A p \in Client : p # 0
      /\ pc \in [Proc -> MasterMethods \cup ClientMethods]
  BY ProcFacts DEF Typed
<1>1. ASSUME NEW r \in Proc, Fetch(r) PROVE pc'[0] = pc[0]
  BY <1>1 DEF Fetch, Announce, CountDone, Serve, TakeReply, fetchFrame, rpcVars
<1>2. CASE UserStep
  <2>1. CASE \E id \in DOMAIN store : MasterCopyout(id) \/ MasterReduce(id)
    BY <1>0, <2>1 DEF MasterCopyout, MasterReduce
  <2>2. CASE \E id \in DOMAIN store : \E x \in DOMAIN store[id] : MasterGet(id, x)
    BY <1>0, <2>2 DEF MasterGet
  <2>3. CASE /\ ~\E id \in DOMAIN store : MasterCopyout(id) \/ MasterReduce(id)
             /\ ~\E id \in DOMAIN store : \E x \in DOMAIN store[id] : MasterGet(id, x)
    <3>1. pc'[0] \in {pc[0], "GridCopyin", "exit"}
      BY <1>0, <1>2, <2>3 DEF UserStep, MasterNew, MasterDelete, MasterCopyin, MasterSetRemote,
         MasterSetLocal, MasterRun, MasterFinalize
    <3> QED BY <3>1
  <2> QED BY <2>1, <2>2, <2>3
<1>3. CASE MasterStep
  <2>1. pc'[0] \in {pc[0], "user"}
    BY <1>0, <1>1, <1>3 DEF MasterStep, MasterCopyinNext, MasterCopyoutNext, MasterCopyinReturn,
       MasterCopyoutReturn, MasterGetReturn, MasterReduceReturn
  <2> QED BY <2>1
<1>4. ASSUME NEW r \in Client, ClientStep(r) PROVE FALSE
  BY <1>0, <1>1, <1>4, ClientLeaves
<1>5. CASE Stopped
  BY <1>5 DEF Stopped, vars, rpcVars
<1> QED BY <1>2, <1>3, <1>4, <1>5 DEF Next

LEMMA ValuesInit == Init => Values
<1> SUFFICES ASSUME Init PROVE Values
  OBVIOUS
<1>1. grids[0] = << >> /\ store = << >> /\ pc[0] = "user"
  BY ProcFacts DEF Init
<1>2. DOMAIN store = {}
  BY <1>1
<1>3. DOMAIN grids[0] = {} /\ DOMAIN Mine(store, 0) = {}
  BY <1>1, <1>2 DEF Mine
<1>4. grids[0] = Mine(store, 0)
  <2>1. [i \in {} |-> i] = << >>
    OBVIOUS
  <2> QED BY <1>1, <1>2, <2>1 DEF Mine
<1> QED BY <1>1, <1>2, <1>4 DEF Values, OwnParts

LEMMA ValuesStep ==
  ASSUME Typed, Control, Fetching, Contents, AvoidRemote, Values, [Next]_vars
  PROVE  Values'
<1>1. CASE UNCHANGED vars
  BY <1>1 DEF vars, rpcVars, userVars, Values, OwnParts, Collects, Contributes, Gets, Wanted, Last
<1>2. CASE Next
  <2>0. 0 \in Proc
    BY ProcFacts
  <2>1. OwnParts'
    BY <1>2, OwnUser, OwnOthers DEF Values, Next
  <2>2. pc'[0] \in {"GridCopyout", "GridReduce"} => \E id : Collects(id)'
    <3> SUFFICES ASSUME pc'[0] \in {"GridCopyout", "GridReduce"} PROVE \E id : Collects(id)'
      OBVIOUS
    <3>1. CASE pc'[0] = pc[0]
      <4>1. PICK id : Collects(id)
        BY <3>1 DEF Values
      <4>2. Collects(id)'
        BY <1>2, <3>1, <4>1, CollectsStep
      <4> QED BY <4>2
    <3>2. CASE pc'[0] # pc[0]
      <4>1. PICK id \in DOMAIN store : MasterCopyout(id) \/ MasterReduce(id)
        BY <1>2, <3>2, MasterChanges
      <4>2. Collects(id)'
        BY <4>1, CollectsBegins DEF Values
      <4> QED BY <4>2
    <3> QED BY <3>1, <3>2
  <2>3. pc'[0] = "GridGet" => Gets'
    <3> SUFFICES ASSUME pc'[0] = "GridGet" PROVE Gets'
      OBVIOUS
    <3>1. CASE pc'[0] = pc[0]
      BY <1>2, <3>1, GetsStep DEF Values
    <3>2. CASE pc'[0] # pc[0]
      <4>1. PICK id \in DOMAIN store : \E x \in DOMAIN store[id] : MasterGet(id, x)
        BY <1>2, <3>2, MasterChanges
      <4> QED BY <4>1, GetsBegins
    <3> QED BY <3>1, <3>2
  <2> QED BY <2>1, <2>2, <2>3 DEF Values
<1> QED BY <1>1, <1>2

LEMMA GetReturnsStoredHolds ==
  ASSUME Typed, Control, Fetching, Values PROVE GetReturnsStored
<1> SUFFICES ASSUME pc[0] = "GridGet", ld[0].done = NProcs
             PROVE  GetValue(cur[0], call.point) = store[cur[0]][call.point]
  BY DEF GetReturnsStored
<1>0. 0 \in Proc /\ During(0)
  BY ProcFacts DEF During
<1>1. ld[0].remaining = 0
  BY <1>0, AllAnnounced
<1>2. Gets /\ grids[0] = Mine(store, 0)
  BY DEF Values, OwnParts
<1>3. CASE Owner[call.point] = 0
  <2>1. grids[0][cur[0]] = Restricted(store[cur[0]], 0)
    BY <1>2, MineFacts DEF Gets
  <2>2. call.point \in Part(DOMAIN store[cur[0]], 0)
    BY <1>2, <1>3 DEF Gets, Part
  <2> QED BY <1>2, <1>3, <2>1, <2>2 DEF Gets, GetValue, Restricted
<1>4. CASE Owner[call.point] # 0
  BY <1>1, <1>2, <1>4 DEF Gets, GetValue, Wanted
<1> QED BY <1>3, <1>4

-----------------------------------------------------------------------------
(* What the program sees.                                                   *)

\* The parts of a grid, put together, are the grid.
LEMMA JoinFacts ==
  ASSUME NEW f \in PartFun, NEW parts, \A p \in Proc : parts[p] = Restricted(f, p)
  PROVE  Join(parts) = f
<1>1. f \in [DOMAIN f -> Data] /\ \A x \in DOMAIN f : Owner[x] \in Proc
  BY PartFunFacts, MasterClientAssumption
<1>2. \A p \in Proc : /\ DOMAIN parts[p] = {x \in DOMAIN f : Owner[x] = p}
                      /\ \A x \in DOMAIN parts[p] : parts[p][x] = f[x]
  <2> TAKE p \in Proc
  <2>1. DOMAIN Restricted(f, p) = {x \in DOMAIN f : Owner[x] = p}
    BY DEF Restricted, Part
  <2>2. \A x \in DOMAIN Restricted(f, p) : Restricted(f, p)[x] = f[x]
    BY DEF Restricted
  <2> QED BY <2>1, <2>2
<1>3. UNION {DOMAIN parts[p] : p \in Proc} = DOMAIN f
  <2>1. \A x \in DOMAIN f : Owner[x] \in Proc /\ x \in DOMAIN parts[Owner[x]]
    BY <1>1, <1>2
  <2>2. \A p \in Proc : DOMAIN parts[p] \subseteq DOMAIN f
    BY <1>2
  <2>3. DOMAIN f \subseteq UNION {DOMAIN parts[p] : p \in Proc}
    BY ONLY <2>1
  <2>4. UNION {DOMAIN parts[p] : p \in Proc} \subseteq DOMAIN f
    BY ONLY <2>2
  <2> QED BY ONLY <2>3, <2>4
<1>4. ASSUME NEW x \in DOMAIN f
      PROVE  (LET p == CHOOSE q \in Proc : x \in DOMAIN parts[q] IN parts[p][x]) = f[x]
  <2>1. \E q \in Proc : x \in DOMAIN parts[q]
    BY <1>1, <1>2
  <2>2. PICK p : p = CHOOSE q \in Proc : x \in DOMAIN parts[q]
    OBVIOUS
  <2>3. p \in Proc /\ x \in DOMAIN parts[p]
    BY <2>1, <2>2
  <2> QED BY <1>2, <2>2, <2>3
<1> QED BY <1>1, <1>3, <1>4 DEF Join

\* What GridCopyout and GridReduce return.
LEMMA CollectedAll ==
  ASSUME Typed, Values
  PROVE  /\ MasterCopyoutReturn => \E id \in DOMAIN store : call.buf = store[id]
         /\ MasterReduceReturn =>
              \E id \in DOMAIN store :
                Join([p \in Proc |-> IF p = 0 THEN call.buf ELSE Head(partials[p])]) = store[id]
<1>0. 0 \in Proc /\ \A p \in Proc : p = 0 \/ p \in Client
  BY ProcFacts
<1>1. ASSUME MasterCopyoutReturn PROVE \E id \in DOMAIN store : call.buf = store[id]
  <2>1. pc[0] = "GridCopyout" /\ call.next = NProcs
    BY <1>1 DEF MasterCopyoutReturn
  <2>2. PICK id : Collects(id)
    BY <2>1 DEF Values
  <2>f. PICK f \in PartFun : f = store[id]
    BY <2>2, StoreFacts DEF Collects
  <2>3. Below(f, NProcs) = f
    BY BelowFacts
  <2> QED BY <2>1, <2>2, <2>3, <2>f DEF Collects
<1>2. ASSUME MasterReduceReturn
      PROVE  \E id \in DOMAIN store :
               Join([p \in Proc |-> IF p = 0 THEN call.buf ELSE Head(partials[p])]) = store[id]
  <2>1. pc[0] = "GridReduce" /\ \A p \in Client : partials[p] # << >>
    BY <1>2 DEF MasterReduceReturn
  <2>2. PICK id : Collects(id)
    BY <2>1 DEF Values
  <2>f. PICK f \in PartFun : f = store[id]
    BY <2>2, StoreFacts DEF Collects
  <2>p. PICK parts : parts = [p \in Proc |-> IF p = 0 THEN call.buf ELSE Head(partials[p])]
    OBVIOUS
  <2>3. \A p \in Proc : parts[p] = Restricted(f, p)
    <3> TAKE p \in Proc
    <3>1. CASE p = 0
      BY <2>1, <2>2, <2>f, <2>p, <3>1 DEF Collects
    <3>2. CASE p \in Client
      <4>c. PICK c \in Seq(PartFun) : c = partials[p]
        BY DEF Typed
      <4>1. c # << >> /\ c[1] = Restricted(f, p)
        BY <2>1, <2>2, <2>f, <3>2, <4>c DEF Collects, Contributes
      <4>2. Head(c) = c[1]
        BY <4>1, TakenFirst
      <4>3. p # 0
        BY <3>2, ProcFacts
      <4> QED BY <2>p, <4>1, <4>2, <4>3, <4>c
    <3> QED BY <1>0, <3>1, <3>2
  <2>4. Join(parts) = f
    BY <2>3, JoinFacts
  <2> QED BY <2>2, <2>4, <2>f, <2>p DEF Collects
<1> QED BY <1>1, <1>2

\* A call of the program that writes is done, for the program, when the master
\* has made it.
LEMMA UserRefined ==
  ASSUME Typed, OwnParts, UserStep
  PROVE  [VG!VNext]_<<store, result>>
<1>1. ASSUME NEW s \in Shape, MasterNew(s) PROVE VG!VNext
  <2>1. /\ counter[0] < MaxGrids /\ store' = With(store, counter[0], [x \in s |-> Zero])
        /\ result' = Answer("PSGridNew", counter[0])
    BY <1>1 DEF MasterNew
  <2>2. counter[0] \in GridId \ DOMAIN store
    <3>1. counter[0] \in Nat /\ MaxGrids \in Nat /\ \A id \in DOMAIN store : id < counter[0]
      BY ProcFacts, MasterClientAssumption DEF Typed, OwnParts
    <3>2. counter[0] \notin DOMAIN store
      BY <3>1
    <3> QED BY <2>1, <3>1, <3>2 DEF GridId
  <2>3. VG!VNew(s)
    BY <2>1, <2>2 DEF VG!VNew, VG!With, VG!Answer, With, Answer
  <2> QED BY <2>3 DEF VG!VNext
<1>2. ASSUME NEW id \in DOMAIN store, MasterDelete(id) PROVE VG!VNext
  <2>1. VG!VFree(id)
    BY <1>2 DEF MasterDelete, VG!VFree, VG!Without, Without
  <2> QED BY <2>1 DEF VG!VNext
<1>3. ASSUME NEW id \in DOMAIN store, NEW buf \in [DOMAIN store[id] -> Data], MasterCopyin(id, buf)
      PROVE  VG!VNext
  <2>1. VG!VCopyin(id, buf)
    BY <1>3 DEF MasterCopyin, VG!VCopyin
  <2> QED BY <2>1 DEF VG!VNext
<1>4. ASSUME NEW id \in DOMAIN store, NEW x \in DOMAIN store[id], NEW v \in Data,
             MasterSetRemote(id, x, v) \/ MasterSetLocal(id, x, v)
      PROVE  VG!VNext
  <2>1. VG!VSet(id, x, v)
    BY <1>4 DEF MasterSetRemote, MasterSetLocal, VG!VSet
  <2> QED BY <2>1 DEF VG!VNext
<1>5. ASSUME NEW id \in DOMAIN store, MasterRun(id) PROVE VG!VNext
  <2>1. VG!VRun(id)
    BY <1>5 DEF MasterRun, VG!VRun
  <2> QED BY <2>1 DEF VG!VNext
<1>6. ASSUME \/ \E id \in DOMAIN store : \/ MasterCopyout(id) \/ MasterReduce(id)
                                         \/ \E x \in DOMAIN store[id] : MasterGet(id, x)
             \/ MasterFinalize
      PROVE  UNCHANGED <<store, result>>
  BY <1>6 DEF MasterCopyout, MasterReduce, MasterGet, MasterFinalize, userVars
<1> QED BY <1>1, <1>2, <1>3, <1>4, <1>5, <1>6 DEF UserStep

\* A call of the program that reads is done when it returns; all other steps
\* are no concern of the program.
LEMMA OthersRefined ==
  ASSUME Typed, Control, Fetching, Values, MasterStep \/ (\E p \in Client : ClientStep(p)) \/ Stopped
  PROVE  [VG!VNext]_<<store, result>>
<1>1. CASE MasterCopyoutReturn
  <2>1. PICK id \in DOMAIN store : call.buf = store[id]
    BY <1>1, CollectedAll
  <2>2. VG!VCopyout(id)
    BY <1>1, <2>1 DEF MasterCopyoutReturn, VG!VCopyout, VG!Answer, Answer
  <2> QED BY <2>2 DEF VG!VNext
<1>2. CASE MasterReduceReturn
  <2>1. PICK id \in DOMAIN store :
          Join([p \in Proc |-> IF p = 0 THEN call.buf ELSE Head(partials[p])]) = store[id]
    BY <1>2, CollectedAll
  <2>2. result' = Answer("PSReduce", store[id]) /\ store' = store
    BY <1>2, <2>1 DEF MasterReduceReturn
  <2>3. VG!VReduce(id)
    BY <2>2 DEF VG!VReduce, VG!Answer, Answer
  <2> QED BY <2>3 DEF VG!VNext
<1>3. CASE MasterGetReturn
  <2>1. /\ pc[0] = "GridGet" /\ ld[0].done = NProcs /\ store' = store
        /\ result' = Answer("PSGridGet", GetValue(cur[0], call.point))
    BY <1>3 DEF MasterGetReturn, EndLoad
  <2>2. GetValue(cur[0], call.point) = store[cur[0]][call.point]
    BY <2>1, GetReturnsStoredHolds DEF GetReturnsStored
  <2>3. cur[0] \in DOMAIN store /\ call.point \in DOMAIN store[cur[0]]
    BY <2>1 DEF Values, Gets
  <2>4. VG!VGet(cur[0], call.point)
    BY <2>1, <2>2 DEF VG!VGet, VG!Answer, Answer
  <2> QED BY <2>3, <2>4 DEF VG!VNext
<1>4. ASSUME NEW r \in Proc, Fetch(r) PROVE UNCHANGED <<store, result>>
  BY <1>4 DEF Fetch, Announce, CountDone, Serve, TakeReply, fetchFrame, userVars
<1>5. CASE MasterStep
  <2>1. CASE Fetch(0)
    BY <1>4, <2>1, ProcFacts
  <2>2. CASE \/ \E i \in Client : MasterCopyinNext(i) \/ MasterCopyoutNext(i)
             \/ MasterCopyinReturn
    BY <2>2 DEF MasterCopyinNext, MasterCopyoutNext, MasterCopyinReturn, userVars
  <2> QED BY <1>1, <1>2, <1>3, <1>5, <2>1, <2>2 DEF MasterStep
<1>6. ASSUME NEW p \in Client, ClientStep(p) PROVE UNCHANGED <<store, result>>
  BY <1>4, <1>6, ClientLeaves, ProcFacts
<1>7. CASE Stopped
  BY <1>7 DEF Stopped, vars, userVars
<1> QED BY <1>5, <1>6, <1>7

-----------------------------------------------------------------------------
(* The theorems.                                                            *)

\* An invariant that every step preserves: the variables hold what they should
\* (Typed), requests, answers and methods go together (Control), so do the
\* messages of LoadSubgrid (Fetching), a client that carries out all it has
\* been asked to do holds its part of the program's grids (Contents), and what
\* the master has of a value it is about to return is right (Values).
Inv == Typed /\ Control /\ Fetching /\ Contents /\ Values

\* The program starts with nothing asked and no grids.
LEMMA InvInit == Init => Inv
BY TypedInit, ControlInit, FetchingInit, ContentsInit, ValuesInit DEF Inv

\* Every step of the master and of the clients keeps Inv.
LEMMA InvStep ==
  ASSUME AwaitClients, AvoidRemote, Inv, [Next]_vars PROVE Inv'
<1>1. Typed /\ Control /\ Fetching /\ Contents /\ Values
  BY DEF Inv
<1>2. PartsFit
  BY <1>1, PartsFitHolds
<1>3. Typed'
  BY <1>1, <1>2, TypedStep
<1>4. Control'
  BY <1>1, ControlStep
<1>5. Fetching'
  BY <1>1, <1>2, <1>4, FetchingStep
<1>6. Contents'
  BY <1>1, <1>3, ContentsStep
<1>7. Values'
  BY <1>1, ValuesStep
<1> QED BY <1>3, <1>4, <1>5, <1>6, <1>7 DEF Inv

\* The remote calls keep Inv: however far the clients are behind the master,
\* what is queued and in flight for them leads them to where the program is.
THEOREM Invariance ==
  ASSUME AwaitClients, AvoidRemote PROVE Spec => []Inv
<1>1. Init => Inv
  BY InvInit
<1>2. Inv /\ [Next]_vars => Inv'
  BY InvStep
<1> QED BY <1>1, <1>2, PTL DEF Spec

\* No rank in LoadSubgrid meets a message of another method, and aborts
\* (grid_mpi.cc:962).
THEOREM UnknownRequests ==
  ASSUME AwaitClients, AvoidRemote PROVE Spec => []NoUnknownRequest
<1>1. Inv => NoUnknownRequest
  BY NoUnknownRequestHolds DEF Inv
<1> QED BY <1>1, Invariance, PTL

\* Every receive of the master and of a client gets a message of the call it is
\* part of, although all messages share one tag.
THEOREM MatchedReceives ==
  ASSUME AwaitClients, AvoidRemote PROVE Spec => []ReceivesMatch
<1>1. Inv => ReceivesMatch
  BY ReceivesMatchHolds DEF Inv
<1> QED BY <1>1, Invariance, PTL

\* FindGrid finds every grid a request names on the client, which counts its
\* grids itself (the assertion at grid.cc:135).
THEOREM FoundGrids ==
  ASSUME AwaitClients, AvoidRemote PROVE Spec => []GridsFound
<1>1. Inv => GridsFound
  BY GridsFoundHolds DEF Inv
<1> QED BY <1>1, Invariance, PTL

\* A client that has caught up with the master holds its part of what the
\* program has written.
THEOREM AgreedParts ==
  ASSUME AwaitClients, AvoidRemote PROVE Spec => []PartsAgree
<1>1. Inv => PartsAgree
  BY PartsAgreeHolds DEF Inv
<1> QED BY <1>1, Invariance, PTL

\* No message and no contribution to a reduction is left when all have exited.
THEOREM AllReceived ==
  ASSUME AwaitClients, AvoidRemote PROVE Spec => []NothingLost
<1>1. Inv => NothingLost
  BY NothingLostHolds DEF Inv
<1> QED BY <1>1, Invariance, PTL

\* Grid::Get reads what the program has written to the point last, when
\* LoadSubgrid has returned: the clients have carried out by then what they
\* were asked before, and freeing the buffer of replies does no harm.
THEOREM GetsReturnStored ==
  ASSUME AwaitClients, AvoidRemote PROVE Spec => []GetReturnsStored
<1>1. Inv => GetReturnsStored
  BY GetReturnsStoredHolds DEF Inv
<1> QED BY <1>1, Invariance, PTL

\* The grids start out as VirtualGrid has them.
LEMMA InitRefined == Init => VG!VInit
BY DEF Init, VG!VInit, VG!Answer, Answer

\* Every step is one of VirtualGrid, or none of the program's concern.
LEMMA StepRefined ==
  ASSUME Inv, [Next]_vars PROVE [VG!VNext]_<<store, result>>
<1>1. Typed /\ Control /\ Fetching /\ Values /\ OwnParts
  BY DEF Inv, Values
<1>2. CASE UserStep
  BY <1>1, <1>2, UserRefined
<1>3. CASE MasterStep \/ (\E p \in Client : ClientStep(p)) \/ Stopped
  BY <1>1, <1>3, OthersRefined
<1>4. CASE UNCHANGED vars
  BY <1>4 DEF vars, userVars
<1> QED BY <1>2, <1>3, <1>4 DEF Next

\* The program sees one system: every call does and returns what it would in
\* VirtualGrid, where nothing is distributed and every call is done at once.
THEOREM Refinement ==
  ASSUME AwaitClients, AvoidRemote PROVE Spec => OneSystem
<1>1. Init => VG!VInit
  BY InitRefined
<1>2. Inv /\ [Next]_vars => [VG!VNext]_<<store, result>>
  BY StepRefined
<1> QED BY <1>1, <1>2, Invariance, PTL DEF Spec, OneSystem, VG!VSpec
=============================================================================
